----------------------------- MODULE XrayText -----------------------------
(***************************************************************************)
(* What scripts/vpngw_xray_client_lib.py makes of a provider's text: the   *)
(* outbounds of a runtime config, the nodes of a subscription's payload,   *)
(* the names of the configs they are stored as.                            *)
(*                                                                         *)
(* An outbound is what these functions read and write of it; a payload is  *)
(* its coding and what it lists.                                           *)
(***************************************************************************)
EXTENDS Naturals, Sequences, SequencesExt, Loops

CONSTANTS
  Tags,  \* of a provider's outbounds
  MaxOutbounds, MaxItems  \* bounds of the inputs the properties are about

NoTag == ""  \* no tag, or no dialer

ASSUME TagsAssumption == NoTag \notin Tags
ASSUME TextBounds == {MaxOutbounds, MaxItems} \subseteq Nat

---------------------------------------------------------------------------
(* Outbounds.                                                              *)

Proxies == {"vless"}  \* PROXY_PROTOCOLS
Reserved == {"proxy", "direct", "blocked"}

\* id tells which outbound of the provider's it comes from.
Outbounds ==
  [id : Nat, tag : Tags \cup Reserved \cup {NoTag}, protocol : {"vless", "freedom", "blackhole"},
   dialer : Tags \cup {NoTag}, marked : BOOLEAN]
Direct == [id |-> 0, tag |-> "direct", protocol |-> "freedom", dialer |-> NoTag, marked |-> TRUE]
Blocked == [id |-> 0, tag |-> "blocked", protocol |-> "blackhole", dialer |-> NoTag, marked |-> FALSE]

\* with_bypass_sockopt
Marked(out) == [out EXCEPT !.marked = TRUE]

\* The proxy and, behind it, extra_outbounds; good unless an error is raised.
Bundles == [good : BOOLEAN, chain : Seq(Outbounds), seen : SUBSET Tags]

\* by_tag: of outbounds with one tag the last; 0 if there is none.
ByTag(outbounds, tag) == SelectLastInSeq(outbounds, LAMBDA o : o.tag = tag)

\* Mutant: only an outbound that leaves the gateway is marked.
CollectUnmarked(bundle, outbounds) ==
  LET tag == Last(bundle.chain).dialer
      source == ByTag(outbounds, tag)
  IN  IF source = 0 \/ tag \in bundle.seen THEN [bundle EXCEPT !.good = FALSE]
      ELSE [bundle EXCEPT !.chain = Append(@, outbounds[source]), !.seen = @ \cup {tag}]

Collect(bundle, outbounds) ==
  LET tag == Last(bundle.chain).dialer
      source == ByTag(outbounds, tag)
  IN  IF source = 0 \/ tag \in bundle.seen THEN [bundle EXCEPT !.good = FALSE]
      ELSE [bundle EXCEPT !.chain = Append(@, Marked(outbounds[source])), !.seen = @ \cup {tag}]

\* One turn of the loop; a bundle that is good and complete, or not good, is
\* left alone.
Round(outbounds) ==
  [bundle \in Bundles |->
     IF ~bundle.good \/ bundle.chain = <<>> \/ Last(bundle.chain).dialer = NoTag THEN bundle
     ELSE Collect(bundle, outbounds)]

\* _collect_dialer_proxy_outbounds.  A turn that does not end the loop adds the
\* tag of an outbound to seen, so one turn more than there are outbounds is enough.
Chained(bundle, outbounds) == Repeat(Round(outbounds), bundle, Len(outbounds) + 1)

\* find_proxy_outbound_bundle
Bundle(outbounds) ==
  LET first == SelectInSeq(outbounds, LAMBDA o : o.protocol \in Proxies)
  IN  IF first = 0 THEN [good |-> FALSE, chain |-> <<>>, seen |-> {}]
      ELSE Chained([good |-> TRUE, chain |-> <<[Marked(outbounds[first]) EXCEPT !.tag = "proxy"]>>,
                    seen |-> {}], outbounds)

\* The outbounds of build_tun_config and build_socks_probe_config.
Runtime(bundle) == bundle.chain \o <<Direct, Blocked>>

---------------------------------------------------------------------------
(* Payloads of a subscription.                                             *)

\* other: a scheme or a protocol not supported, a comment; placeholder: a
\* node by which a provider says that it refuses.
Items == {"node", "placeholder", "other", "blank"}
Listed == {"node", "placeholder"}
Texts == Items \cup {"code", "json"}  \* a line of a payload before it is decoded
Codings == {"lines", "base64", "wrapped base64", "list", "object"}

Payloads ==
  {p \in [coding : Codings, items : SeqOf(Items, MaxItems)] :
     p.coding = "object" => Len(p.items) = 1}

\* The lines that are not empty: of what the provider wrote, and of what was
\* downloaded.
Written(p) == Only(Texts, p.items, Items \ {"blank"})
Lines(p) ==
  CASE p.coding = "lines" -> Written(p)
    [] p.coding = "base64" -> <<"code">>
    [] p.coding = "wrapped base64" -> <<"code", "code">>
    [] OTHER -> <<"json">>

Decoded(p) ==
  IF Len(Lines(p)) <= 1 /\ p.coding = "base64" THEN Written(p) ELSE <<>>

\* parse_subscription_payload
Entries(p) ==
  Only(Texts, IF p.coding \in {"list", "object"} THEN p.items
              ELSE IF Decoded(p) # <<>> THEN Decoded(p) ELSE Lines(p), Listed)

\* _supported_subscription_entries
Supported(entries) == Only(Texts, entries, Listed \ {"placeholder"})

---------------------------------------------------------------------------
(* Names of generated configs.                                             *)

\* A text of one letter; digits of a number below 1000.
Letters(letter, n) == [i \in 1..n |-> letter]
Digits(n) ==
  LET Digit(d) == <<"0", "1", "2", "3", "4", "5", "6", "7", "8", "9">>[(d % 10) + 1]
  IN  (IF n >= 100 THEN <<Digit(n \div 100)>> ELSE <<>>) \o <<Digit(n \div 10), Digit(n)>>

Cut(text, n) == SubSeq(text, 1, IF Len(text) < n THEN Len(text) ELSE n)

Largest(m, n) == IF m >= n THEN m ELSE n

\* stable_config_name, of a slug without "-" at its ends
StableName(subscription, index, slug, digest) ==
  LET prefix == subscription \o <<"-">> \o Digits(index) \o <<"-">>
      room == Largest(8, 64 - Len(prefix) - 1 - 6)
  IN  Cut(prefix \o Cut(slug, room) \o <<"-">> \o Letters(digest, 6), 64)

---------------------------------------------------------------------------
(* Properties, over inputs of a bounded length.                            *)

ProviderConfigs ==
  LET Shapes == [tag : Tags \cup {NoTag}, protocol : {"vless", "freedom"}, dialer : Tags \cup {NoTag}]
      Placed(shapes) == [i \in DOMAIN shapes |->
        [id |-> i, tag |-> shapes[i].tag, protocol |-> shapes[i].protocol,
         dialer |-> shapes[i].dialer, marked |-> FALSE]]
  IN  {Placed(shapes) : shapes \in SeqOf(Shapes, MaxOutbounds)}

Unique(outbounds) ==
  \A i, j \in DOMAIN outbounds : outbounds[i].tag = outbounds[j].tag /\ outbounds[i].tag # NoTag => i = j

\* The outbounds that carry the connections of one: next, and in the end.
Dialed(outbounds, i) == {j \in DOMAIN outbounds : outbounds[i].dialer # NoTag /\ outbounds[j].tag = outbounds[i].dialer}
Closed(outbounds, S) == \A i \in S : Dialed(outbounds, i) \subseteq S
Behind(outbounds, i) ==
  {j \in DOMAIN outbounds :
     \A S \in SUBSET DOMAIN outbounds : Dialed(outbounds, i) \subseteq S /\ Closed(outbounds, S) => j \in S}

Resolved(outbounds, used) ==
  \A i \in used : outbounds[i].dialer # NoTag => \E j \in used : outbounds[j].tag = outbounds[i].dialer

\* A provider's config is run with what its proxy needs of it, and every
\* connection to the provider is marked, so that it does not enter the tunnel
\* it carries.
RunsAsMeant(outbounds) ==
  LET first == SelectInSeq(outbounds, LAMBDA o : o.protocol \in Proxies)
      used == {first} \cup Behind(outbounds, first)
      bundle == Bundle(outbounds)
      run == Runtime(bundle)
  IN  /\ bundle.good <=> first # 0 /\ Resolved(outbounds, used) /\ \A i \in used : i \notin Behind(outbounds, i)
      /\ bundle.good /\ (\A i \in used \ {first} : outbounds[i].tag \notin Reserved) =>
           /\ run[1].id = first /\ Unique(run) /\ Resolved(run, DOMAIN run)
           /\ {run[i].id : i \in DOMAIN run} = used \cup {0}
           /\ \A i \in DOMAIN run : run[i].dialer = NoTag /\ run[i].protocol # "blackhole" => run[i].marked

AllRunAsMeant == \A outbounds \in ProviderConfigs : Unique(outbounds) => RunsAsMeant(outbounds)

\* Base64 in more than one line is not recognised.
AllNodesFound ==
  \A p \in Payloads :
    Supported(Entries(p)) =
      IF p.coding = "wrapped base64" THEN <<>> ELSE Only(Texts, p.items, {"node"})

\* The names a subscription's config can have at a place of the payload.
NamesAt(length, index, digests) ==
  {StableName(Letters("s", length), index, Letters("x", n), digest) : n \in {1, 8, 32}, digest \in digests}

\* Of subscriptions whose name has up to 60 letters, all nodes have names of
\* their own; up to 44, the digest that tells a node from the one it replaces is whole.
AllNamesApart ==
  /\ \A length \in 1..60 : \A i, j \in {1, 9, 10, 11, 99, 100, 101, 999} :
       i # j => NamesAt(length, i, {"d", "e"}) \cap NamesAt(length, j, {"d", "e"}) = {}
  /\ \A length \in 1..44 : \A i \in {1, 99, 100, 999} : \A name \in NamesAt(length, i, {"d"}) :
       IsSuffix(Letters("d", 6), name)
===========================================================================
