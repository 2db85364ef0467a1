---------------------------- MODULE Probes_proof ----------------------------
(***************************************************************************)
(* Proofs about AwgProbes, XrayProbes and UdpAssociate, which share        *)
(* nothing.                                                                *)
(*                                                                         *)
(* AwgProbes: a step of a probe concerns its own record, interface and     *)
(* file, and the route to the host it measures; a change of the tunnel     *)
(* makes every probe in flight stale.  So all that a probe has seen of the *)
(* tunnel is true until it is stale, and every route has a probe that is   *)
(* going to remove it, until the API dies.                                 *)
(*                                                                         *)
(* XrayProbes: the ports a probe waits to listen on are free and no other  *)
(* probe's, until a port is given out twice; then the two it was given to  *)
(* are marked, and of every other probe the invariant goes on to say that  *)
(* what listens on its ports is its own.                                   *)
(*                                                                         *)
(* UdpAssociate: only one relay sends addresses, so an address in the      *)
(* channel is always the last one sent; from that it follows that the      *)
(* second send finds room, and that the last address is never lost between *)
(* the relays.                                                             *)
(*                                                                         *)
(* XrayText: what has been collected after some turns is a way from the    *)
(* proxy, each outbound on it the dialer of the one before, on which no    *)
(* outbound comes twice.  There are no more turns than outbounds, so the   *)
(* way comes to an end: at an outbound without a dialer it has all that is *)
(* needed, and else it shows what is missing or where the circle is.  A    *)
(* name tells its place in the payload by three of its letters.            *)
(***************************************************************************)
EXTENDS AwgProbes, XrayProbes, UdpAssociate, Loops_proof, FiniteSetTheorems

AwgSpec == AwgInit /\ [][AwgNext]_awgVars

\* An interface is the probe's from its creation to its removal.
Placed(p) ==
  /\ probe[p].at = "idle" => probe[p] = Idle
  /\ probe[p].at # "idle" => probe[p].name \in Configs
  /\ probe[p].at \in {"idle", "unit", "link", "add"} => temps[p] = Absent /\ p \notin confs
  /\ probe[p].at \in {"idle", "unit", "link", "add", "configure"} => probe[p].iface = Absent
  /\ probe[p].at \in {"resolve", "route", "measure", "unroute", "clean"} => probe[p].iface \in {p, Live}

\* It carries the config asked for, or nothing yet.
Owned(p) ==
  /\ temps[p] = Blank => probe[p].at = "configure"
  /\ temps[p] \in Configs => temps[p] = probe[p].name

\* Nothing has changed under a probe that is not stale.
Seen(p) ==
  ~probe[p].stale /\ probe[p].at # "idle" =>
    /\ Settled
    /\ probe[p].at \in {"unit", "link"} => probe[p].name = active /\ choice = "amnezia"
    /\ probe[p].at \notin {"unit", "link"} /\ probe[p].iface = Live => probe[p].name = active
    /\ probe[p].at \notin {"unit", "link"} /\ probe[p].iface # Live =>
         probe[p].name # active \/ choice # "amnezia" \/ live = Absent

Own(p) == probe[p].of # Absent => probe[p].of = probe[p].name \/ probe[p].stale

Local(p) == Placed(p) /\ Owned(p) /\ Seen(p) /\ Own(p)

\* Every route has a probe that will remove it.
Held ==
  deaths = 0 => \A h \in Hosts : routes[h] # Absent =>
    \E p \in Probers :
      probe[p].iface = routes[h] /\ probe[p].part = h /\ probe[p].at \in {"measure", "unroute"}

IInv == AwgTypeOK /\ (\A p \in Probers : Local(p)) /\ Held
---------------------------------------------------------------------------
LEMMA InitHolds == AwgInit => IInv
BY ProbersAssumption, ProbeBounds
   DEF AwgInit, IInv, AwgTypeOK, Probes, Local, Placed, Owned, Seen, Own, Held, Hosts, Idle

\* What a step leaves alone stays as it was.
LEMMA OthersLocal ==
  ASSUME NEW q \in Probers, Local(q), UNCHANGED tunnel,
         probe'[q] = probe[q], temps'[q] = temps[q], q \in confs' <=> q \in confs
  PROVE  Local(q)'
BY DEF Local, Placed, Owned, Seen, Own, Settled, tunnel

\* A probe that holds no route takes nobody's witness away.
LEMMA HeldByOthers ==
  ASSUME NEW p \in Probers, Held, UNCHANGED <<routes, deaths>>,
         probe[p].at \notin {"measure", "unroute"},
         \A q \in Probers \ {p} : probe'[q] = probe[q]
  PROVE  Held'
BY DEF Held

\* A probe that looks at the tunnel sees it as it is.
LEMMA LookLocal ==
  ASSUME NEW p \in Probers, NEW kind, NEW part, NEW c \in Configs,
         IInv, Look(p, kind, part, c), UNCHANGED tunnel, temps'[p] = Absent, p \notin confs'
  PROVE  Local(p)'
<1> DEFINE at == IF c = active /\ choice = "amnezia" THEN "unit" ELSE "add"
<1>1. probe'[p] = [at |-> at, kind |-> kind, part |-> part, name |-> c,
                   iface |-> Absent, of |-> Absent, stale |-> ~Settled]
  BY DEF IInv, AwgTypeOK, Look, Looking
<1>2. /\ probe'[p].at = at /\ probe'[p].name = c /\ probe'[p].iface = Absent
      /\ probe'[p].of = Absent /\ probe'[p].stale = ~Settled
  BY <1>1
<1>3. Placed(p)' /\ Owned(p)' /\ Own(p)'
  BY <1>2, ProbersAssumption DEF Placed, Owned, Own
<1>4. Seen(p)'
  BY <1>2, ProbersAssumption DEF Seen, Settled, tunnel
<1> QED
  BY <1>3, <1>4 DEF Local

LEMMA LookTyped ==
  ASSUME NEW p \in Probers, NEW kind \in {"ping", "hard", "both"}, NEW part \in Hosts,
         NEW c \in Configs, AwgTypeOK, Look(p, kind, part, c)
  PROVE  /\ probe' \in [Probers -> Probes]
         /\ \A q \in Probers \ {p} : probe'[q] = probe[q]
<1>1. Settled \in BOOLEAN
  BY DEF Settled
<1> QED
  BY <1>1 DEF AwgTypeOK, Probes, Look, Looking

LEMMA AskProbeKeeps ==
  ASSUME NEW p \in Probers, NEW c \in Configs, NEW kind \in {"ping", "hard", "both"},
         IInv, AskProbe(p, kind, c)
  PROVE  IInv'
<1> USE ProbersAssumption, ProbeBounds
<1> DEFINE part == IF kind = "hard" THEN "test" ELSE "ping"
<1>0. probe[p].at = "idle" /\ temps[p] = Absent /\ p \notin confs /\ Look(p, kind, part, c)
  BY DEF IInv, AskProbe, Local, Placed, Idle
<1>1. AwgTypeOK'
  <2>1. part \in Hosts
    BY DEF Hosts
  <2>2. asked' \in 0..MaxAsked
    BY DEF IInv, AwgTypeOK, AskProbe
  <2> QED
    BY <1>0, <2>1, <2>2, LookTyped DEF IInv, AwgTypeOK, AskProbe, tunnel
<1>2. Local(p)'
  BY <1>0, LookLocal DEF AskProbe
<1>3. ASSUME NEW q \in Probers \ {p} PROVE Local(q)'
  BY <1>3, OthersLocal DEF IInv, AwgTypeOK, AskProbe, Look, Looking
<1>4. Held'
  BY HeldByOthers DEF IInv, AwgTypeOK, AskProbe, Look, Looking, Idle
<1> QED
  BY <1>1, <1>2, <1>3, <1>4 DEF IInv

LEMMA AsksKeep ==
  ASSUME NEW p \in Probers, IInv, AskUnit(p) \/ AskLink(p) PROVE IInv'
<1> USE ProbersAssumption DEF Goes, Untouched, AwgCounted, AskUnit, AskLink
<1>1. AwgTypeOK'
  BY DEF IInv, AwgTypeOK, Probes, Local, Placed, Ready, tunnel
<1>2. Local(p)'
  BY DEF IInv, AwgTypeOK, Probes, Ready, Local, Placed, Owned, Seen, Own, tunnel, Settled
<1>3. ASSUME NEW q \in Probers \ {p} PROVE Local(q)'
  BY <1>3, OthersLocal DEF IInv, AwgTypeOK
<1>4. Held'
  BY HeldByOthers DEF IInv, AwgTypeOK
<1> QED
  BY <1>1, <1>2, <1>3, <1>4 DEF IInv

LEMMA IdleLocal ==
  ASSUME NEW p \in Probers, probe'[p] = Idle, temps'[p] = Absent, p \notin confs' PROVE Local(p)'
BY ProbersAssumption DEF Local, Placed, Owned, Seen, Own, Idle

LEMMA IdleTyped ==
  Idle \in Probes
BY DEF Probes, Idle, Hosts

LEMMA AddLinkKeeps ==
  ASSUME NEW p \in Probers, NEW good \in BOOLEAN, IInv, AddLink(p, good) PROVE IInv'
<1> USE ProbersAssumption DEF Goes, GivesUp, AwgCounted, AddLink
<1>0. temps[p] = Absent /\ p \notin confs /\ probe[p].iface = Absent
  BY DEF IInv, Local, Placed
<1>1. AwgTypeOK'
  <2>1. CASE good
    BY <2>1, <1>0 DEF IInv, AwgTypeOK, Probes, tunnel
  <2>2. CASE ~good
    BY <2>2, <1>0, IdleTyped DEF IInv, AwgTypeOK, tunnel
  <2> QED
    BY <2>1, <2>2
<1>2. Local(p)'
  <2>1. CASE good
    <3>1. temps'[p] = Blank /\ probe'[p] = [probe[p] EXCEPT !.at = "configure"]
      BY <2>1 DEF IInv, AwgTypeOK
    <3>2. probe'[p].at = "configure" /\ probe'[p].name = probe[p].name /\ probe'[p].of = probe[p].of
          /\ probe'[p].iface = probe[p].iface /\ probe'[p].stale = probe[p].stale
      BY <3>1 DEF IInv, AwgTypeOK
    <3>3. UNCHANGED <<active, choice, live>>
      BY DEF tunnel
    <3> QED
      BY <1>0, <3>1, <3>2, <3>3 DEF IInv, Local, Placed, Owned, Seen, Own, Settled
  <2>2. CASE ~good
    BY <2>2, <1>0, IdleLocal DEF IInv, AwgTypeOK
  <2> QED
    BY <2>1, <2>2
<1>3. ASSUME NEW q \in Probers \ {p} PROVE Local(q)'
  BY <1>3, OthersLocal DEF IInv, AwgTypeOK
<1>4. Held'
  BY HeldByOthers DEF IInv, AwgTypeOK
<1> QED
  BY <1>1, <1>2, <1>3, <1>4 DEF IInv

LEMMA ConfigureKeeps ==
  ASSUME NEW p \in Probers, NEW good \in BOOLEAN, IInv, Configure(p, good) PROVE IInv'
<1> USE ProbersAssumption DEF Goes, GivesUp, AwgCounted, Configure
<1>0. /\ probe[p].at = "configure" /\ probe[p].iface = Absent
      /\ probe[p].name \in Configs \cup {Absent} /\ probe[p].part \in Hosts
  BY DEF IInv, AwgTypeOK, Probes, Local, Placed
<1>1. CASE good
  <2>1. temps'[p] = probe[p].name /\ probe'[p] = [probe[p] EXCEPT !.at = Ready(p), !.iface = p]
    BY <1>1 DEF IInv, AwgTypeOK
  <2>2. /\ probe'[p].at = Ready(p) /\ probe'[p].iface = p
        /\ probe'[p].name = probe[p].name /\ probe'[p].of = probe[p].of
        /\ probe'[p].stale = probe[p].stale
    BY <2>1 DEF IInv, AwgTypeOK
  <2>3. Ready(p) \in {"resolve", "route"}
    BY DEF Ready
  <2>4. AwgTypeOK'
    BY <1>0, <1>1, <2>3 DEF IInv, AwgTypeOK, Probes, tunnel
  <2>5. Local(p)'
    <3>1. Placed(p)' /\ Owned(p)' /\ Own(p)'
      BY <1>0, <2>1, <2>2, <2>3 DEF IInv, Local, Placed, Owned, Own
    <3>2. UNCHANGED <<active, choice, live>>
      BY DEF tunnel
    <3>3. Seen(p)'
      BY <1>0, <2>2, <2>3, <3>2 DEF IInv, Local, Seen, Settled
    <3> QED
      BY <3>1, <3>3 DEF Local
  <2>6. ASSUME NEW q \in Probers \ {p} PROVE Local(q)'
    BY <1>1, <2>6, OthersLocal DEF IInv, AwgTypeOK
  <2>7. Held'
    BY <1>1, HeldByOthers DEF IInv, AwgTypeOK
  <2> QED
    BY <2>4, <2>5, <2>6, <2>7 DEF IInv
<1>2. CASE ~good
  <2>1. AwgTypeOK'
    BY <1>2, IdleTyped DEF IInv, AwgTypeOK, tunnel
  <2>2. Local(p)'
    BY <1>2, IdleLocal DEF IInv, AwgTypeOK
  <2>3. ASSUME NEW q \in Probers \ {p} PROVE Local(q)'
    BY <1>2, <2>3, OthersLocal DEF IInv, AwgTypeOK
  <2>4. Held'
    BY <1>2, HeldByOthers DEF IInv, AwgTypeOK
  <2> QED
    BY <2>1, <2>2, <2>3, <2>4 DEF IInv
<1> QED
  BY <1>1, <1>2

LEMMA ResolveKeeps ==
  ASSUME NEW p \in Probers, NEW good \in BOOLEAN, IInv, Resolve(p, good) PROVE IInv'
<1> USE ProbersAssumption DEF Goes, Untouched, AwgCounted, Resolve
<1>1. AwgTypeOK'
  BY DEF IInv, AwgTypeOK, Probes, tunnel
<1>2. Local(p)'
  BY DEF IInv, AwgTypeOK, Local, Placed, Owned, Seen, Own, tunnel, Settled
<1>3. ASSUME NEW q \in Probers \ {p} PROVE Local(q)'
  BY <1>3, OthersLocal DEF IInv, AwgTypeOK
<1>4. Held'
  BY HeldByOthers DEF IInv, AwgTypeOK
<1> QED
  BY <1>1, <1>2, <1>3, <1>4 DEF IInv

---------------------------------------------------------------------------
LEMMA AddRouteKeeps ==
  ASSUME NEW p \in Probers, IInv, AddRoute(p) PROVE IInv'
<1> USE ProbersAssumption DEF Goes, AwgCounted, AddRoute
<1>1. AwgTypeOK'
  BY DEF IInv, AwgTypeOK, Probes, Local, Placed, tunnel, Hosts
<1>2. Local(p)'
  BY DEF IInv, AwgTypeOK, Local, Placed, Owned, Seen, Own, tunnel, Settled
<1>3. ASSUME NEW q \in Probers \ {p} PROVE Local(q)'
  BY <1>3, OthersLocal DEF IInv, AwgTypeOK
<1>4. Held'
  <2> SUFFICES ASSUME deaths = 0, NEW h \in Hosts, routes'[h] # Absent
               PROVE  \E q \in Probers : /\ probe'[q].iface = routes'[h]
                                         /\ probe'[q].part = h
                                         /\ probe'[q].at \in {"measure", "unroute"}
    BY DEF Held
  <2>1. CASE routes'[h] = routes[h]
    BY <2>1 DEF IInv, AwgTypeOK, Held
  <2>2. CASE routes'[h] # routes[h]
    BY <2>2 DEF IInv, AwgTypeOK
  <2> QED
    BY <2>1, <2>2
<1> QED
  BY <1>1, <1>2, <1>3, <1>4 DEF IInv

LEMMA MeasuredTyped ==
  ASSUME NEW r \in Probes, NEW x \in Configs \cup {Absent}
  PROVE  [r EXCEPT !.at = "unroute", !.of = x] \in Probes
BY DEF Probes

LEMMA MeasureKeeps ==
  ASSUME NEW p \in Probers, NEW good \in BOOLEAN, IInv, Measure(p, good) PROVE IInv'
<1> USE ProbersAssumption DEF Untouched, AwgCounted, Measure, Carried
<1>0. probe[p].at = "measure" /\ temps[p] # Blank /\ probe[p].iface \in {p, Live}
  BY DEF IInv, Local, Placed, Owned
<1>1. /\ good => Carried(probe[p].iface) \in Configs
      /\ good /\ ~probe[p].stale => Carried(probe[p].iface) = probe[p].name
  <2>1. CASE probe[p].iface = Live
    BY <1>0, <2>1 DEF IInv, AwgTypeOK, Local, Seen, Settled
  <2>2. CASE probe[p].iface = p
    BY <1>0, <2>2 DEF IInv, AwgTypeOK, Local, Owned
  <2> QED
    BY <1>0, <2>1, <2>2
<1>2. Local(p)' /\ AwgTypeOK'
  <2>1. /\ probe'[p].at = "unroute" /\ probe'[p].iface = probe[p].iface
        /\ probe'[p].name = probe[p].name /\ probe'[p].stale = probe[p].stale
        /\ probe'[p].of = IF good THEN Carried(probe[p].iface) ELSE Absent
    BY DEF IInv, AwgTypeOK
  <2>2. UNCHANGED <<active, choice, live, temps, confs>>
    BY DEF tunnel
  <2>3. Placed(p)' /\ Owned(p)'
    BY <1>0, <2>1, <2>2 DEF IInv, Local, Placed, Owned
  <2>4. Seen(p)'
    BY <1>0, <2>1, <2>2 DEF IInv, Local, Seen, Settled
  <2>5. Own(p)'
    BY <1>1, <2>1 DEF Own
  <2>6. AwgTypeOK'
    <3>1. PICK x \in Configs \cup {Absent} : probe' = [probe EXCEPT ![p].at = "unroute", ![p].of = x]
      BY <1>1
    <3>2. probe'[p] = [probe[p] EXCEPT !.at = "unroute", !.of = x]
      BY <3>1 DEF IInv, AwgTypeOK
    <3>3. probe[p] \in Probes
      BY DEF IInv, AwgTypeOK
    <3>4. probe'[p] \in Probes
      BY <3>2, <3>3, MeasuredTyped, ZenonT(40)
    <3> QED
      BY <1>0, <2>1, <3>4 DEF IInv, AwgTypeOK, tunnel
  <2> QED
    BY <2>3, <2>4, <2>5, <2>6 DEF Local
<1>3. ASSUME NEW q \in Probers \ {p} PROVE Local(q)'
  BY <1>3, OthersLocal DEF IInv, AwgTypeOK
<1>4. Held'
  BY DEF IInv, AwgTypeOK, Held
<1> QED
  BY <1>2, <1>3, <1>4 DEF IInv

LEMMA DelRouteKeeps ==
  ASSUME NEW p \in Probers, IInv, DelRoute(p) PROVE IInv'
<1> USE ProbersAssumption DEF Goes, AwgCounted, DelRoute
<1>1. AwgTypeOK'
  BY DEF IInv, AwgTypeOK, Probes, tunnel
<1>2. Local(p)'
  BY DEF IInv, AwgTypeOK, Local, Placed, Owned, Seen, Own, tunnel, Settled
<1>3. ASSUME NEW q \in Probers \ {p} PROVE Local(q)'
  BY <1>3, OthersLocal DEF IInv, AwgTypeOK
<1>4. Held'
  BY DEF IInv, AwgTypeOK, Held
<1> QED
  BY <1>1, <1>2, <1>3, <1>4 DEF IInv

LEMMA CleanKeeps ==
  ASSUME NEW p \in Probers, IInv, Clean(p) PROVE IInv'
<1> USE ProbersAssumption DEF AwgCounted, Clean
<1>1. /\ temps' = [temps EXCEPT ![p] = Absent] /\ confs' = confs \ {p}
      /\ routes' \in [Hosts -> Probers \cup {Live, Orphan, Absent}]
  <2>1. CASE probe[p].iface = Live
    BY <2>1 DEF IInv, AwgTypeOK
  <2>2. CASE probe[p].iface # Live
    BY <2>2 DEF IInv, AwgTypeOK, Removed, RoutesWithout
  <2> QED
    BY <2>1, <2>2
<1>2. UNCHANGED tunnel /\ temps'[p] = Absent /\ p \notin confs'
  BY <1>1 DEF IInv, AwgTypeOK
<1>3. \A q \in Probers \ {p} : probe'[q] = probe[q]
  BY DEF IInv, AwgTypeOK, GivesUp, Look, Looking
<1>4. Local(p)' /\ AwgTypeOK'
  <2>1. CASE probe[p].kind = "both" /\ probe[p].part = "ping" /\ probe[p].of # Absent
    <3>1. PICK c \in Configs : c = probe[p].name
      BY DEF IInv, Local, Placed
    <3>2. Look(p, "both", "test", c)
      BY <2>1, <3>1
    <3>3. Local(p)'
      BY <1>2, <3>2, LookLocal
    <3>4. "test" \in Hosts
      BY DEF Hosts
    <3>5. AwgTypeOK'
      BY <1>1, <3>2, <3>4, LookTyped DEF IInv, AwgTypeOK, tunnel
    <3> QED
      BY <3>3, <3>5
  <2>2. CASE ~(probe[p].kind = "both" /\ probe[p].part = "ping" /\ probe[p].of # Absent)
    <3>1. probe' = [probe EXCEPT ![p] = Idle]
      BY <2>2 DEF GivesUp
    <3>2. Local(p)'
      BY <1>2, <3>1, IdleLocal DEF IInv, AwgTypeOK
    <3>3. AwgTypeOK'
      BY <1>1, <3>1, IdleTyped DEF IInv, AwgTypeOK, tunnel
    <3> QED
      BY <3>2, <3>3
  <2> QED
    BY <2>1, <2>2
<1>5. ASSUME NEW q \in Probers \ {p} PROVE Local(q)'
  BY <1>1, <1>2, <1>3, <1>5, OthersLocal DEF IInv, AwgTypeOK
<1>6. Held'
  <2>1. CASE probe[p].iface = Live
    BY <1>3, <2>1, HeldByOthers DEF IInv
  <2>2. CASE probe[p].iface # Live
    BY <1>3, <2>2 DEF IInv, Held, Removed, RoutesWithout, Hosts
  <2> QED
    BY <2>1, <2>2
<1> QED
  BY <1>4, <1>5, <1>6 DEF IInv

---------------------------------------------------------------------------
(* The tunnel and the API's death.                                         *)

LEMMA DeathKeeps == ASSUME IInv, AwgApiDies PROVE IInv'
<1>1. AwgTypeOK'
  BY ProbersAssumption, ProbeBounds DEF AwgApiDies, IInv, AwgTypeOK, Probes, tunnel, Idle, Hosts
<1>2. ASSUME NEW p \in Probers PROVE Local(p)'
  BY <1>2, ProbersAssumption DEF AwgApiDies, IInv, AwgTypeOK, Local, Placed, Owned, Seen, Own, Idle
<1>3. Held'
  BY DEF AwgApiDies, IInv, AwgTypeOK, Held
<1> QED
  BY <1>1, <1>2, <1>3 DEF IInv

LEMMA ChangeLocal ==
  ASSUME IInv, Change, NEW p \in Probers PROVE Local(p)'
BY ProbersAssumption DEF Change, IInv, AwgTypeOK, Local, Placed, Owned, Seen, Own, Idle

LEMMA ChangeHeld ==
  ASSUME IInv, Change, \A h \in Hosts : routes'[h] \in {routes[h], Absent} PROVE Held'
BY ProbersAssumption DEF Change, IInv, AwgTypeOK, Local, Placed, Held, Idle

LEMMA ChangeTyped ==
  ASSUME AwgTypeOK, Change,
         active' \in Configs, installed' \in Configs, choice' \in {"amnezia", "other"},
         live' \in Configs \cup {Absent},
         routes' \in [Hosts -> Probers \cup {Live, Orphan, Absent}]
  PROVE  AwgTypeOK'
<1>1. changes' \in 0..MaxEvents
  BY ProbeBounds DEF Change, AwgTypeOK
<1>2. \A p \in Probers : probe'[p].at = probe[p].at /\ probe'[p].iface = probe[p].iface
  BY DEF Change, AwgTypeOK, Idle
<1>3. probe' \in [Probers -> Probes]
  <2>1. ASSUME NEW p \in Probers PROVE probe'[p] \in Probes
    <3>1. CASE probe[p] = Idle
      BY <3>1, IdleTyped DEF Change
    <3>2. CASE probe[p] # Idle
      <4>1. probe'[p] = [probe[p] EXCEPT !.stale = TRUE]
        BY <3>2 DEF Change
      <4>2. probe[p] \in Probes
        BY DEF AwgTypeOK
      <4> QED
        BY <4>1, <4>2 DEF Probes
    <3> QED
      BY <3>1, <3>2
  <2>2. probe' = [p \in Probers |-> probe'[p]]
    BY DEF Change
  <2> QED
    BY <2>1, <2>2
<1>4. UNCHANGED <<temps, confs, asked, deaths>>
  BY DEF Change
<1> QED
  BY <1>1, <1>2, <1>3, <1>4 DEF AwgTypeOK

LEMMA TunnelKeeps ==
  ASSUME IInv,
         \/ TunnelStops \/ TunnelStarts \/ ConfigMarked
         \/ \E c \in Configs : ConfigInstalled(c)
         \/ \E target \in {"amnezia", "other"} : TunnelChosen(target)
  PROVE  IInv'
<1>1. Change
  BY DEF TunnelStops, TunnelStarts, ConfigMarked, ConfigInstalled, TunnelChosen
<1>2. \A h \in Hosts : routes'[h] \in {routes[h], Absent}
  BY DEF TunnelStops, TunnelStarts, ConfigMarked, ConfigInstalled, TunnelChosen, RoutesWithout
<1>3. routes' \in [Hosts -> Probers \cup {Live, Orphan, Absent}]
  BY DEF IInv, AwgTypeOK, TunnelStops, TunnelStarts, ConfigMarked, ConfigInstalled, TunnelChosen,
         RoutesWithout
<1>4. AwgTypeOK'
  BY <1>1, <1>3, ChangeTyped
     DEF IInv, AwgTypeOK, TunnelStops, TunnelStarts, ConfigMarked, ConfigInstalled, TunnelChosen
<1> QED
  BY <1>1, <1>2, <1>4, ChangeLocal, ChangeHeld DEF IInv

---------------------------------------------------------------------------
LEMMA StutterKeeps == ASSUME IInv, UNCHANGED awgVars PROVE IInv'
BY DEF awgVars, tunnel, IInv, AwgTypeOK, Local, Placed, Owned, Seen, Own, Settled, Held

LEMMA Inductive == IInv /\ [AwgNext]_awgVars => IInv'
<1> SUFFICES ASSUME IInv, [AwgNext]_awgVars PROVE IInv'
  OBVIOUS
<1>1. ASSUME NEW p \in Probers, ProbeStep(p) PROVE IInv'
  BY <1>1, AsksKeep, AddLinkKeeps, ConfigureKeeps, ResolveKeeps, AddRouteKeeps, MeasureKeeps,
     DelRouteKeeps, CleanKeeps DEF ProbeStep
<1> QED
  BY <1>1, AskProbeKeeps, DeathKeeps, TunnelKeeps, StutterKeeps DEF AwgNext

LEMMA Invariant == AwgSpec => []IInv
<1> QED
  BY InitHolds, Inductive, PTL DEF AwgSpec

(* Probes stay well formed: what a probe holds of interfaces and files     *)
(* belongs to the steps of vpn.py it has done (vpn.py:301-481).            *)
THEOREM ProbesTyped == AwgSpec => []AwgTypeOK
<1>1. IInv => AwgTypeOK
  BY DEF IInv
<1> QED
  BY <1>1, Invariant, PTL

(* However many probes run at once, whatever fails in them and however the *)
(* tunnel is switched meanwhile, when all have ended they have left no     *)
(* interface, no file with keys and no host route behind (vpn.py:340-348,  *)
(* 385-390, 430-455).                                                      *)
THEOREM ProbesLeaveNothing == AwgSpec => []NothingLeft
<1>1. IInv => NothingLeft
  BY DEF IInv, Local, Placed, Held, NothingLeft, Idle, AwgTypeOK
<1> QED
  BY <1>1, Invariant, PTL

(* A good result is about the config asked for, or the tunnel has changed  *)
(* since the probe looked at it (vpn.py:301-316).                          *)
THEOREM ProbesMeasureTheirConfig == AwgSpec => []OwnConfig
<1>1. IInv => OwnConfig
  BY DEF IInv, Local, Own, OwnConfig
<1> QED
  BY <1>1, Invariant, PTL

(* A temporary interface never carries the config of the tunnel in use     *)
(* unless the tunnel has changed since the probe looked at it              *)
(* (vpn.py:301-316).                                                       *)
THEOREM NoTwinOfTheTunnel == AwgSpec => []NoTwin
<1>1. IInv => NoTwin
  BY ProbersAssumption DEF IInv, AwgTypeOK, Local, Placed, Owned, Seen, Settled, NoTwin
<1> QED
  BY <1>1, Invariant, PTL

---------------------------------------------------------------------------
(* XrayProbes: each probe has its ports and processes to itself.           *)

XraySpec == XrayInit /\ [][XrayNext]_xrayVars

AtProbes == {"sidecar", "xray", "curl", "stop", "stopside"}

\* What processes, ports and files a probe has, hit or not.
Has(t) ==
  /\ t[1] > submitted => task[t].at = "none" /\ t \notin lost
  /\ t \in lost => task[t].at \in {"none", "done"}
  /\ Xray(t) \in running => task[t].at \in {"xray", "curl", "stop"}
  /\ Sidecar(t) \in running => t \in lost \/ task[t].at \in AtProbes
  /\ t \in files => t \in lost \/ task[t].at \in AtProbes
  /\ task[t].at = "sidecar" => /\ Outlined(t) /\ Sidecar(t) \in running
                               /\ task[t].side \in Ports /\ task[t].port \in Ports
  /\ task[t].at = "xray" => Xray(t) \in running /\ task[t].port \in Ports

\* A process listens once it has come up.
Listens(t) ==
  \A n \in Ports :
    /\ listens[n] = Sidecar(t) => t \in lost \/ task[t].at \in {"xray", "curl", "stop", "stopside"}
    /\ listens[n] = Xray(t) => task[t].at \in {"curl", "stop"}

\* The ports are its own, and so is the verdict.
Owns(t) ==
  ~task[t].hit =>
    /\ task[t].at \in {"sidecar", "xray"} => listens[task[t].port] = None
    /\ task[t].at = "sidecar" => task[t].side # task[t].port /\ listens[task[t].side] = None
    /\ task[t].at = "curl" => task[t].port \in Ports /\ listens[task[t].port] = Xray(t)
    /\ task[t].at \in {"xray", "curl"} /\ Outlined(t) =>
         task[t].side \in Ports /\ listens[task[t].side] = Sidecar(t)
    /\ task[t].at \in {"stop", "stopside", "again", "done"} =>
         /\ task[t].verdict = "error" => t[2] \notin library
         /\ task[t].verdict # "error" => (task[t].verdict = "ok" <=> t[2] \in works)

\* What two probes wait to listen on.
Apart(t, u) ==
  Waits(t) /\ Waits(u) /\ ~task[t].hit =>
    \A n \in Ports : n \in {task[t].port, task[t].side} => n \notin {task[u].port, task[u].side}

XrayInv ==
  /\ XrayTypeOK
  /\ \A t \in Tasks : Has(t) /\ Listens(t) /\ Owns(t)
  /\ \A t, u \in Tasks : t # u => Apart(t, u)

LEMMA Names ==
  /\ \A t, u : /\ Xray(t) = Xray(u) => t = u
               /\ Sidecar(t) = Sidecar(u) => t = u
               /\ Xray(t) # Sidecar(u)
  /\ \A t \in Tasks : /\ Xray(t) \in Processes /\ Sidecar(t) \in Processes
                      /\ Xray(t) \notin {None, Tunnel} /\ Sidecar(t) \notin {None, Tunnel}
  /\ None # Tunnel /\ None \notin Ports
BY NamesAssumption, PortsAssumption DEF Xray, Sidecar, Processes

LEMMA SubmitKeeps ==
  ASSUME XrayInv, NEW k \in Checks, NEW kind \in {"ping", "hard"}, NEW entries \in SUBSET Nodes,
         Submit(k, kind, entries)
  PROVE  XrayInv'
<1>1. /\ k = submitted + 1 /\ submitted' = k /\ submitted \in Nat
      /\ UNCHANGED <<library, works, listens, running, files, lost, faults>>
      /\ \A t \in Tasks : task'[t] = task[t] \/ (t[1] = k /\ task'[t] = [Unasked EXCEPT !.at = "queued"])
  BY DEF XrayInv, XrayTypeOK, Submit
<1>2. XrayTypeOK'
  <2>1. task' \in [Tasks -> Probe]
    BY DEF XrayInv, XrayTypeOK, Submit, Unasked, Probe
  <2>2. check' \in [Checks -> {"none", "ping", "hard"}]
    BY DEF XrayInv, XrayTypeOK, Submit
  <2>3. submitted' \in 0..MaxChecks
    BY <1>1 DEF Checks
  <2>4. QED
    BY <1>1, <2>1, <2>2, <2>3 DEF XrayInv, XrayTypeOK
<1>3. ASSUME NEW t \in Tasks
      PROVE  /\ Has(t)' /\ Listens(t)' /\ Owns(t)'
             /\ \A u \in Tasks : t # u => Apart(t, u)'
  <2>1. t[1] \in Nat /\ Has(t) /\ Listens(t) /\ Owns(t)
    BY DEF XrayInv, Tasks, Checks
  <2>2. CASE task'[t] = task[t]
    <3>1. Has(t)' /\ Listens(t)' /\ Owns(t)'
      BY <1>1, <2>1, <2>2 DEF Has, Listens, Owns
    <3>2. \A u \in Tasks : t # u => Apart(t, u)'
      BY <1>1, <2>2 DEF XrayInv, Apart, Waits, Unasked
    <3>3. QED
      BY <3>1, <3>2
  <2>3. CASE t[1] = k /\ task'[t] = [Unasked EXCEPT !.at = "queued"]
    <3>1. task'[t].at = "queued"
      BY <2>3 DEF Unasked
    <3>2. t \notin lost /\ t[1] > submitted /\ task[t].at = "none"
      BY <1>1, <2>1, <2>3 DEF Has
    <3>3. Has(t)'
      BY <1>1, <2>1, <2>3, <3>1, <3>2 DEF Has, AtProbes
    <3>4. Listens(t)' /\ Owns(t)' /\ \A u \in Tasks : t # u => Apart(t, u)'
      BY <1>1, <2>1, <3>1, <3>2 DEF Listens, Owns, Apart, Waits
    <3>5. QED
      BY <3>3, <3>4
  <2>4. QED
    BY <1>1, <2>2, <2>3
<1>4. QED
  BY <1>2, <1>3 DEF XrayInv

LEMMA AnswerKeeps ==
  ASSUME XrayInv, NEW k \in Checks, Answer(k)
  PROVE  XrayInv'
<1>1. /\ UNCHANGED <<library, works, listens, running, files, lost, submitted, faults>>
      /\ \A t \in Tasks : task'[t] = task[t] \/ (task[t].at \in {"none", "done"} /\ task'[t] = Unasked)
  BY DEF XrayInv, XrayTypeOK, Answer, Of, NoFault
<1>2. XrayTypeOK'
  <2>1. task' \in [Tasks -> Probe]
    BY DEF XrayInv, XrayTypeOK, Answer, Unasked, Probe
  <2>2. check' \in [Checks -> {"none", "ping", "hard"}]
    BY DEF XrayInv, XrayTypeOK, Answer
  <2>3. QED
    BY <1>1, <2>1, <2>2 DEF XrayInv, XrayTypeOK
<1>3. ASSUME NEW t \in Tasks
      PROVE  /\ Has(t)' /\ Listens(t)' /\ Owns(t)'
             /\ \A u \in Tasks : t # u => Apart(t, u)'
  <2>1. Has(t) /\ Listens(t) /\ Owns(t)
    BY DEF XrayInv
  <2>2. CASE task'[t] = task[t]
    <3>1. Has(t)' /\ Listens(t)' /\ Owns(t)'
      BY <1>1, <2>1, <2>2 DEF Has, Listens, Owns
    <3>2. \A u \in Tasks : t # u => Apart(t, u)'
      BY <1>1, <2>2 DEF XrayInv, Apart, Waits, Unasked
    <3>3. QED
      BY <3>1, <3>2
  <2>3. CASE task[t].at \in {"none", "done"} /\ task'[t] = Unasked
    <3>1. task'[t].at = "none"
      BY <2>3 DEF Unasked
    <3>2. Has(t)' /\ Listens(t)' /\ Owns(t)' /\ \A u \in Tasks : t # u => Apart(t, u)'
      BY <1>1, <2>1, <2>3, <3>1 DEF Has, AtProbes, Listens, Owns, Apart, Waits
    <3>3. QED
      BY <3>2
  <2>4. QED
    BY <1>1, <2>2, <2>3
<1>4. QED
  BY <1>2, <1>3 DEF XrayInv

\* What a step leaves of a probe that it is not about.
Spares(u) ==
  /\ task'[u].at = task[u].at /\ task'[u].verdict = task[u].verdict
  /\ task'[u].port = task[u].port /\ task'[u].side = task[u].side
  /\ task[u].hit => task'[u].hit
  /\ submitted' = submitted
  /\ works' = works /\ library' \subseteq library
  /\ u \in lost' <=> u \in lost
  /\ u \in files' <=> u \in files
  /\ Xray(u) \in running' <=> Xray(u) \in running
  /\ Sidecar(u) \in running' <=> Sidecar(u) \in running
  /\ \A n \in Ports :
       \/ listens'[n] = listens[n]
       \/ /\ {listens[n], listens'[n]} \cap {Xray(u), Sidecar(u)} = {}
          /\ ~task[u].hit /\ Waits(u) /\ listens[n] = None => n \notin {task[u].port, task[u].side}

LEMMA SparedKeeps ==
  ASSUME XrayInv, NEW u \in Tasks, Spares(u)
  PROVE  Has(u)' /\ Listens(u)' /\ Owns(u)'
<1>1. Has(u) /\ Listens(u) /\ Owns(u)
  BY DEF XrayInv
<1>2. Has(u)'
  BY <1>1 DEF Spares, Has
<1>3. Listens(u)'
  BY <1>1 DEF Spares, Listens
<1>4. Owns(u)'
  <2>1. ~task[u].hit => /\ task[u].at \in {"sidecar", "xray"} => task[u].port \in Ports
                        /\ task[u].at = "sidecar" => task[u].side \in Ports
    BY <1>1 DEF Has
  <2>2. SUFFICES ASSUME ~task[u].hit, ~task'[u].hit PROVE Owns(u)'
    BY DEF Spares, Owns
  <2>3. task[u].at \in {"sidecar", "xray"} => listens'[task[u].port] = None
    BY <1>1, <2>1, <2>2 DEF Spares, Owns, Waits
  <2>4. task[u].at = "sidecar" => task[u].side # task[u].port /\ listens'[task[u].side] = None
    BY <1>1, <2>1, <2>2 DEF Spares, Owns, Waits
  <2>5. task[u].at = "curl" => task[u].port \in Ports /\ listens'[task[u].port] = Xray(u)
    BY <1>1, <2>2 DEF Spares, Owns
  <2>6. task[u].at \in {"xray", "curl"} /\ Outlined(u) =>
          task[u].side \in Ports /\ listens'[task[u].side] = Sidecar(u)
    BY <1>1, <2>2 DEF Spares, Owns
  <2>7. task[u].at \in {"stop", "stopside", "again", "done"} =>
          /\ task[u].verdict = "error" => u[2] \notin library'
          /\ task[u].verdict # "error" => (task[u].verdict = "ok" <=> u[2] \in works')
    BY <1>1, <2>2 DEF Spares, Owns
  <2>8. QED
    BY <2>3, <2>4, <2>5, <2>6, <2>7 DEF Spares, Owns
<1>5. QED
  BY <1>2, <1>3, <1>4

\* No probe waits on other ports than before.
Waited(u) ==
  Waits(u)' => /\ Waits(u) /\ (task[u].hit => task'[u].hit)
               /\ task'[u].port = task[u].port /\ task'[u].side = task[u].side

LEMMA ApartKeeps ==
  ASSUME XrayInv, \A u \in Tasks : Waited(u)
  PROVE  \A u, v \in Tasks : u # v => Apart(u, v)'
BY DEF XrayInv, Apart, Waited

LEMMA VanishKeeps ==
  ASSUME XrayInv, NEW n \in Nodes, Vanish(n)
  PROVE  XrayInv'
<1>1. /\ UNCHANGED <<works, check, task, listens, running, files, lost, submitted>>
      /\ library' \subseteq library /\ faults' = faults + 1 /\ faults < MaxFaults
  BY DEF Vanish, XrayFault
<1>2. XrayTypeOK'
  <2>1. faults' \in 0..MaxFaults
    BY <1>1, ChecksAssumption DEF XrayInv, XrayTypeOK
  <2>2. QED
    BY <1>1, <2>1 DEF XrayInv, XrayTypeOK
<1>3. \A u \in Tasks : Spares(u) /\ Waited(u)
  BY <1>1 DEF Spares, Waited, Waits
<1>4. QED
  BY <1>2, <1>3, SparedKeeps, ApartKeeps DEF XrayInv

LEMMA CurlKeeps ==
  ASSUME XrayInv, NEW t \in Tasks, Curl(t)
  PROVE  XrayInv'
<1>1. /\ task[t].at = "curl" /\ task'[t].at = "stop" /\ task'[t].hit = task[t].hit
      /\ task'[t].verdict = IF Reached(task[t].port) \in works \cup {Tunnel} THEN "ok" ELSE "failed"
      /\ \A u \in Tasks : u # t => task'[u] = task[u]
      /\ UNCHANGED <<library, works, check, listens, running, files, lost, submitted, faults>>
  BY DEF Curl, Kept, NoFault, XrayInv, XrayTypeOK, Probe
<1>2. XrayTypeOK'
  <2>1. task' \in [Tasks -> Probe]
    <3> DEFINE verdict == IF Reached(task[t].port) \in works \cup {Tunnel} THEN "ok" ELSE "failed"
    <3>1. task' = [task EXCEPT ![t].at = "stop", ![t].verdict = verdict]
      BY DEF Curl
    <3>2. verdict \in {"ok", "failed"}
      OBVIOUS
    <3> HIDE DEF verdict
    <3>3. task[t] \in Probe
      BY DEF XrayInv, XrayTypeOK
    <3>4. [task[t] EXCEPT !.at = "stop", !.verdict = verdict] \in Probe
      BY <3>2, <3>3 DEF Probe
    <3>5. QED
      BY <3>1, <3>4 DEF XrayInv, XrayTypeOK
  <2>2. QED
    BY <1>1, <2>1 DEF XrayInv, XrayTypeOK
<1>3. \A u \in Tasks : Waited(u)
  BY <1>1 DEF Waited, Waits
<1>4. \A u \in Tasks : u # t => Spares(u)
  BY <1>1 DEF Spares
<1>5. Has(t) /\ Listens(t) /\ Owns(t)
  BY DEF XrayInv
<1>6. Has(t)' /\ Listens(t)'
  BY <1>1, <1>5 DEF Has, Listens, AtProbes
<1>7. Owns(t)'
  <2>1. SUFFICES ASSUME ~task[t].hit PROVE task'[t].verdict = "ok" <=> t[2] \in works
    BY <1>1 DEF Owns
  <2>2. /\ listens[task[t].port] = Xray(t)
        /\ Outlined(t) => listens[task[t].side] = Sidecar(t)
    BY <1>1, <1>5, <2>1 DEF Owns
  <2>3. Reached(task[t].port) = t[2]
    <3>1. Xray(t)[2] = t /\ Sidecar(t)[2] = t
      BY DEF Xray, Sidecar
    <3>2. QED
      BY <2>2, <3>1, Names DEF Reached
  <2>4. t[2] # Tunnel
    BY NamesAssumption DEF Tasks
  <2>5. QED
    BY <1>1, <2>3, <2>4
<1>8. QED
  BY <1>2, <1>3, <1>4, <1>6, <1>7, SparedKeeps, ApartKeeps DEF XrayInv

LEMMA StopXrayKeeps ==
  ASSUME XrayInv, NEW t \in Tasks, StopXray(t)
  PROVE  XrayInv'
<1>1. /\ task[t].at = "stop" /\ task' = [task EXCEPT ![t].at = "stopside"]
      /\ task'[t].at = "stopside" /\ task'[t].hit = task[t].hit /\ task'[t].verdict = task[t].verdict
      /\ \A u \in Tasks : u # t => task'[u] = task[u]
      /\ running' = running \ {Xray(t)}
      /\ \A n \in Ports : listens'[n] = IF listens[n] = Xray(t) THEN None ELSE listens[n]
      /\ UNCHANGED <<library, works, check, files, lost, submitted, faults>>
  BY DEF StopXray, MovesTo, Frees, Kept, NoFault, XrayInv, XrayTypeOK, Probe
<1>2. XrayTypeOK'
  <2>1. task' \in [Tasks -> Probe]
    BY <1>1 DEF XrayInv, XrayTypeOK, Probe
  <2>2. listens' \in [Ports -> Processes \cup {None, Tunnel}]
    BY DEF XrayInv, XrayTypeOK, StopXray, Frees
  <2>3. \A n \in Ports : listens'[n] \in running' \cup {None, Tunnel}
    BY <1>1, Names DEF XrayInv, XrayTypeOK
  <2>4. QED
    BY <1>1, <2>1, <2>2, <2>3 DEF XrayInv, XrayTypeOK
<1>3. \A u \in Tasks : Waited(u)
  BY <1>1 DEF Waited, Waits
<1>4. \A u \in Tasks : u # t => Spares(u)
  BY <1>1, Names DEF Spares
<1>5. Has(t) /\ Listens(t) /\ Owns(t)
  BY DEF XrayInv
<1>6. Has(t)' /\ Owns(t)'
  BY <1>1, <1>5, Names DEF Has, Owns, AtProbes
<1>7. Listens(t)'
  BY <1>1, <1>5, Names DEF Listens
<1>8. QED
  BY <1>2, <1>3, <1>4, <1>6, <1>7, SparedKeeps, ApartKeeps DEF XrayInv

LEMMA StopSidecarKeeps ==
  ASSUME XrayInv, NEW t \in Tasks, StopSidecar(t)
  PROVE  XrayInv'
<1>1. /\ task[t].at = "stopside"
      /\ task'[t].at \in {"done", "again"} /\ task'[t].hit = task[t].hit /\ task'[t].verdict = task[t].verdict
      /\ \A u \in Tasks : u # t => task'[u] = task[u]
      /\ running' = running \ {Sidecar(t)} /\ files' = files \ {t}
      /\ \A n \in Ports : listens'[n] = IF listens[n] = Sidecar(t) THEN None ELSE listens[n]
      /\ UNCHANGED <<library, works, check, lost, submitted, faults>>
  BY DEF StopSidecar, Frees, Kept, NoFault, XrayInv, XrayTypeOK, Probe
<1>2. XrayTypeOK'
  <2>1. task' \in [Tasks -> Probe]
    <3> DEFINE next == IF Finished(t) THEN "done" ELSE "again"
    <3>1. task' = [task EXCEPT ![t].at = next, ![t].port = None, ![t].side = None]
      BY DEF StopSidecar
    <3>2. next \in {"done", "again"}
      OBVIOUS
    <3> HIDE DEF next
    <3>3. task[t] \in Probe
      BY DEF XrayInv, XrayTypeOK
    <3>4. [task[t] EXCEPT !.at = next, !.port = None, !.side = None] \in Probe
      BY <3>2, <3>3 DEF Probe
    <3>5. QED
      BY <3>1, <3>4 DEF XrayInv, XrayTypeOK
  <2>2. listens' \in [Ports -> Processes \cup {None, Tunnel}]
    BY DEF XrayInv, XrayTypeOK, StopSidecar, Frees
  <2>3. \A n \in Ports : listens'[n] \in running' \cup {None, Tunnel}
    BY <1>1, Names DEF XrayInv, XrayTypeOK
  <2>4. QED
    BY <1>1, <2>1, <2>2, <2>3 DEF XrayInv, XrayTypeOK
<1>3. \A u \in Tasks : Waited(u)
  BY <1>1 DEF Waited, Waits
<1>4. \A u \in Tasks : u # t => Spares(u)
  BY <1>1, Names DEF Spares
<1>5. Has(t) /\ Listens(t) /\ Owns(t)
  BY DEF XrayInv
<1>6. Has(t)' /\ Owns(t)'
  BY <1>1, <1>5, Names DEF Has, Owns, AtProbes
<1>7. Listens(t)'
  BY <1>1, <1>5, Names DEF Listens
<1>8. QED
  BY <1>2, <1>3, <1>4, <1>6, <1>7, SparedKeeps, ApartKeeps DEF XrayInv

LEMMA SidecarStartsKeeps ==
  ASSUME XrayInv, NEW t \in Tasks, SidecarStarts(t)
  PROVE  XrayInv'
<1> DEFINE side == task[t].side
           free == listens[side] = None
<1>1. /\ task[t].at = "sidecar"
      /\ task' = [task EXCEPT ![t] = [task[t] EXCEPT !.at = IF free THEN "xray" ELSE "done",
                                                     !.verdict = IF free THEN None ELSE "error"]]
      /\ listens' = IF free THEN [listens EXCEPT ![side] = Sidecar(t)] ELSE listens
      /\ running' = IF free THEN running \cup {Xray(t)} ELSE running \ {Sidecar(t)}
      /\ files' = IF free THEN files ELSE files \ {t}
      /\ UNCHANGED <<library, works, check, lost, submitted, faults>>
  BY DEF SidecarStarts, Kept, NoFault, XrayInv, XrayTypeOK
<1>2. /\ task[t] \in Probe /\ task'[t] = [task[t] EXCEPT !.at = IF free THEN "xray" ELSE "done",
                                                         !.verdict = IF free THEN None ELSE "error"]
      /\ \A u \in Tasks : u # t => task'[u] = task[u]
  BY <1>1 DEF XrayInv, XrayTypeOK
<1>3. /\ task'[t].at = IF free THEN "xray" ELSE "done"
      /\ task'[t].verdict = IF free THEN None ELSE "error"
      /\ task'[t].hit = task[t].hit /\ task'[t].port = task[t].port /\ task'[t].side = task[t].side
      /\ task'[t] \in Probe
  BY <1>2 DEF Probe
<1>4. Has(t) /\ Listens(t) /\ Owns(t)
  BY DEF XrayInv
<1>5. /\ Outlined(t) /\ Sidecar(t) \in running /\ side \in Ports /\ task[t].port \in Ports
      /\ t \notin lost /\ Xray(t) \notin running /\ ~(t[1] > submitted)
  BY <1>1, <1>4 DEF Has
<1>6. \A n \in Ports : /\ listens[n] \notin {Xray(t), Sidecar(t)}
                       /\ listens'[n] = IF free /\ n = side THEN Sidecar(t) ELSE listens[n]
  BY <1>1, <1>4, <1>5 DEF Listens, XrayInv, XrayTypeOK
<1>7. XrayTypeOK'
  <2>1. task' \in [Tasks -> Probe]
    BY <1>1, <1>2, <1>3 DEF XrayInv, XrayTypeOK
  <2>2. listens' \in [Ports -> Processes \cup {None, Tunnel}]
    BY <1>1, Names DEF XrayInv, XrayTypeOK
  <2>3. \A n \in Ports : listens'[n] \in running' \cup {None, Tunnel}
    BY <1>1, <1>5, <1>6 DEF XrayInv, XrayTypeOK
  <2>4. running' \in SUBSET Processes
    BY <1>1, Names DEF XrayInv, XrayTypeOK
  <2>5. QED
    BY <1>1, <2>1, <2>2, <2>3, <2>4 DEF XrayInv, XrayTypeOK
<1>8. \A u \in Tasks : Waited(u)
  BY <1>1, <1>2, <1>3 DEF Waited, Waits
<1>9. ASSUME NEW u \in Tasks, u # t
      PROVE  Spares(u)
  <2>1. Waits(u) /\ ~task[u].hit => side \notin {task[u].port, task[u].side}
    BY <1>1, <1>5, <1>9 DEF XrayInv, Apart, Waits
  <2>2. \A n \in Ports : \/ listens'[n] = listens[n]
                         \/ n = side /\ listens[n] = None /\ listens'[n] = Sidecar(t)
    BY <1>6
  <2>3. QED
    BY <1>1, <1>2, <1>9, <2>1, <2>2, Names DEF Spares
<1>10. Has(t)' /\ Listens(t)'
  BY <1>1, <1>3, <1>4, <1>5, <1>6, Names DEF Has, Listens, AtProbes
<1>11. Owns(t)'
  <2>1. SUFFICES ASSUME ~task[t].hit PROVE Owns(t)'
    BY <1>3 DEF Owns
  <2>2. free /\ side # task[t].port /\ listens[task[t].port] = None
    BY <1>1, <1>4, <2>1 DEF Owns
  <2>3. QED
    BY <1>3, <1>5, <1>6, <2>2 DEF Owns
<1>12. QED
  BY <1>7, <1>8, <1>9, <1>10, <1>11, SparedKeeps, ApartKeeps DEF XrayInv

LEMMA XrayStartsKeeps ==
  ASSUME XrayInv, NEW t \in Tasks, XrayStarts(t)
  PROVE  XrayInv'
<1> DEFINE port == task[t].port
           free == listens[port] = None
<1>1. /\ task[t].at = "xray"
      /\ task' = [task EXCEPT ![t] = [task[t] EXCEPT !.at = "curl"]]
      /\ listens' = IF free THEN [listens EXCEPT ![port] = Xray(t)] ELSE listens
      /\ running' = IF free THEN running ELSE running \ {Xray(t)}
      /\ UNCHANGED <<library, works, check, lost, files, submitted, faults>>
  BY DEF XrayStarts, MovesTo, Kept, NoFault, XrayInv, XrayTypeOK
<1>2. /\ task[t] \in Probe /\ task'[t] = [task[t] EXCEPT !.at = "curl"]
      /\ \A u \in Tasks : u # t => task'[u] = task[u]
  BY <1>1 DEF XrayInv, XrayTypeOK
<1>3. /\ task'[t].at = "curl" /\ task'[t].hit = task[t].hit
      /\ task'[t].port = task[t].port /\ task'[t].side = task[t].side
      /\ task'[t] \in Probe
  BY <1>2 DEF Probe
<1>4. Has(t) /\ Listens(t) /\ Owns(t)
  BY DEF XrayInv
<1>5. Xray(t) \in running /\ port \in Ports /\ t \notin lost /\ ~(t[1] > submitted)
  BY <1>1, <1>4 DEF Has
<1>6. \A n \in Ports : /\ listens[n] # Xray(t)
                       /\ listens'[n] = IF free /\ n = port THEN Xray(t) ELSE listens[n]
  BY <1>1, <1>4, <1>5 DEF Listens, XrayInv, XrayTypeOK
<1>7. XrayTypeOK'
  <2>1. task' \in [Tasks -> Probe]
    BY <1>1, <1>2, <1>3 DEF XrayInv, XrayTypeOK
  <2>2. listens' \in [Ports -> Processes \cup {None, Tunnel}]
    BY <1>1, Names DEF XrayInv, XrayTypeOK
  <2>3. \A n \in Ports : listens'[n] \in running' \cup {None, Tunnel}
    BY <1>1, <1>5, <1>6 DEF XrayInv, XrayTypeOK
  <2>4. QED
    BY <1>1, <2>1, <2>2, <2>3 DEF XrayInv, XrayTypeOK
<1>8. \A u \in Tasks : Waited(u)
  BY <1>1, <1>2, <1>3 DEF Waited, Waits
<1>9. ASSUME NEW u \in Tasks, u # t
      PROVE  Spares(u)
  <2>1. Waits(u) /\ ~task[u].hit => port \notin {task[u].port, task[u].side}
    BY <1>1, <1>5, <1>9 DEF XrayInv, Apart, Waits
  <2>2. \A n \in Ports : \/ listens'[n] = listens[n]
                         \/ n = port /\ listens[n] = None /\ listens'[n] = Xray(t)
    BY <1>6
  <2>3. QED
    BY <1>1, <1>2, <1>9, <2>1, <2>2, Names DEF Spares
<1>10. Has(t)' /\ Listens(t)'
  BY <1>1, <1>3, <1>4, <1>5, <1>6, Names DEF Has, Listens, AtProbes
<1>11. Owns(t)'
  <2>1. SUFFICES ASSUME ~task[t].hit PROVE Owns(t)'
    BY <1>3 DEF Owns
  <2>2. free /\ (Outlined(t) => task[t].side \in Ports /\ listens[task[t].side] = Sidecar(t))
    BY <1>1, <1>4, <2>1 DEF Owns
  <2>3. Outlined(t) => task[t].side # port
    BY <2>2, Names
  <2>4. QED
    BY <1>3, <1>5, <1>6, <2>2, <2>3 DEF Owns
<1>12. QED
  BY <1>7, <1>8, <1>9, <1>10, <1>11, SparedKeeps, ApartKeeps DEF XrayInv

LEMMA XrayNotForkedKeeps ==
  ASSUME XrayInv, NEW t \in Tasks, XrayNotForked(t)
  PROVE  XrayInv'
<1> DEFINE side == task[t].side
<1>1. /\ task[t].at = "sidecar" /\ listens[side] = None
      /\ task' = [task EXCEPT ![t] = [task[t] EXCEPT !.at = "done", !.verdict = "error", !.hit = TRUE]]
      /\ listens' = [listens EXCEPT ![side] = Sidecar(t)]
      /\ lost' = lost \cup {t}
      /\ faults < MaxFaults /\ faults' = faults + 1
      /\ UNCHANGED <<library, works, check, running, files, submitted>>
  BY DEF XrayNotForked, XrayFault, XrayInv, XrayTypeOK
<1>2. /\ task[t] \in Probe /\ task'[t] = [task[t] EXCEPT !.at = "done", !.verdict = "error", !.hit = TRUE]
      /\ \A u \in Tasks : u # t => task'[u] = task[u]
  BY <1>1 DEF XrayInv, XrayTypeOK
<1>3. task'[t].at = "done" /\ task'[t].hit /\ task'[t] \in Probe
  BY <1>2 DEF Probe
<1>4. Has(t) /\ Listens(t)
  BY DEF XrayInv
<1>5. /\ Sidecar(t) \in running /\ side \in Ports
      /\ Xray(t) \notin running /\ ~(t[1] > submitted)
  BY <1>1, <1>4 DEF Has
<1>6. \A n \in Ports : /\ listens[n] # Xray(t)
                       /\ listens'[n] = IF n = side THEN Sidecar(t) ELSE listens[n]
  BY <1>1, <1>4, <1>5 DEF Listens, XrayInv, XrayTypeOK
<1>7. XrayTypeOK'
  <2>1. task' \in [Tasks -> Probe]
    BY <1>1, <1>2, <1>3 DEF XrayInv, XrayTypeOK
  <2>2. listens' \in [Ports -> Processes \cup {None, Tunnel}]
    BY <1>1, Names DEF XrayInv, XrayTypeOK
  <2>3. \A n \in Ports : listens'[n] \in running' \cup {None, Tunnel}
    BY <1>1, <1>5, <1>6 DEF XrayInv, XrayTypeOK
  <2>4. faults' \in 0..MaxFaults
    BY <1>1, ChecksAssumption DEF XrayInv, XrayTypeOK
  <2>5. QED
    BY <1>1, <2>1, <2>2, <2>3, <2>4 DEF XrayInv, XrayTypeOK
<1>8. \A u \in Tasks : Waited(u)
  BY <1>1, <1>2, <1>3 DEF Waited, Waits
<1>9. ASSUME NEW u \in Tasks, u # t
      PROVE  Spares(u)
  <2>1. Waits(u) /\ ~task[u].hit => side \notin {task[u].port, task[u].side}
    BY <1>1, <1>5, <1>9 DEF XrayInv, Apart, Waits
  <2>2. \A n \in Ports : \/ listens'[n] = listens[n]
                         \/ n = side /\ listens[n] = None /\ listens'[n] = Sidecar(t)
    BY <1>1, <1>6
  <2>3. QED
    BY <1>1, <1>2, <1>9, <2>1, <2>2, Names DEF Spares
<1>10. Has(t)' /\ Listens(t)' /\ Owns(t)'
  BY <1>1, <1>3, <1>4, <1>5, <1>6, Names DEF Has, Listens, Owns, AtProbes
<1>11. QED
  BY <1>7, <1>8, <1>9, <1>10, SparedKeeps, ApartKeeps DEF XrayInv

\* What Launch gives a probe: ports that are free and, unless a fault is meant,
\* that no other probe has been given.
LEMMA Drawing ==
  ASSUME XrayTypeOK, NEW outlined \in BOOLEAN, NEW again \in BOOLEAN,
         \E m, n \in Free \ Drawn : m # n,
         again => Drawn \cap Free # {}
  PROVE  /\ Draw(outlined, again).port \in Free
         /\ outlined => Draw(outlined, again).side \in Free \ Drawn
         /\ ~outlined => Draw(outlined, again).side = None
         /\ ~again => /\ Draw(outlined, again).port \notin Drawn
                      /\ outlined => Draw(outlined, again).side # Draw(outlined, again).port
<1>1. \A S : S # {} => Some(S) \in S
  BY DEF Some
<1>2. Some(Free \ Drawn) \in Free \ Drawn
  BY <1>1
<1>3. again => Some(Drawn \cap Free) \in Drawn \cap Free
  BY <1>1
<1>4. (Free \ Drawn) \ {Some(Free \ Drawn)} # {}
  OBVIOUS
<1>5. Some((Free \ Drawn) \ {Some(Free \ Drawn)}) \in (Free \ Drawn) \ {Some(Free \ Drawn)}
  BY <1>1, <1>4
<1>6. QED
  BY <1>2, <1>3, <1>5 DEF Draw

LEMMA GoneKeeps ==
  ASSUME XrayInv, NEW t \in Tasks, task[t].at \in {"queued", "again"}, t[2] \notin library,
         faults' \in {faults, faults + 1}, faults' \in 0..MaxFaults, submitted' = submitted,
         UNCHANGED <<running, files, listens>>, Kept,
         task' = [task EXCEPT ![t].at = "done", ![t].verdict = "error"]
  PROVE  XrayInv'
<1>1. /\ task' = [task EXCEPT ![t] = [task[t] EXCEPT !.at = "done", !.verdict = "error"]]
      /\ task[t] \in Probe
  BY DEF XrayInv, XrayTypeOK
<1>2. /\ task'[t] = [task[t] EXCEPT !.at = "done", !.verdict = "error"]
      /\ \A u \in Tasks : u # t => task'[u] = task[u]
  BY <1>1 DEF XrayInv, XrayTypeOK
<1>3. task'[t].at = "done" /\ task'[t].verdict = "error" /\ task'[t] \in Probe
  BY <1>1, <1>2 DEF Probe
<1>4. UNCHANGED <<library, works, check, lost, running, files, listens, submitted>>
  BY DEF Kept
<1>5. XrayTypeOK'
  <2>1. task' \in [Tasks -> Probe]
    BY <1>1, <1>2, <1>3 DEF XrayInv, XrayTypeOK
  <2>2. QED
    BY <1>4, <2>1 DEF XrayInv, XrayTypeOK
<1>6. \A u \in Tasks : Waited(u)
  BY <1>2, <1>3 DEF Waited, Waits
<1>7. \A u \in Tasks : u # t => Spares(u)
  BY <1>2, <1>4 DEF Spares
<1>8. Has(t) /\ Listens(t)
  BY DEF XrayInv
<1>9. Has(t)' /\ Listens(t)' /\ Owns(t)'
  BY <1>3, <1>4, <1>8 DEF Has, Listens, Owns, AtProbes
<1>10. QED
  BY <1>5, <1>6, <1>7, <1>9, SparedKeeps, ApartKeeps DEF XrayInv

LEMMA LaunchKeeps ==
  ASSUME XrayInv, NEW t \in Tasks, NEW part \in {"ping", "hard"}, NEW again \in BOOLEAN,
         task[t].at \in {"queued", "again"}, Launch(t, part, again), UNCHANGED listens, Kept
  PROVE  XrayInv'
<1> DEFINE drawn == Draw(Outlined(t), again)
           first == IF Outlined(t) THEN Sidecar(t) ELSE Xray(t)
<1>1. faults' \in {faults, faults + 1} /\ faults' \in 0..MaxFaults /\ submitted' = submitted
  BY ChecksAssumption DEF XrayInv, XrayTypeOK, Launch, XrayFault, NoFault
<1>2. CASE t[2] \notin library
  BY <1>1, <1>2, GoneKeeps DEF Launch
<1>3. CASE t[2] \in library
  <2>1. /\ \E m, n \in Free \ Drawn : m # n
        /\ again => Drawn \cap Free # {}
        /\ running' = running \cup {first} /\ files' = files \cup {t}
        /\ UNCHANGED <<library, works, check, lost, listens>>
    BY <1>3 DEF Launch, Kept
  <2>2. Outlined(t) \in BOOLEAN
    BY DEF Outlined
  <2>3. /\ drawn.port \in Free
        /\ Outlined(t) => drawn.side \in Free \ Drawn
        /\ ~Outlined(t) => drawn.side = None
        /\ ~again => /\ drawn.port \notin Drawn
                     /\ Outlined(t) => drawn.side # drawn.port
    BY <2>1, <2>2, Drawing DEF XrayInv
  <2>4. /\ task' = [u \in Tasks |->
             IF u = t
               THEN [task[t] EXCEPT !.at = IF Outlined(t) THEN "sidecar" ELSE "xray",
                                    !.part = part, !.port = drawn.port, !.side = drawn.side,
                                    !.hit = task[t].hit \/ again, !.verdict = None]
               ELSE [task[u] EXCEPT !.hit = task[u].hit \/
                       (again /\ Waits(u) /\ drawn.port \in {task[u].port, task[u].side})]]
    BY <1>3 DEF Launch
  <2> HIDE DEF drawn
  <2>5. \A u \in Tasks : task[u] \in Probe
    BY DEF XrayInv, XrayTypeOK
  <2>6. /\ task'[t].at = IF Outlined(t) THEN "sidecar" ELSE "xray"
        /\ task'[t].port = drawn.port /\ task'[t].side = drawn.side
        /\ task'[t].verdict = None /\ task'[t].hit <=> task[t].hit \/ again
    BY <2>4, <2>5 DEF Probe
  <2>7. ASSUME NEW u \in Tasks, u # t
        PROVE  /\ task'[u].at = task[u].at /\ task'[u].verdict = task[u].verdict
               /\ task'[u].port = task[u].port /\ task'[u].side = task[u].side
               /\ task'[u].hit <=> task[u].hit \/
                    (again /\ Waits(u) /\ drawn.port \in {task[u].port, task[u].side})
               /\ task'[u] \in Probe
    <3> DEFINE hit == task[u].hit \/ (again /\ Waits(u) /\ drawn.port \in {task[u].port, task[u].side})
    <3>1. task'[u] = [task[u] EXCEPT !.hit = hit]
      BY <2>4, <2>7
    <3>2. hit \in BOOLEAN
      BY <2>5 DEF Probe
    <3>3. QED
      BY <2>5, <3>1, <3>2 DEF Probe
  <2>8. /\ drawn.port \in Ports /\ listens[drawn.port] = None
        /\ Outlined(t) => drawn.side \in Ports /\ listens[drawn.side] = None
    BY <2>3 DEF Free
  <2>9. XrayTypeOK'
    <3>1. task'[t] \in Probe
      <4> DEFINE at == IF Outlined(t) THEN "sidecar" ELSE "xray"
                 hit == task[t].hit \/ again
      <4>1. task'[t] = [task[t] EXCEPT !.at = at, !.part = part, !.port = drawn.port,
                                       !.side = drawn.side, !.hit = hit, !.verdict = None]
        BY <2>4
      <4>2. at \in {"sidecar", "xray"} /\ hit \in BOOLEAN
        BY <2>5 DEF Probe
      <4>3. drawn.port \in Ports /\ drawn.side \in Ports \cup {None}
        BY <2>3, <2>8
      <4> HIDE DEF at, hit
      <4>4. QED
        BY <2>5, <4>1, <4>2, <4>3 DEF Probe
    <3>2. task' \in [Tasks -> Probe]
      BY <2>4, <2>7, <3>1
    <3>3. running' \in SUBSET Processes /\ files' \in SUBSET Tasks
      BY <2>1, Names DEF XrayInv, XrayTypeOK
    <3>4. \A n \in Ports : listens'[n] \in running' \cup {None, Tunnel}
      BY <2>1 DEF XrayInv, XrayTypeOK
    <3>5. QED
      BY <1>1, <2>1, <3>2, <3>3, <3>4 DEF XrayInv, XrayTypeOK
  <2>10. Has(t) /\ Listens(t)
    BY DEF XrayInv
  <2>11. /\ t \notin lost /\ ~(t[1] > submitted)
         /\ Xray(t) \notin running /\ Sidecar(t) \notin running
         /\ \A n \in Ports : listens[n] \notin {Xray(t), Sidecar(t)}
    BY <2>10 DEF Has, Listens, AtProbes
  <2>12. Has(t)' /\ Listens(t)'
    BY <1>1, <2>1, <2>6, <2>8, <2>11, Names DEF Has, Listens, AtProbes
  <2>13. Owns(t)'
    BY <2>1, <2>3, <2>6, <2>8 DEF Owns
  <2>14. ASSUME NEW u \in Tasks, u # t
         PROVE  Spares(u)
    BY <1>1, <2>1, <2>7, <2>14, Names DEF Spares
  <2>15. \A u \in Tasks, n \in Ports : Waits(u) /\ n \in {task[u].port, task[u].side} => n \in Drawn
    BY DEF Drawn
  <2>16. ASSUME NEW u \in Tasks, NEW v \in Tasks, u # v
         PROVE  Apart(u, v)'
    <3>1. CASE u # t /\ v # t
      BY <2>7, <2>16, <3>1 DEF XrayInv, Apart, Waits
    <3>2. CASE u = t
      <4>1. SUFFICES ASSUME Waits(v), ~again, NEW n \in Ports,
                            n \in {drawn.port, drawn.side}, n \in {task[v].port, task[v].side}
                     PROVE  FALSE
        BY <2>6, <2>7, <2>16, <3>2 DEF Apart, Waits
      <4>2. n \in Drawn
        BY <2>15, <4>1
      <4>3. QED
        BY <2>3, <4>1, <4>2, PortsAssumption
    <3>3. CASE v = t
      <4>1. SUFFICES ASSUME Waits(u), NEW n \in Ports,
                            ~(again /\ drawn.port \in {task[u].port, task[u].side}),
                            n \in {drawn.port, drawn.side}, n \in {task[u].port, task[u].side}
                     PROVE  FALSE
        BY <2>6, <2>7, <2>16, <3>3 DEF Apart, Waits
      <4>2. n \in Drawn
        BY <2>15, <4>1
      <4>3. QED
        BY <2>3, <4>1, <4>2, PortsAssumption
    <3>4. QED
      BY <3>1, <3>2, <3>3
  <2>17. QED
    BY <2>9, <2>12, <2>13, <2>14, <2>16, SparedKeeps DEF XrayInv
<1>4. QED
  BY <1>2, <1>3

LEMMA XrayInvHolds == XraySpec => []XrayInv
<1>1. XrayInit => XrayInv
  <2>1. SUFFICES ASSUME XrayInit PROVE XrayInv
    OBVIOUS
  <2>2. PICK owner \in {None, Tunnel} : listens = [n \in Ports |-> IF n = FixedPort THEN owner ELSE None]
    BY <2>1 DEF XrayInit
  <2>3. \A n \in Ports : listens[n] \in {None, Tunnel}
    BY <2>2
  <2>4. XrayTypeOK
    <3>1. task \in [Tasks -> Probe]
      BY <2>1 DEF XrayInit, Unasked, Probe
    <3>2. submitted \in 0..MaxChecks /\ faults \in 0..MaxFaults
      BY <2>1, ChecksAssumption DEF XrayInit
    <3>3. listens \in [Ports -> Processes \cup {None, Tunnel}]
      BY <2>2
    <3>4. QED
      BY <2>1, <2>3, <3>1, <3>2, <3>3 DEF XrayInit, XrayTypeOK
  <2>5. \A t \in Tasks : task[t].at = "none"
    BY <2>1 DEF XrayInit, Unasked
  <2>6. \A t \in Tasks : Has(t) /\ Listens(t) /\ Owns(t)
    BY <2>1, <2>3, <2>5, Names DEF XrayInit, Has, Listens, Owns
  <2>7. \A t, u \in Tasks : t # u => Apart(t, u)
    BY <2>5 DEF Apart, Waits
  <2>8. QED
    BY <2>4, <2>6, <2>7 DEF XrayInv
<1>2. XrayInv /\ [XrayNext]_xrayVars => XrayInv'
  <2>1. SUFFICES ASSUME XrayInv, [XrayNext]_xrayVars PROVE XrayInv'
    OBVIOUS
  <2>2. ASSUME NEW k \in Checks, NEW kind \in {"ping", "hard"}, NEW entries \in SUBSET Nodes,
               Submit(k, kind, entries)
        PROVE  XrayInv'
    BY <2>1, <2>2, SubmitKeeps
  <2>3. ASSUME NEW t \in Tasks, NEW again \in BOOLEAN, Enter(t, again)
        PROVE  XrayInv'
    BY <2>1, <2>3, LaunchKeeps DEF Enter
  <2>4. ASSUME NEW t \in Tasks, NEW again \in BOOLEAN, HardTest(t, again)
        PROVE  XrayInv'
    BY <2>1, <2>4, LaunchKeeps DEF HardTest
  <2>5. ASSUME NEW t \in Tasks, SidecarStarts(t) \/ XrayStarts(t) \/ XrayNotForked(t)
        PROVE  XrayInv'
    BY <2>1, <2>5, SidecarStartsKeeps, XrayStartsKeeps, XrayNotForkedKeeps
  <2>6. ASSUME NEW t \in Tasks, Curl(t) \/ StopXray(t) \/ StopSidecar(t)
        PROVE  XrayInv'
    BY <2>1, <2>6, CurlKeeps, StopXrayKeeps, StopSidecarKeeps
  <2>7. ASSUME NEW k \in Checks, Answer(k)
        PROVE  XrayInv'
    BY <2>1, <2>7, AnswerKeeps
  <2>8. ASSUME NEW n \in Nodes, Vanish(n)
        PROVE  XrayInv'
    BY <2>1, <2>8, VanishKeeps
  <2>9. CASE UNCHANGED xrayVars
    BY <2>1, <2>9 DEF xrayVars, XrayInv, XrayTypeOK, Has, Listens, Owns, Apart, Waits
  <2>10. QED
    BY <2>1, <2>2, <2>3, <2>4, <2>5, <2>6, <2>7, <2>8, <2>9 DEF XrayNext, TaskStep
<1>3. QED
  BY <1>1, <1>2, PTL DEF XraySpec

\* The variables keep their types, and no port is held by a process that has
\* ended: whatever _stop_socks_probe ends has given its port back.
THEOREM ChecksTyped == XraySpec => []XrayTypeOK
<1>1. XrayInv => XrayTypeOK
  BY DEF XrayInv
<1>2. QED
  BY <1>1, XrayInvHolds, PTL

\* However many probes of however many checks run at once, and however they
\* end, they leave no process, no port and no file behind, but for those that an
\* unexpected exception has ended (_run_socks_probe, _stop_socks_probe).
THEOREM ChecksLeaveNothing == XraySpec => []AllStopped
<1>1. XrayInv => AllStopped
  <2>1. SUFFICES ASSUME XrayInv, \A t \in Tasks : ~Inside(t)
                 PROVE  /\ running \subseteq {Sidecar(t) : t \in lost} /\ files \subseteq lost
                        /\ \A n \in Ports : listens[n] \in {None, Tunnel} \cup running
    BY DEF AllStopped
  <2>2. \A t \in Tasks : task[t].at \in {"none", "queued", "done"} /\ Has(t)
    BY <2>1 DEF XrayInv, Inside
  <2>3. \A t \in Tasks : /\ Xray(t) \notin running
                         /\ Sidecar(t) \in running => t \in lost
                         /\ t \in files => t \in lost
    BY <2>2 DEF Has, AtProbes
  <2>4. QED
    BY <2>1, <2>3 DEF XrayInv, XrayTypeOK, Processes
<1>2. QED
  BY <1>1, XrayInvHolds, PTL

\* A verdict says what the node it names does: a probe that the kernel has given
\* ports of its own measures its own node (_free_port, _ping_config,
\* _hard_test_config).
THEOREM ChecksIsolated == XraySpec => []Isolated
<1>1. XrayInv => Isolated
  BY DEF XrayInv, Owns, Isolated
<1>2. QED
  BY <1>1, XrayInvHolds, PTL

---------------------------------------------------------------------------
(* XrayText: the chain of outbounds behind the proxy.                      *)

\* What a provider can write.
Provided == {o \in Seq(Outbounds) : \A i \in 1..Len(o) : o[i].id = i /\ o[i].tag \in Tags \cup {NoTag}}

\* p is the way from first, over places of o, which is followed to the end of
\* the first circle at most.
Path(o, first, p) ==
  /\ p \in Seq(1..Len(o)) /\ p # <<>> /\ p[1] = first
  /\ \A m \in 1..(Len(p) - 1) : p[m + 1] \in Dialed(o, p[m])
  /\ \A m, n \in 2..Len(p) : p[m] = p[n] => m = n
  /\ \A m \in 2..Len(p) : p[m] = first => m = Len(p)

LEMMA DialedIs ==
  ASSUME NEW o \in Provided, NEW i \in 1..Len(o)
  PROVE  /\ Dialed(o, i) \subseteq 1..Len(o)
         /\ \A j \in Dialed(o, i) : o[i].dialer # NoTag /\ o[j].tag = o[i].dialer
         /\ \A j \in 1..Len(o) : o[i].dialer # NoTag /\ o[j].tag = o[i].dialer => j \in Dialed(o, i)
BY DEF Dialed, Provided

LEMMA DialedOnce ==
  ASSUME NEW o \in Provided, Unique(o), NEW i \in 1..Len(o), NEW j \in Dialed(o, i)
  PROVE  Dialed(o, i) = {j}
BY DEF Dialed, Provided, Unique

LEMMA BehindIn ==
  ASSUME NEW o \in Provided, NEW i \in 1..Len(o)
  PROVE  /\ Behind(o, i) \subseteq 1..Len(o)
         /\ Dialed(o, i) \subseteq Behind(o, i)
         /\ \A j \in Behind(o, i) : Dialed(o, j) \subseteq Behind(o, i)
<1>1. DOMAIN o = 1..Len(o)
  BY DEF Provided
<1>2. Behind(o, i) \subseteq 1..Len(o) /\ Dialed(o, i) \subseteq Behind(o, i)
  BY <1>1, DialedIs DEF Behind
<1>3. ASSUME NEW j \in Behind(o, i), NEW k \in Dialed(o, j) PROVE k \in Behind(o, i)
  <2>1. k \in DOMAIN o
    BY <1>1, <1>2, <1>3, DialedIs
  <2>2. ASSUME NEW S \in SUBSET DOMAIN o, Dialed(o, i) \subseteq S, Closed(o, S) PROVE k \in S
    <3>1. j \in S
      BY <2>2 DEF Behind
    <3> QED BY <2>2, <3>1 DEF Closed
  <2> QED BY <2>1, <2>2 DEF Behind
<1> QED BY <1>2, <1>3

LEMMA BehindLeast ==
  ASSUME NEW o \in Provided, NEW i \in 1..Len(o), NEW S \in SUBSET (1..Len(o)),
         Dialed(o, i) \subseteq S, \A j \in S : Dialed(o, j) \subseteq S
  PROVE  Behind(o, i) \subseteq S
<1>1. DOMAIN o = 1..Len(o)
  BY DEF Provided
<1> QED BY <1>1 DEF Behind, Closed

\* What comes later on the way is behind what comes earlier.
LEMMA PathBehind ==
  ASSUME NEW o \in Provided, NEW first, NEW p, Path(o, first, p),
         NEW m \in 1..Len(p), NEW n \in (m + 1)..Len(p)
  PROVE  p[n] \in Behind(o, p[m])
<1> DEFINE B == Behind(o, p[m])
           P == {k \in Nat : m + 1 + k <= Len(p) => p[m + 1 + k] \in B}
<1>1. /\ p \in Seq(1..Len(o)) /\ Len(p) \in Nat /\ p[m] \in 1..Len(o)
      /\ \A k \in 1..(Len(p) - 1) : p[k + 1] \in Dialed(o, p[k])
  BY DEF Path
<1>2. Dialed(o, p[m]) \subseteq B /\ \A j \in B : Dialed(o, j) \subseteq B
  BY <1>1, BehindIn
<1> HIDE DEF B
<1>3. 0 \in P
  <2> SUFFICES ASSUME m + 1 <= Len(p) PROVE p[m + 1] \in B
    OBVIOUS
  <2>1. m \in 1..(Len(p) - 1)
    BY <1>1
  <2> QED BY <1>1, <1>2, <2>1
<1>4. ASSUME NEW k \in Nat, k \in P PROVE k + 1 \in P
  <2> SUFFICES ASSUME m + 1 + (k + 1) <= Len(p) PROVE p[m + 1 + (k + 1)] \in B
    OBVIOUS
  <2> DEFINE l == m + 1 + k
  <2>1. l \in 1..(Len(p) - 1) /\ m + 1 + (k + 1) = l + 1
    BY <1>1
  <2>2. p[l] \in B
    BY <1>1, <1>4
  <2>3. p[l + 1] \in Dialed(o, p[l])
    BY <1>1, <2>1
  <2> HIDE DEF l
  <2> QED BY <1>2, <2>1, <2>2, <2>3
<1>5. Nat \subseteq P
  <2> HIDE DEF P
  <2> QED BY <1>3, <1>4, Counting
<1>6. n - (m + 1) \in Nat /\ m + 1 + (n - (m + 1)) = n /\ n <= Len(p)
  BY <1>1
<1>7. n - (m + 1) \in P
  BY <1>5, <1>6
<1> QED BY <1>6, <1>7 DEF B

\* What is needed of the outbounds to run the first of them.
Used(o, first) == {first} \cup Behind(o, first)
Whole(o, first) ==
  Resolved(o, Used(o, first)) /\ \A i \in Used(o, first) : i \notin Behind(o, i)

LEMMA PathUsed ==
  ASSUME NEW o \in Provided, NEW first, NEW p, Path(o, first, p)
  PROVE  first \in 1..Len(o) /\ \A m \in 1..Len(p) : p[m] \in Used(o, first)
<1>1. p \in Seq(1..Len(o)) /\ Len(p) \in Nat /\ 1 \in 1..Len(p) /\ p[1] = first
  BY DEF Path
<1>2. ASSUME NEW m \in 1..Len(p) PROVE p[m] \in Used(o, first)
  <2>1. CASE m = 1
    BY <1>1, <2>1 DEF Used
  <2>2. CASE m # 1
    <3>1. m \in (1 + 1)..Len(p)
      BY <1>1, <2>2
    <3>2. p[m] \in Behind(o, p[1])
      BY <1>1, <3>1, PathBehind
    <3> QED BY <1>1, <3>2 DEF Used
  <2> QED BY <2>1, <2>2
<1> QED BY <1>1, <1>2

\* A way that ends at an outbound without a dialer has all that is needed.
LEMMA PathComplete ==
  ASSUME NEW o \in Provided, Unique(o), NEW first, NEW p, Path(o, first, p), o[p[Len(p)]].dialer = NoTag
  PROVE  Used(o, first) = Range(p) /\ Whole(o, first)
<1>1. /\ p \in Seq(1..Len(o)) /\ Len(p) \in Nat /\ 1 \in 1..Len(p) /\ p[1] = first
      /\ \A k \in 1..(Len(p) - 1) : p[k + 1] \in Dialed(o, p[k])
      /\ \A m, n \in 2..Len(p) : p[m] = p[n] => m = n
      /\ \A m \in 2..Len(p) : p[m] = first => m = Len(p)
  BY DEF Path
<1>2. \A m \in 1..Len(p) : p[m] \in 1..Len(o)
  BY <1>1
<1>3. ASSUME NEW m \in 1..Len(p)
      PROVE  Dialed(o, p[m]) = IF m = Len(p) THEN {} ELSE {p[m + 1]}
  <2>1. CASE m = Len(p)
    BY <1>2, <2>1, DialedIs
  <2>2. CASE m # Len(p)
    <3>1. m \in 1..(Len(p) - 1)
      BY <1>1, <2>2
    <3>2. p[m + 1] \in Dialed(o, p[m]) /\ p[m] \in 1..Len(o)
      BY <1>1, <1>2, <3>1
    <3>3. Dialed(o, p[m]) = {p[m + 1]}
      BY <3>2, DialedOnce
    <3> QED BY <2>2, <3>3
  <2> QED BY <2>1, <2>2
<1> DEFINE After(m) == {p[n] : n \in (m + 1)..Len(p)}
<1>4. ASSUME NEW m \in 1..Len(p) PROVE Behind(o, p[m]) = After(m)
  <2>1. After(m) \in SUBSET (1..Len(o))
    BY <1>1, <1>2
  <2>2. Dialed(o, p[m]) \subseteq After(m)
    <3>1. CASE m = Len(p)
      BY <1>3, <3>1
    <3>2. CASE m # Len(p)
      <4>1. m + 1 \in (m + 1)..Len(p)
        BY <1>1, <3>2
      <4> QED BY <1>3, <3>2, <4>1
    <3> QED BY <3>1, <3>2
  <2>3. ASSUME NEW j \in After(m) PROVE Dialed(o, j) \subseteq After(m)
    <3>1. PICK n \in (m + 1)..Len(p) : j = p[n]
      OBVIOUS
    <3>2. n \in 1..Len(p)
      BY <1>1
    <3>3. CASE n = Len(p)
      BY <1>3, <3>1, <3>2, <3>3
    <3>4. CASE n # Len(p)
      <4>1. n + 1 \in (m + 1)..Len(p)
        BY <1>1, <3>2, <3>4
      <4>2. Dialed(o, j) = {p[n + 1]}
        BY <1>3, <3>1, <3>2, <3>4
      <4> QED BY <4>1, <4>2
    <3> QED BY <3>3, <3>4
  <2>4. \A j \in After(m) : j \in Behind(o, p[m])
    BY PathBehind
  <2> HIDE DEF After
  <2>5. Behind(o, p[m]) \subseteq After(m)
    BY <1>2, <2>1, <2>2, <2>3, BehindLeast
  <2> QED BY <2>4, <2>5
<1>5. Range(p) = {p[m] : m \in 1..Len(p)}
  BY <1>1, RangeEquality
<1>6. Used(o, first) = Range(p)
  <2>1. Used(o, first) = {p[1]} \cup After(1)
    BY <1>1, <1>4 DEF Used
  <2>2. \A m \in 1..Len(p) : m = 1 \/ m \in (1 + 1)..Len(p)
    BY <1>1
  <2> QED BY <1>1, <1>5, <2>1, <2>2
<1>7. ASSUME NEW m \in 1..Len(p) PROVE p[m] \notin After(m)
  <2> SUFFICES ASSUME NEW n \in (m + 1)..Len(p), p[n] = p[m] PROVE FALSE
    OBVIOUS
  <2>1. n \in 2..Len(p) /\ m # n
    BY <1>1
  <2>2. m = 1
    BY <1>1, <2>1
  <2>3. n = Len(p)
    BY <1>1, <2>1, <2>2
  <2>4. Dialed(o, p[m]) = {p[m + 1]}
    <3>1. m # Len(p)
      BY <2>1, <2>3
    <3> QED BY <1>3, <3>1
  <2>5. Dialed(o, p[n]) = {}
    <3>1. n \in 1..Len(p)
      BY <1>1, <2>3
    <3> QED BY <1>3, <2>3, <3>1
  <2> QED BY <2>4, <2>5
<1>8. Resolved(o, Range(p))
  <2> SUFFICES ASSUME NEW m \in 1..Len(p), o[p[m]].dialer # NoTag
               PROVE  \E j \in Range(p) : o[j].tag = o[p[m]].dialer
    BY <1>5 DEF Resolved
  <2>1. m \in 1..(Len(p) - 1) /\ m + 1 \in 1..Len(p)
    BY <1>1
  <2>2. o[p[m + 1]].tag = o[p[m]].dialer
    BY <1>1, <1>2, <2>1, DialedIs
  <2> QED BY <1>5, <2>1, <2>2
<1> HIDE DEF After
<1> QED BY <1>4, <1>5, <1>6, <1>7, <1>8 DEF Whole

\* One whose last outbound cannot be followed shows that something is missing,
LEMMA PathDangling ==
  ASSUME NEW o \in Provided, NEW first, NEW p, Path(o, first, p),
         o[p[Len(p)]].dialer # NoTag, \A j \in 1..Len(o) : o[j].tag # o[p[Len(p)]].dialer
  PROVE  ~Whole(o, first)
<1>1. Len(p) \in 1..Len(p)
  BY DEF Path
<1>2. p[Len(p)] \in Used(o, first) /\ Used(o, first) \subseteq 1..Len(o)
  BY <1>1, PathUsed, BehindIn DEF Used
<1> QED BY <1>2 DEF Whole, Resolved

\* or that there is a circle.
LEMMA PathCircular ==
  ASSUME NEW o \in Provided, NEW first, NEW p, Path(o, first, p),
         NEW m \in 2..Len(p), o[p[Len(p)]].dialer # NoTag, o[p[m]].tag = o[p[Len(p)]].dialer
  PROVE  ~Whole(o, first)
<1>1. Len(p) \in 1..Len(p) /\ m \in 1..Len(p) /\ p[m] \in 1..Len(o) /\ p[Len(p)] \in 1..Len(o)
  BY DEF Path
<1>2. p[m] \in Dialed(o, p[Len(p)])
  BY <1>1, DialedIs
<1>3. p[m] \in Behind(o, p[m])
  <2>1. CASE m = Len(p)
    BY <1>1, <1>2, <2>1, BehindIn
  <2>2. CASE m # Len(p)
    <3>1. Len(p) \in (m + 1)..Len(p)
      BY <1>1, <2>2
    <3>2. p[Len(p)] \in Behind(o, p[m])
      BY <1>1, <3>1, PathBehind
    <3> QED BY <1>1, <1>2, <3>2, BehindIn
  <2> QED BY <2>1, <2>2
<1>4. p[m] \in Used(o, first)
  BY <1>1, PathUsed
<1> QED BY <1>3, <1>4 DEF Whole

\* No place comes twice, but for the first of all.
LEMMA PathBounded ==
  ASSUME NEW o \in Provided, NEW first, NEW p, Path(o, first, p)
  PROVE  Len(p) <= Len(o) + 1
<1> DEFINE S == 2..Len(p)
           T == 1..Len(o)
           f == [m \in S |-> p[m]]
<1>1. /\ p \in Seq(1..Len(o)) /\ Len(p) \in Nat /\ Len(p) >= 1 /\ Len(o) \in Nat
      /\ \A m, n \in 2..Len(p) : p[m] = p[n] => m = n
  BY DEF Path, Provided
<1>2. f \in Injection(S, T)
  <2>1. f \in [S -> T] /\ \A m, n \in S : f[m] = f[n] => m = n
    BY <1>1
  <2> HIDE DEF f, S, T
  <2> QED BY <2>1 DEF Injection, IsInjective
<1>3. IsFiniteSet(T) /\ Cardinality(T) = Len(o)
  <2> DEFINE n == Len(o)
  <2>1. n \in Nat
    BY <1>1
  <2> HIDE DEF n
  <2>2. IsFiniteSet(1..n) /\ Cardinality(1..n) = n
    BY <2>1, FS_Interval
  <2> QED BY <2>2 DEF n
<1>4. Cardinality(S) = Len(p) - 1
  BY <1>1, FS_Interval
<1>5. Cardinality(S) <= Cardinality(T)
  <2> HIDE DEF S, T, f
  <2> QED BY <1>2, <1>3, FS_Injection
<1> QED BY <1>1, <1>3, <1>4, <1>5

\* The way goes on as long as it comes to a tag not seen.
LEMMA PathGrows ==
  ASSUME NEW o \in Provided, NEW first, NEW p, Path(o, first, p), NEW s \in Dialed(o, p[Len(p)]),
         \A m \in 2..Len(p) : o[p[m]].tag # o[s].tag
  PROVE  Path(o, first, Append(p, s))
<1> DEFINE q == Append(p, s)
<1>1. /\ p \in Seq(1..Len(o)) /\ Len(p) \in Nat /\ Len(p) >= 1 /\ p[1] = first
      /\ \A k \in 1..(Len(p) - 1) : p[k + 1] \in Dialed(o, p[k])
      /\ \A m, n \in 2..Len(p) : p[m] = p[n] => m = n
      /\ \A m \in 2..Len(p) : p[m] = first => m = Len(p)
      /\ \A m \in 1..Len(p) : p[m] \in 1..Len(o)
  BY DEF Path
<1>2. s \in 1..Len(o) /\ o[p[Len(p)]].dialer # NoTag /\ o[s].tag = o[p[Len(p)]].dialer
  BY <1>1, DialedIs
<1>3. q \in Seq(1..Len(o)) /\ q # <<>> /\ Len(q) = Len(p) + 1 /\ q[Len(p) + 1] = s /\ \A m \in 1..Len(p) : q[m] = p[m]
  BY <1>1, <1>2
<1> HIDE DEF q
<1>4. q[1] = first
  BY <1>1, <1>3
<1>5. ASSUME NEW k \in 1..(Len(q) - 1) PROVE q[k + 1] \in Dialed(o, q[k])
  <2>1. CASE k = Len(p)
    BY <1>1, <1>3, <2>1
  <2>2. CASE k # Len(p)
    <3>1. k \in 1..(Len(p) - 1) /\ k + 1 \in 1..Len(p) /\ k \in 1..Len(p)
      BY <1>1, <1>3, <2>2
    <3> QED BY <1>1, <1>3, <3>1
  <2> QED BY <2>1, <2>2
<1>6. ASSUME NEW m \in 2..Len(p) PROVE q[m] = p[m] /\ q[m] # s
  <2>1. m \in 1..Len(p) /\ o[p[m]].tag # o[s].tag
    BY <1>1
  <2> QED BY <1>3, <2>1
<1>7. ASSUME NEW m \in 2..Len(q), NEW n \in 2..Len(q), q[m] = q[n] PROVE m = n
  <2>1. m \in 2..Len(p) \/ m = Len(p) + 1
    BY <1>1, <1>3
  <2>2. n \in 2..Len(p) \/ n = Len(p) + 1
    BY <1>1, <1>3
  <2> QED BY <1>1, <1>3, <1>6, <1>7, <2>1, <2>2
<1>8. ASSUME NEW m \in 2..Len(q), q[m] = first PROVE m = Len(q)
  <2> SUFFICES ASSUME m # Len(q) PROVE FALSE
    OBVIOUS
  <2>1. m \in 2..Len(p) /\ p[m] = first
    BY <1>1, <1>3, <1>8
  <2>2. m = Len(p) /\ 1 \in 1..(Len(p) - 1) /\ 2 \in 2..Len(p)
    BY <1>1, <2>1
  <2>3. p[1 + 1] \in Dialed(o, p[1])
    BY <1>1, <2>2
  <2>4. o[p[2]].tag = o[p[1]].dialer
    BY <1>1, <2>2, <2>3, DialedIs
  <2>5. o[p[2]].tag = o[s].tag
    BY <1>1, <1>2, <2>1, <2>2, <2>4
  <2> QED BY <2>2, <2>5
<1>9. Path(o, first, q)
  BY <1>3, <1>4, <1>5, <1>7, <1>8 DEF Path
<1> QED BY <1>9 DEF q

LEMMA ByTagIs ==
  ASSUME NEW o \in Provided, NEW tag
  PROVE  /\ ByTag(o, tag) \in 0..Len(o)
         /\ ByTag(o, tag) = 0 => \A j \in 1..Len(o) : o[j].tag # tag
         /\ ByTag(o, tag) # 0 => o[ByTag(o, tag)].tag = tag
<1> DEFINE I == {i \in 1..Len(o) : o[i].tag = tag}
<1>1. ByTag(o, tag) = IF I # {} THEN Max(I) ELSE 0
  BY DEF ByTag, SelectLastInSeq
<1>2. Len(o) \in Nat
  BY DEF Provided
<1>3. CASE I = {}
  BY <1>1, <1>2, <1>3
<1>4. CASE I # {}
  <2>1. I \subseteq 1..Len(o)
    OBVIOUS
  <2>2. \E i \in I : \A j \in I : j <= i
    <3> DEFINE n == Len(o)
    <3>1. n \in Nat /\ I \subseteq 1..n
      BY <1>2
    <3> HIDE DEF n, I
    <3> QED BY <1>4, <3>1, Greatest
  <2>3. \A i, j \in I : i >= j <=> j <= i
    BY <1>2
  <2>4. Max(I) \in I
    <3> HIDE DEF I
    <3> QED BY <2>2, <2>3 DEF Max
  <2>5. ByTag(o, tag) \in I /\ \A i \in I : i \in 0..Len(o) /\ i # 0
    BY <1>1, <1>2, <1>4, <2>4
  <2> QED BY <2>5
<1> QED BY <1>3, <1>4

First(o) == SelectInSeq(o, LAMBDA out : out.protocol \in Proxies)

LEMMA FirstIs ==
  ASSUME NEW o \in Provided
  PROVE  First(o) \in 0..Len(o)
<1> DEFINE I == {i \in 1..Len(o) : o[i].protocol \in Proxies}
<1>1. First(o) = IF I # {} THEN Min(I) ELSE 0
  BY DEF First, SelectInSeq
<1>2. Len(o) \in Nat
  BY DEF Provided
<1>3. CASE I = {}
  BY <1>1, <1>2, <1>3
<1>4. CASE I # {}
  <2>1. I \subseteq Nat
    OBVIOUS
  <2>2. \E i \in I : \A j \in I : i <= j
    <3> HIDE DEF I
    <3> QED BY <1>4, <2>1, Least
  <2>3. Min(I) \in I
    <3> HIDE DEF I
    <3> QED BY <2>2 DEF Min
  <2> QED BY <1>1, <1>2, <1>4, <2>3
<1> QED BY <1>3, <1>4

---------------------------------------------------------------------------
(* The bundle made of the way.                                             *)

\* Marked, and named as build_tun_config expects the proxy to be.
Proxied(out) == [Marked(out) EXCEPT !.tag = "proxy"]
Link(o, p, m) == IF m = 1 THEN Proxied(o[p[1]]) ELSE Marked(o[p[m]])
ChainOf(o, p) == [m \in 1..Len(p) |-> Link(o, p, m)]
SeenOn(o, p) == {o[p[m]].tag : m \in 2..Len(p)}

LEMMA MarkedIs ==
  ASSUME NEW out \in Outbounds
  PROVE  /\ Marked(out) \in Outbounds /\ Marked(out).marked = TRUE /\ Marked(out).tag = out.tag
         /\ Marked(out).id = out.id /\ Marked(out).dialer = out.dialer
BY DEF Marked, Outbounds

LEMMA ProxiedIs ==
  ASSUME NEW out \in Outbounds
  PROVE  /\ Proxied(out) \in Outbounds /\ Proxied(out).marked = TRUE /\ Proxied(out).tag = "proxy"
         /\ Proxied(out).id = out.id /\ Proxied(out).dialer = out.dialer
<1> DEFINE r == Marked(out)
<1>1. r \in Outbounds /\ r.marked = TRUE /\ r.id = out.id /\ r.dialer = out.dialer
  BY MarkedIs
<1>2. Proxied(out) = [r EXCEPT !.tag = "proxy"]
  BY DEF Proxied
<1> HIDE DEF r
<1> QED BY <1>1, <1>2 DEF Outbounds, Reserved

LEMMA LinkIs ==
  ASSUME NEW o \in Provided, NEW p \in Seq(1..Len(o)), NEW m \in 1..Len(p)
  PROVE  /\ Link(o, p, m) \in Outbounds /\ Link(o, p, m).marked = TRUE
         /\ Link(o, p, m).id = p[m] /\ Link(o, p, m).dialer = o[p[m]].dialer
         /\ m # 1 => Link(o, p, m).tag = o[p[m]].tag
<1>1. p[m] \in 1..Len(o)
  OBVIOUS
<1>2. o[p[m]] \in Outbounds /\ o[p[m]].id = p[m]
  BY <1>1 DEF Provided
<1>3. CASE m = 1
  BY <1>2, <1>3, ProxiedIs DEF Link
<1>4. CASE m # 1
  BY <1>2, <1>4, MarkedIs DEF Link
<1> QED BY <1>3, <1>4

LEMMA ChainIs ==
  ASSUME NEW o \in Provided, NEW p \in Seq(1..Len(o))
  PROVE  /\ ChainOf(o, p) \in Seq(Outbounds) /\ Len(ChainOf(o, p)) = Len(p)
         /\ \A m \in 1..Len(p) : ChainOf(o, p)[m] = Link(o, p, m)
<1> DEFINE n == Len(p)
           c == [m \in 1..n |-> Link(o, p, m)]
<1>1. n \in Nat /\ \A m \in 1..n : Link(o, p, m) \in Outbounds
  <2>1. ASSUME NEW m \in 1..Len(p) PROVE Link(o, p, m) \in Outbounds
    BY LinkIs
  <2> QED BY <2>1
<1>2. ChainOf(o, p) = c
  BY DEF ChainOf
<1> HIDE DEF n
<1>3. c \in Seq(Outbounds) /\ Len(c) = n /\ \A m \in 1..n : c[m] = Link(o, p, m)
  BY <1>1
<1> HIDE DEF c
<1> QED BY <1>2, <1>3 DEF n

LEMMA ChainGrows ==
  ASSUME NEW o \in Provided, NEW p \in Seq(1..Len(o)), p # <<>>, NEW s \in 1..Len(o)
  PROVE  /\ ChainOf(o, Append(p, s)) = Append(ChainOf(o, p), Marked(o[s]))
         /\ SeenOn(o, Append(p, s)) = SeenOn(o, p) \cup {o[s].tag}
<1> DEFINE q == Append(p, s)
           c == ChainOf(o, p)
           d == ChainOf(o, q)
           e == Append(c, Marked(o[s]))
<1>1. /\ q \in Seq(1..Len(o)) /\ Len(p) \in Nat /\ Len(p) >= 1 /\ Len(q) = Len(p) + 1
      /\ q[Len(p) + 1] = s /\ \A m \in 1..Len(p) : q[m] = p[m]
  OBVIOUS
<1>2. Marked(o[s]) \in Outbounds
  <2>1. o[s] \in Outbounds
    BY DEF Provided
  <2> QED BY <2>1, MarkedIs
<1>3. /\ c \in Seq(Outbounds) /\ Len(c) = Len(p)
      /\ \A m \in 1..Len(p) : c[m] = Link(o, p, m)
  BY ChainIs
<1> HIDE DEF q
<1>4. /\ d \in Seq(Outbounds) /\ Len(d) = Len(q)
      /\ \A m \in 1..Len(q) : d[m] = Link(o, q, m)
  BY <1>1, ChainIs
<1> HIDE DEF c
<1>5. /\ e \in Seq(Outbounds) /\ Len(e) = Len(p) + 1 /\ e[Len(p) + 1] = Marked(o[s])
      /\ \A m \in 1..Len(p) : e[m] = c[m]
  BY <1>2, <1>3
<1> HIDE DEF d, e
<1>6. ASSUME NEW m \in 1..Len(q) PROVE d[m] = e[m]
  <2>1. CASE m \in 1..Len(p)
    <3>1. Link(o, q, m) = Link(o, p, m)
      BY <1>1, <2>1 DEF Link
    <3> QED BY <1>3, <1>4, <1>5, <2>1, <3>1
  <2>2. CASE m = Len(p) + 1
    <3>1. m # 1
      BY <1>1, <2>2
    <3>2. Link(o, q, m) = Marked(o[s])
      BY <1>1, <2>2, <3>1 DEF Link
    <3> QED BY <1>4, <1>5, <2>2, <3>2
  <2> QED BY <1>1, <2>1, <2>2
<1>7. d = e
  BY <1>1, <1>4, <1>5, <1>6, SeqEqual
<1>8. SeenOn(o, q) = SeenOn(o, p) \cup {o[s].tag}
  <2>1. ASSUME NEW m \in 2..Len(q) PROVE o[q[m]].tag \in SeenOn(o, p) \cup {o[s].tag}
    <3>1. m \in 2..Len(p) \/ m = Len(p) + 1
      BY <1>1
    <3>2. CASE m \in 2..Len(p)
      <4>1. q[m] = p[m]
        BY <1>1, <3>2
      <4> QED BY <3>2, <4>1 DEF SeenOn
    <3> QED BY <1>1, <3>1, <3>2
  <2>2. ASSUME NEW m \in 2..Len(p) PROVE o[p[m]].tag \in SeenOn(o, q)
    <3>1. m \in 2..Len(q) /\ q[m] = p[m]
      BY <1>1
    <3> QED BY <3>1 DEF SeenOn
  <2>3. o[s].tag \in SeenOn(o, q)
    <3>1. Len(p) + 1 \in 2..Len(q)
      BY <1>1
    <3>2. o[q[Len(p) + 1]].tag \in SeenOn(o, q)
      BY <3>1 DEF SeenOn
    <3> QED BY <1>1, <3>2
  <2> QED BY <2>1, <2>2, <2>3 DEF SeenOn
<1> QED BY <1>7, <1>8 DEF d, e, q, c

\* Where the loop is after k turns, having gone from the first outbound.
OnTheWay(o, first, b, p, k) ==
  /\ Path(o, first, p) /\ b.chain = ChainOf(o, p) /\ b.seen = SeenOn(o, p)
  /\ ~b.good => ~Whole(o, first)
  /\ b.good /\ o[p[Len(p)]].dialer # NoTag => Len(p) = k + 1

LEMMA InBundles ==
  ASSUME NEW b \in Bundles
  PROVE  b.good \in BOOLEAN /\ b.chain \in Seq(Outbounds) /\ b.seen \in SUBSET Tags
BY DEF Bundles

LEMMA Fails ==
  ASSUME NEW b \in Bundles
  PROVE  /\ [b EXCEPT !.good = FALSE] \in Bundles /\ ~[b EXCEPT !.good = FALSE].good
         /\ [b EXCEPT !.good = FALSE].chain = b.chain /\ [b EXCEPT !.good = FALSE].seen = b.seen
BY DEF Bundles

Longer(b, c, s) == [b EXCEPT !.chain = c, !.seen = s]

LEMMA LongerIs ==
  ASSUME NEW b \in Bundles, NEW c \in Seq(Outbounds), NEW s \in SUBSET Tags
  PROVE  /\ Longer(b, c, s) \in Bundles /\ Longer(b, c, s).good = b.good
         /\ Longer(b, c, s).chain = c /\ Longer(b, c, s).seen = s
BY DEF Bundles, Longer

LEMMA CollectIs ==
  ASSUME NEW o \in Provided, NEW b \in Bundles, NEW tag \in Tags, b.chain # <<>>, tag = Last(b.chain).dialer
  PROVE  Collect(b, o) =
           IF ByTag(o, tag) = 0 \/ tag \in b.seen THEN [b EXCEPT !.good = FALSE]
           ELSE Longer(b, Append(b.chain, Marked(o[ByTag(o, tag)])), b.seen \cup {tag})
BY DEF Collect, Longer

LEMMA CollectIn ==
  ASSUME NEW o \in Provided, NEW b \in Bundles, NEW tag \in Tags, b.chain # <<>>, tag = Last(b.chain).dialer
  PROVE  Collect(b, o) \in Bundles
<1> DEFINE s == ByTag(o, tag)
<1>1. CASE s = 0 \/ tag \in b.seen
  <2>1. Collect(b, o) = [b EXCEPT !.good = FALSE]
    BY <1>1, CollectIs
  <2> QED BY <2>1, Fails
<1>2. CASE ~(s = 0 \/ tag \in b.seen)
  <2>1. s \in 1..Len(o)
    <3>1. s \in 0..Len(o) /\ s # 0
      BY <1>2, ByTagIs
    <3> HIDE DEF s
    <3> QED BY <3>1 DEF Provided
  <2>2. Collect(b, o) = Longer(b, Append(b.chain, Marked(o[s])), b.seen \cup {tag})
    BY <1>2, CollectIs
  <2> HIDE DEF s
  <2>3. o[s] \in Outbounds
    BY <2>1 DEF Provided
  <2> DEFINE out == Marked(o[s])
             c == Append(b.chain, out)
  <2>4. out \in Outbounds
    BY <2>3, MarkedIs
  <2> HIDE DEF out
  <2>5. c \in Seq(Outbounds) /\ b.seen \cup {tag} \in SUBSET Tags
    BY <2>4, InBundles
  <2> HIDE DEF c
  <2>6. Longer(b, c, b.seen \cup {tag}) \in Bundles
    BY <2>5, LongerIs
  <2> QED BY <2>2, <2>6 DEF c, out
<1> QED BY <1>1, <1>2

Ended(b) == ~b.good \/ b.chain = <<>> \/ Last(b.chain).dialer = NoTag

LEMMA DialerIn ==
  ASSUME NEW b \in Bundles, ~Ended(b)
  PROVE  b.chain # <<>> /\ Last(b.chain).dialer \in Tags
<1> DEFINE c == b.chain
<1>1. c \in Seq(Outbounds) /\ c # <<>> /\ Last(c).dialer # NoTag
  BY InBundles DEF Ended
<1> HIDE DEF c
<1>2. c[Len(c)] \in Outbounds
  BY <1>1
<1>3. Last(c).dialer \in Tags \cup {NoTag}
  BY <1>2 DEF Last, Outbounds
<1> QED BY <1>1, <1>3 DEF c

LEMMA RoundIs ==
  ASSUME NEW o \in Provided
  PROVE  /\ Round(o) \in [Bundles -> Bundles]
         /\ \A b \in Bundles : Round(o)[b] = IF Ended(b) THEN b ELSE Collect(b, o)
<1>1. ASSUME NEW b \in Bundles, ~Ended(b) PROVE Collect(b, o) \in Bundles
  BY <1>1, DialerIn, CollectIn
<1>2. Round(o) = [b \in Bundles |-> IF Ended(b) THEN b ELSE Collect(b, o)]
  BY DEF Round, Ended
<1> QED BY <1>1, <1>2

\* The loop goes on exactly as long as the last outbound has a dialer.
LEMMA WayEnded ==
  ASSUME NEW o \in Provided, NEW first, NEW b \in Bundles, NEW p, NEW k \in Nat, OnTheWay(o, first, b, p, k)
  PROVE  /\ b.chain # <<>> /\ Last(b.chain).dialer = o[p[Len(p)]].dialer
         /\ Ended(b) <=> ~b.good \/ o[p[Len(p)]].dialer = NoTag
<1> DEFINE c == b.chain
           n == Len(p)
<1>1. p \in Seq(1..Len(o)) /\ n \in 1..Len(p) /\ n \in Nat /\ c = ChainOf(o, p)
  BY DEF OnTheWay, Path
<1>2. c \in Seq(Outbounds) /\ Len(c) = n /\ c[n] = Link(o, p, n)
  BY <1>1, ChainIs
<1>3. Link(o, p, n).dialer = o[p[n]].dialer
  BY <1>1, LinkIs
<1> HIDE DEF c
<1>4. c # <<>>
  BY <1>1, <1>2
<1>5. Last(c).dialer = o[p[n]].dialer
  BY <1>2, <1>3 DEF Last
<1> QED BY <1>4, <1>5 DEF c, Ended

LEMMA RoundKeeps ==
  ASSUME NEW o \in Provided, Unique(o), NEW first, NEW b \in Bundles, NEW p, NEW k \in Nat,
         OnTheWay(o, first, b, p, k)
  PROVE  \E q : OnTheWay(o, first, Round(o)[b], q, k + 1)
<1> DEFINE tag == o[p[Len(p)]].dialer
           s == ByTag(o, tag)
           r == Round(o)[b]
<1>1. Path(o, first, p) /\ b.chain = ChainOf(o, p) /\ b.seen = SeenOn(o, p)
  BY DEF OnTheWay
<1>2. /\ p \in Seq(1..Len(o)) /\ p # <<>> /\ Len(p) \in Nat /\ Len(p) \in 1..Len(p) /\ p[Len(p)] \in 1..Len(o)
      /\ Len(o) \in Nat
  BY <1>1 DEF Path, Provided
<1>3. CASE Ended(b)
  <2>1. r = b
    BY <1>3, RoundIs
  <2>2. ~b.good \/ tag = NoTag
    BY <1>3, WayEnded
  <2>3. OnTheWay(o, first, b, p, k + 1)
    BY <2>2 DEF OnTheWay
  <2> QED BY <2>1, <2>3
<1>4. CASE ~Ended(b)
  <2>1. r = Collect(b, o)
    BY <1>4, RoundIs
  <2>2. b.good /\ tag # NoTag /\ b.chain # <<>> /\ tag = Last(b.chain).dialer /\ tag \in Tags
    BY <1>4, WayEnded, DialerIn
  <2>3. Len(p) = k + 1
    BY <2>2 DEF OnTheWay
  <2> HIDE DEF r
  <2>4. CASE s = 0 \/ tag \in b.seen
    <3>1. ~Whole(o, first)
      <4>1. CASE s = 0
        <5>1. \A j \in 1..Len(o) : o[j].tag # tag
          BY <4>1, ByTagIs
        <5> QED BY <1>1, <2>2, <5>1, PathDangling
      <4>2. CASE tag \in b.seen
        <5>1. PICK m \in 2..Len(p) : o[p[m]].tag = tag
          BY <1>1, <4>2 DEF SeenOn
        <5> QED BY <1>1, <2>2, <5>1, PathCircular
      <4> QED BY <2>4, <4>1, <4>2
    <3>2. r = [b EXCEPT !.good = FALSE]
      <4> HIDE DEF tag
      <4> QED BY <2>1, <2>2, <2>4, CollectIs DEF s
    <3>3. ~r.good /\ r.chain = b.chain /\ r.seen = b.seen
      BY <3>2, Fails
    <3>4. OnTheWay(o, first, r, p, k + 1)
      BY <1>1, <3>1, <3>3 DEF OnTheWay
    <3> QED BY <3>4 DEF r
  <2>5. CASE ~(s = 0 \/ tag \in b.seen)
    <3>1. s \in 1..Len(o) /\ o[s].tag = tag
      <4>1. s \in 0..Len(o) /\ s # 0 /\ o[s].tag = tag
        BY <2>5, ByTagIs
      <4> HIDE DEF s
      <4> QED BY <1>2, <4>1
    <3> DEFINE q == Append(p, s)
               c == Append(b.chain, Marked(o[s]))
               t == b.seen \cup {tag}
    <3>2. r = Longer(b, c, t)
      <4> HIDE DEF tag
      <4> QED BY <2>1, <2>2, <2>5, CollectIs DEF s
    <3> HIDE DEF s
    <3>3. s \in Dialed(o, p[Len(p)])
      BY <1>2, <2>2, <3>1, DialedIs
    <3>4. \A m \in 2..Len(p) : o[p[m]].tag # o[s].tag
      BY <1>1, <2>5, <3>1 DEF SeenOn
    <3>5. Path(o, first, q)
      BY <1>1, <3>3, <3>4, PathGrows
    <3>6. ChainOf(o, q) = c /\ SeenOn(o, q) = t
      BY <1>1, <1>2, <3>1, ChainGrows
    <3>7. c \in Seq(Outbounds) /\ t \in SUBSET Tags
      <4>1. o[s] \in Outbounds
        BY <3>1 DEF Provided
      <4> DEFINE out == Marked(o[s])
      <4>2. out \in Outbounds
        BY <4>1, MarkedIs
      <4> HIDE DEF out
      <4>3. Append(b.chain, out) \in Seq(Outbounds)
        BY <4>2, InBundles
      <4>4. t \in SUBSET Tags
        BY <2>2, InBundles
      <4> QED BY <4>3, <4>4 DEF out
    <3> HIDE DEF c, t
    <3>8. r.good /\ r.chain = c /\ r.seen = t
      BY <2>2, <3>2, <3>7, LongerIs
    <3>9. Len(q) = (k + 1) + 1
      BY <1>2, <2>3, <3>1
    <3> HIDE DEF q
    <3>10. OnTheWay(o, first, r, q, k + 1)
      BY <3>5, <3>6, <3>8, <3>9 DEF OnTheWay
    <3> QED BY <3>10 DEF r
  <2> QED BY <2>4, <2>5
<1> QED BY <1>3, <1>4

\* What find_proxy_outbound_bundle starts from,
StartFrom(o, first) == [good |-> TRUE, chain |-> <<Proxied(o[first])>>, seen |-> {}]

LEMMA StartIs ==
  ASSUME NEW o \in Provided, NEW first \in 1..Len(o)
  PROVE  StartFrom(o, first) \in Bundles /\ OnTheWay(o, first, StartFrom(o, first), <<first>>, 0)
<1> DEFINE p == <<first>>
           b == StartFrom(o, first)
           c == <<Proxied(o[first])>>
<1>1. o[first] \in Outbounds
  BY DEF Provided
<1>2. Proxied(o[first]) \in Outbounds
  BY <1>1, ProxiedIs
<1>3. b.good = TRUE /\ b.chain = c /\ b.seen = {} /\ c \in Seq(Outbounds) /\ b \in Bundles
  BY <1>2 DEF StartFrom, Bundles
<1>4. p \in Seq(1..Len(o)) /\ Len(p) = 1 /\ p[1] = first /\ p # <<>>
  OBVIOUS
<1> HIDE DEF p, b
<1>5. Path(o, first, p)
  BY <1>4 DEF Path
<1>6. ChainOf(o, p) = c
  <2>1. /\ ChainOf(o, p) \in Seq(Outbounds) /\ Len(ChainOf(o, p)) = 1
        /\ ChainOf(o, p)[1] = Link(o, p, 1)
    BY <1>4, ChainIs
  <2>2. Link(o, p, 1) = Proxied(o[first])
    BY <1>4 DEF Link
  <2> DEFINE d == ChainOf(o, p)
             out == Proxied(o[first])
  <2>3. d \in Seq(Outbounds) /\ Len(d) = 1 /\ d[1] = out
    BY <2>1, <2>2
  <2> HIDE DEF d, out
  <2>4. d = <<out>>
    BY <2>3
  <2> QED BY <2>4 DEF d, out
<1>7. SeenOn(o, p) = {}
  BY <1>4 DEF SeenOn
<1>8. OnTheWay(o, first, b, p, 0)
  BY <1>3, <1>4, <1>5, <1>6, <1>7 DEF OnTheWay
<1> QED BY <1>3, <1>8 DEF p, b

\* and what it ends with: the way to an outbound without a dialer, or an error
\* when the provider's config cannot be run.
LEMMA BundleIs ==
  ASSUME NEW o \in Provided, Unique(o), First(o) # 0
  PROVE  /\ First(o) \in 1..Len(o) /\ Bundle(o) \in Bundles
         /\ Bundle(o).good <=> Whole(o, First(o))
         /\ \E p : /\ Path(o, First(o), p) /\ Bundle(o).chain = ChainOf(o, p)
                   /\ Bundle(o).good => o[p[Len(p)]].dialer = NoTag
<1> DEFINE first == First(o)
           n == Len(o) + 1
           start == StartFrom(o, first)
           B(k) == Repeat(Round(o), start, k)
<1>1. Len(o) \in Nat /\ first \in 1..Len(o)
  <2>1. first \in 0..Len(o) /\ first # 0 /\ Len(o) \in Nat
    BY FirstIs DEF Provided
  <2> HIDE DEF first
  <2> QED BY <2>1
<1>2. Bundle(o) = B(n)
  BY DEF Bundle, First, Chained, StartFrom, Proxied
<1> HIDE DEF first
<1>3. start \in Bundles /\ OnTheWay(o, first, start, <<first>>, 0)
  BY <1>1, StartIs
<1>4. Round(o) \in [Bundles -> Bundles]
  BY RoundIs
<1> HIDE DEF start
<1>5. \A k \in Nat : B(k) \in Bundles
  BY <1>3, <1>4, RepeatIn
<1> DEFINE P == {k \in Nat : \E p : OnTheWay(o, first, B(k), p, k)}
<1>6. 0 \in P
  <2>1. B(0) = start
    BY <1>3, <1>4, RepeatStart
  <2> QED BY <1>3, <2>1
<1>7. ASSUME NEW k \in P PROVE k + 1 \in P
  <2>1. PICK p : OnTheWay(o, first, B(k), p, k)
    OBVIOUS
  <2>2. B(k) \in Bundles /\ k \in Nat
    BY <1>5
  <2>3. B(k + 1) = Round(o)[B(k)]
    BY <1>3, <1>4, <2>2, RepeatTurn
  <2> DEFINE b == B(k)
  <2>4. b \in Bundles /\ OnTheWay(o, first, b, p, k)
    BY <2>1, <2>2
  <2> HIDE DEF b
  <2>5. \E q : OnTheWay(o, first, Round(o)[b], q, k + 1)
    BY <2>2, <2>4, RoundKeeps
  <2> QED BY <2>2, <2>3, <2>5 DEF b
<1>8. Nat \subseteq P
  <2> HIDE DEF P
  <2> QED BY <1>6, <1>7, Counting DEF P
<1>9. n \in Nat
  BY <1>1
<1> DEFINE b == Bundle(o)
<1>10. b \in Bundles /\ \E p : OnTheWay(o, first, b, p, n)
  BY <1>2, <1>5, <1>8, <1>9
<1> HIDE DEF b, B, P
<1>11. PICK p : OnTheWay(o, first, b, p, n)
  BY <1>10
<1>12. Path(o, first, p) /\ b.chain = ChainOf(o, p) /\ Len(p) \in Nat /\ Len(p) <= Len(o) + 1
  <2>1. Path(o, first, p) /\ b.chain = ChainOf(o, p)
    BY <1>11 DEF OnTheWay
  <2>2. Len(p) \in Nat
    BY <2>1 DEF Path
  <2>3. Len(p) <= Len(o) + 1
    BY <2>1, PathBounded
  <2> QED BY <2>1, <2>2, <2>3
<1>13. b.good => o[p[Len(p)]].dialer = NoTag
  BY <1>1, <1>11, <1>12 DEF OnTheWay
<1>14. b.good <=> Whole(o, first)
  <2>1. b.good => Whole(o, first)
    BY <1>12, <1>13, PathComplete
  <2> QED BY <1>10, <1>11, <2>1 DEF OnTheWay
<1> QED BY <1>1, <1>10, <1>12, <1>13, <1>14 DEF b, first

\* The outbounds that are run, when the way p has been gone to its end.
LEMMA RunIs ==
  ASSUME NEW o \in Provided, Unique(o), NEW first, NEW p, Path(o, first, p), o[p[Len(p)]].dialer = NoTag,
         NEW b \in Bundles, b.chain = ChainOf(o, p),
         \A i \in Used(o, first) \ {first} : o[i].tag \notin Reserved
  PROVE  LET run == Runtime(b)
         IN  /\ run[1].id = first /\ Unique(run) /\ Resolved(run, DOMAIN run)
             /\ {run[i].id : i \in DOMAIN run} = Used(o, first) \cup {0}
             /\ \A i \in DOMAIN run : run[i].dialer = NoTag /\ run[i].protocol # "blackhole" => run[i].marked
<1> DEFINE n == Len(p)
           c == ChainOf(o, p)
           run == Runtime(b)
<1>1. /\ p \in Seq(1..Len(o)) /\ n \in Nat /\ n >= 1 /\ p[1] = first
      /\ \A m \in 1..(n - 1) : p[m + 1] \in Dialed(o, p[m])
      /\ \A m, k \in 2..n : p[m] = p[k] => m = k
      /\ \A m \in 1..n : p[m] \in 1..Len(o)
  BY DEF Path
<1>2. Used(o, first) = Range(p) /\ Whole(o, first)
  BY PathComplete
<1>3. Range(p) = {p[m] : m \in 1..n}
  BY <1>1, RangeEquality
<1>4. Direct \in Outbounds /\ Blocked \in Outbounds
  BY DEF Direct, Blocked, Outbounds, Reserved
<1>5. /\ Direct.id = 0 /\ Direct.tag = "direct" /\ Direct.dialer = NoTag /\ Direct.marked
      /\ Blocked.id = 0 /\ Blocked.tag = "blocked" /\ Blocked.dialer = NoTag /\ Blocked.protocol = "blackhole"
  BY DEF Direct, Blocked
<1>6. c \in Seq(Outbounds) /\ Len(c) = n /\ \A m \in 1..n : c[m] = Link(o, p, m)
  BY <1>1, ChainIs
<1>7. run = c \o <<Direct, Blocked>>
  BY DEF Runtime
<1> HIDE DEF c, run, n
<1>8. /\ run \in Seq(Outbounds) /\ Len(run) = n + 2 /\ run[n + 1] = Direct /\ run[n + 2] = Blocked
      /\ \A m \in 1..n : run[m] = Link(o, p, m)
  BY <1>1, <1>4, <1>6, <1>7
<1>9. ASSUME NEW m \in 1..n
      PROVE  /\ run[m].id = p[m] /\ run[m].dialer = o[p[m]].dialer /\ run[m].marked
             /\ m = 1 => run[m].tag = "proxy"
             /\ m # 1 => run[m].tag = o[p[m]].tag
  <2>1. m \in 1..Len(p) /\ run[m] = Link(o, p, m)
    BY <1>8 DEF n
  <2>2. m = 1 => Link(o, p, m).tag = "proxy"
    <3> SUFFICES ASSUME m = 1 PROVE Link(o, p, m).tag = "proxy"
      OBVIOUS
    <3>1. o[p[1]] \in Outbounds
      <4>1. 1 \in 1..n
        BY <1>1
      <4> QED BY <1>1, <4>1 DEF Provided
    <3>2. Proxied(o[p[1]]).tag = "proxy"
      BY <3>1, ProxiedIs
    <3>3. Link(o, p, m) = Proxied(o[p[1]])
      BY DEF Link
    <3> QED BY <3>2, <3>3
  <2>3. /\ Link(o, p, m).id = p[m] /\ Link(o, p, m).dialer = o[p[m]].dialer /\ Link(o, p, m).marked = TRUE
        /\ m # 1 => Link(o, p, m).tag = o[p[m]].tag
    <3>1. p \in Seq(1..Len(o)) /\ m \in 1..Len(p)
      BY <1>1, <2>1
    <3> QED BY <3>1, LinkIs
  <2> QED BY <2>1, <2>2, <2>3
<1>10. ASSUME NEW m \in 2..n
       PROVE  o[p[m]].tag = o[p[m - 1]].dialer /\ o[p[m]].tag # NoTag /\ o[p[m]].tag \notin Reserved
  <2>1. m \in 1..n /\ m - 1 \in 1..(n - 1) /\ m - 1 \in 1..n /\ (m - 1) + 1 = m /\ m \in (1 + 1)..Len(p) /\ 1 \in 1..Len(p)
    BY <1>1 DEF n
  <2>2. p[m] \in Dialed(o, p[m - 1])
    BY <1>1, <2>1
  <2>3. o[p[m]].tag = o[p[m - 1]].dialer /\ o[p[m]].tag # NoTag
    <3>1. p[m - 1] \in 1..Len(o)
      BY <1>1, <2>1
    <3> QED BY <2>2, <3>1, DialedIs
  <2>4. p[m] \in Behind(o, p[1])
    BY <2>1, PathBehind
  <2>5. p[m] # first
    BY <1>1, <1>2, <2>4 DEF Whole, Used
  <2>6. p[m] \in Used(o, first)
    BY <1>2, <1>3, <2>1
  <2> QED BY <2>3, <2>5, <2>6
<1>11. Unique(run)
  <2>1. DOMAIN run = 1..(n + 2)
    BY <1>8
  <2>2. ASSUME NEW m \in 2..n, NEW k \in 2..n, o[p[m]].tag = o[p[k]].tag PROVE m = k
    <3>1. m \in 1..n /\ k \in 1..n /\ p[m] \in 1..Len(o) /\ p[k] \in 1..Len(o) /\ o[p[m]].tag # NoTag
      BY <1>1, <1>10
    <3>2. DOMAIN o = 1..Len(o)
      BY DEF Provided
    <3>3. p[m] = p[k]
      BY <2>2, <3>1, <3>2 DEF Unique
    <3> QED BY <1>1, <3>3
  <2>3. \A i \in 1..(n + 2) : i = 1 \/ i \in 2..n \/ i = n + 1 \/ i = n + 2
    BY <1>1
  <2>4. run[1].tag = "proxy" /\ run[n + 1].tag = "direct" /\ run[n + 2].tag = "blocked"
    BY <1>1, <1>5, <1>8, <1>9
  <2>5. ASSUME NEW m \in 2..n PROVE run[m].tag = o[p[m]].tag /\ run[m].tag \notin {"proxy", "direct", "blocked"}
    <3>1. m \in 1..n /\ m # 1
      BY <1>1
    <3> QED BY <1>9, <1>10, <3>1 DEF Reserved
  <2>6. ASSUME NEW i \in 1..(n + 2), NEW j \in 1..(n + 2), run[i].tag = run[j].tag PROVE i = j
    BY <2>2, <2>3, <2>4, <2>5, <2>6
  <2> QED BY <2>1, <2>6 DEF Unique
<1>12. Resolved(run, DOMAIN run)
  <2> SUFFICES ASSUME NEW i \in 1..(n + 2), run[i].dialer # NoTag
               PROVE  \E j \in DOMAIN run : run[j].tag = run[i].dialer
    BY <1>8 DEF Resolved
  <2>1. i \in 1..n
    <3>1. i \in 1..n \/ i = n + 1 \/ i = n + 2
      BY <1>1
    <3>2. run[n + 1].dialer = NoTag /\ run[n + 2].dialer = NoTag
      BY <1>5, <1>8
    <3> QED BY <3>1, <3>2
  <2>2. i # n
    BY <1>9, <2>1 DEF n
  <2>3. i + 1 \in 2..n /\ i + 1 \in 1..n /\ i + 1 # 1 /\ (i + 1) - 1 = i /\ i + 1 \in 1..(n + 2)
    BY <1>1, <2>1, <2>2
  <2>4. o[p[i + 1]].tag = o[p[i]].dialer
    BY <1>10, <2>3
  <2>5. run[i + 1].tag = run[i].dialer
    BY <1>9, <2>1, <2>3, <2>4
  <2>6. i + 1 \in DOMAIN run
    BY <1>8, <2>3
  <2> QED BY <2>5, <2>6
<1>13. {run[i].id : i \in DOMAIN run} = Used(o, first) \cup {0}
  <2>1. DOMAIN run = 1..(n + 2) /\ 1..n \subseteq 1..(n + 2) /\ n + 1 \in 1..(n + 2)
    BY <1>1, <1>8
  <2>2. ASSUME NEW i \in 1..(n + 2) PROVE i \in 1..n \/ run[i].id = 0
    <3>1. i \in 1..n \/ i = n + 1 \/ i = n + 2
      BY <1>1
    <3> QED BY <1>5, <1>8, <3>1
  <2>3. run[n + 1].id = 0 /\ \A i \in 1..n : run[i].id = p[i]
    BY <1>5, <1>8, <1>9
  <2>4. \A x : x \in {run[i].id : i \in DOMAIN run} <=> x \in {p[m] : m \in 1..n} \cup {0}
    BY <2>1, <2>2, <2>3
  <2> QED BY <1>2, <1>3, <2>4
<1>14. ASSUME NEW i \in DOMAIN run, run[i].protocol # "blackhole" PROVE run[i].marked
  <2>1. i \in 1..n \/ i = n + 1 \/ i = n + 2
    <3>1. DOMAIN run = 1..(n + 2)
      BY <1>8
    <3> QED BY <1>1, <3>1
  <2> QED BY <1>5, <1>8, <1>9, <1>14, <2>1
<1>15. run[1].id = first
  BY <1>1, <1>9
<1> QED BY <1>11, <1>12, <1>13, <1>14, <1>15 DEF run

\* A provider's config of any length is refused or run with all its proxy needs
\* (find_proxy_outbound_bundle, _collect_dialer_proxy_outbounds,
\* build_tun_config, build_socks_probe_config).
THEOREM EveryConfigRuns ==
  ASSUME NEW o \in Provided, Unique(o)
  PROVE  RunsAsMeant(o)
<1> DEFINE first == First(o)
           b == Bundle(o)
           run == Runtime(b)
<1>1. b.good <=> first # 0 /\ Whole(o, first)
  <2>1. CASE first = 0
    BY <2>1 DEF Bundle, First
  <2>2. CASE first # 0
    BY <2>2, BundleIs
  <2> QED BY <2>1, <2>2
<1>2. ASSUME b.good, \A i \in Used(o, first) \ {first} : o[i].tag \notin Reserved
      PROVE  /\ run[1].id = first /\ Unique(run) /\ Resolved(run, DOMAIN run)
             /\ {run[i].id : i \in DOMAIN run} = Used(o, first) \cup {0}
             /\ \A i \in DOMAIN run : run[i].dialer = NoTag /\ run[i].protocol # "blackhole" => run[i].marked
  <2>1. first # 0
    BY <1>1, <1>2
  <2>2. b \in Bundles
    BY <2>1, BundleIs
  <2>3. PICK p : Path(o, first, p) /\ b.chain = ChainOf(o, p) /\ o[p[Len(p)]].dialer = NoTag
    BY <1>2, <2>1, BundleIs
  <2> HIDE DEF b, first
  <2> QED BY <1>2, <2>2, <2>3, RunIs
<1> HIDE DEF run, b
<1>3. RunsAsMeant(o) <=>
        /\ b.good <=> first # 0 /\ Whole(o, first)
        /\ b.good /\ (\A i \in Used(o, first) \ {first} : o[i].tag \notin Reserved) =>
             /\ run[1].id = first /\ Unique(run) /\ Resolved(run, DOMAIN run)
             /\ {run[i].id : i \in DOMAIN run} = Used(o, first) \cup {0}
             /\ \A i \in DOMAIN run : run[i].dialer = NoTag /\ run[i].protocol # "blackhole" => run[i].marked
  BY DEF RunsAsMeant, First, Whole, Used, b, run
<1> HIDE DEF first
<1> QED BY <1>1, <1>2, <1>3

LEMMA ProviderConfigsIn == ProviderConfigs \subseteq Provided
<1> DEFINE Shapes == [tag : Tags \cup {NoTag}, protocol : {"vless", "freedom"}, dialer : Tags \cup {NoTag}]
           Laid(shapes) == [i \in DOMAIN shapes |->
             [id |-> i, tag |-> shapes[i].tag, protocol |-> shapes[i].protocol,
              dialer |-> shapes[i].dialer, marked |-> FALSE]]
<1>1. SUFFICES ASSUME NEW shapes \in SeqOf(Shapes, MaxOutbounds) PROVE Laid(shapes) \in Provided
  BY DEF ProviderConfigs
<1>2. PICK m \in 0..MaxOutbounds : shapes \in [1..m -> Shapes]
  BY DEF SeqOf
<1>3. ASSUME NEW i \in 1..m
      PROVE  /\ Laid(shapes)[i] \in Outbounds /\ Laid(shapes)[i].id = i
             /\ Laid(shapes)[i].tag \in Tags \cup {NoTag}
  <2>1. shapes[i] \in Shapes /\ i \in DOMAIN shapes /\ i \in Nat
    BY <1>2
  <2> QED BY <2>1 DEF Outbounds
<1> DEFINE o == Laid(shapes)
<1>4. m \in Nat /\ o = [i \in 1..m |-> o[i]]
  BY <1>2
<1> HIDE DEF o
<1>5. o \in Seq(Outbounds) /\ Len(o) = m
  <2>1. \A i \in 1..m : o[i] \in Outbounds
    BY <1>3 DEF o
  <2> QED BY <1>4, <2>1
<1>6. \A i \in 1..m : o[i].id = i /\ o[i].tag \in Tags \cup {NoTag}
  BY <1>3 DEF o
<1>7. o \in Provided
  BY <1>5, <1>6 DEF Provided
<1> QED BY <1>7 DEF o

LEMMA EveryRunsAsMeant == AllRunAsMeant
BY ProviderConfigsIn, EveryConfigRuns DEF AllRunAsMeant

---------------------------------------------------------------------------
(* XrayText: the nodes of a payload.                                       *)

LEMMA WrittenIs ==
  ASSUME NEW p \in Payloads
  PROVE  /\ p.items \in Seq(Texts) /\ Written(p) \in Seq(Texts)
         /\ p.coding \in Codings
<1>1. p.items \in SeqOf(Items, MaxItems) /\ p.coding \in Codings
  BY DEF Payloads
<1>2. PICK n \in 0..MaxItems : p.items \in [1..n -> Items]
  BY <1>1 DEF SeqOf
<1>3. Items \subseteq Texts
  BY DEF Texts
<1> DEFINE s == p.items
<1>4. s \in [1..n -> Texts] /\ n \in Nat
  BY <1>2, <1>3
<1> HIDE DEF s
<1>5. s \in Seq(Texts)
  BY <1>4
<1>6. Written(p) \in Seq(Texts)
  BY <1>5, OnlyLines DEF Written, s
<1> QED BY <1>1, <1>5, <1>6 DEF s

\* A node is supported when it is listed.
LEMMA SupportedIs ==
  ASSUME NEW text \in Seq(Texts)
  PROVE  Supported(Only(Texts, text, Listed)) = Only(Texts, text, {"node"})
<1>1. Listed \cap (Listed \ {"placeholder"}) = {"node"}
  BY DEF Listed
<1>2. Only(Texts, Only(Texts, text, Listed), Listed \ {"placeholder"})
        = Only(Texts, text, Listed \cap (Listed \ {"placeholder"}))
  BY OnlyTwice
<1> QED BY <1>1, <1>2 DEF Supported

\* What is left of a payload not recognised.
LEMMA CodeIs ==
  ASSUME NEW text \in {<<"code">>, <<"code", "code">>}
  PROVE  Supported(Only(Texts, text, Listed)) = <<>>
<1>1. text \in Seq(Texts \ Listed)
  <2>1. "code" \in Texts \ Listed
    BY DEF Texts, Listed
  <2> DEFINE c == "code"
             A == Texts \ Listed
  <2>2. c \in A /\ (text = <<c>> \/ text = <<c, c>>)
    BY <2>1
  <2> HIDE DEF c, A
  <2>3. <<c>> \in Seq(A)
    BY <2>2
  <2>4. <<c, c>> \in Seq(A)
    BY <2>2
  <2>5. text \in Seq(A)
    BY <2>2, <2>3, <2>4
  <2> QED BY <2>5 DEF A
<1>2. Only(Texts, text, Listed) = <<>>
  BY <1>1, OnlyNone
<1>3. Only(Texts, <<>>, Listed \ {"placeholder"}) = <<>>
  BY OnlyStart
<1> QED BY <1>2, <1>3 DEF Supported

LEMMA EveryNodeFound == AllNodesFound
<1> SUFFICES ASSUME NEW p \in Payloads
             PROVE  Supported(Entries(p)) =
                      IF p.coding = "wrapped base64" THEN <<>> ELSE Only(Texts, p.items, {"node"})
  BY DEF AllNodesFound
<1> DEFINE nodes == Only(Texts, p.items, {"node"})
           written == Written(p)
<1>1. p.items \in Seq(Texts) /\ written \in Seq(Texts) /\ p.coding \in Codings
  BY WrittenIs
<1>2. Only(Texts, written, {"node"}) = nodes
  <2>1. Only(Texts, Only(Texts, p.items, Items \ {"blank"}), {"node"})
          = Only(Texts, p.items, (Items \ {"blank"}) \cap {"node"})
    BY <1>1, OnlyTwice
  <2>2. (Items \ {"blank"}) \cap {"node"} = {"node"}
    BY DEF Items
  <2> QED BY <2>1, <2>2 DEF Written
<1>3. Supported(Only(Texts, p.items, Listed)) = nodes /\ Supported(Only(Texts, written, Listed)) = nodes
  BY <1>1, <1>2, SupportedIs
<1>4. CASE p.coding \in {"list", "object"}
  <2>1. Entries(p) = Only(Texts, p.items, Listed)
    BY <1>4 DEF Entries
  <2> QED BY <1>3, <1>4, <2>1
<1>5. CASE p.coding = "lines"
  <2>1. Lines(p) = written /\ Decoded(p) = <<>>
    BY <1>5 DEF Lines, Decoded
  <2>2. Entries(p) = Only(Texts, written, Listed)
    BY <1>5, <2>1 DEF Entries
  <2> QED BY <1>3, <1>5, <2>2
<1>6. CASE p.coding = "base64"
  <2>1. Lines(p) = <<"code">> /\ Decoded(p) = written
    BY <1>6 DEF Lines, Decoded
  <2>2. Entries(p) = Only(Texts, IF written # <<>> THEN written ELSE <<"code">>, Listed)
    BY <1>6, <2>1 DEF Entries
  <2>3. CASE written # <<>>
    BY <1>3, <1>6, <2>2, <2>3
  <2>4. CASE written = <<>>
    <3>1. nodes = <<>>
      BY <1>2, <2>4, OnlyStart
    <3>2. Supported(Entries(p)) = <<>>
      BY <2>2, <2>4, CodeIs
    <3> QED BY <1>6, <3>1, <3>2
  <2> QED BY <2>3, <2>4
<1>7. CASE p.coding = "wrapped base64"
  <2>1. Lines(p) = <<"code", "code">> /\ Decoded(p) = <<>>
    BY <1>7 DEF Lines, Decoded
  <2>2. Entries(p) = Only(Texts, <<"code", "code">>, Listed)
    BY <1>7, <2>1 DEF Entries
  <2> QED BY <1>7, <2>2, CodeIs
<1> HIDE DEF nodes, written
<1> QED BY <1>1, <1>4, <1>5, <1>6, <1>7 DEF Codings, nodes

---------------------------------------------------------------------------
(* XrayText: the names of generated configs.                               *)

\* The letters that names are made of here.
Figures == <<"0", "1", "2", "3", "4", "5", "6", "7", "8", "9">>
Signs == {"s", "x", "d", "e", "-"} \cup {Figures[f] : f \in 1..10}

LEMMA LettersIs ==
  ASSUME NEW A, NEW letter \in A, NEW n \in Nat
  PROVE  /\ Letters(letter, n) \in Seq(A) /\ Len(Letters(letter, n)) = n
         /\ \A i \in 1..n : Letters(letter, n)[i] = letter
<1> DEFINE t == [i \in 1..n |-> letter]
<1>1. t \in Seq(A) /\ Len(t) = n /\ \A i \in 1..n : t[i] = letter
  OBVIOUS
<1> QED BY <1>1 DEF Letters

LEMMA CutIs ==
  ASSUME NEW A, NEW text \in Seq(A), NEW n \in Nat
  PROVE  /\ Cut(text, n) \in Seq(A)
         /\ Len(Cut(text, n)) = IF Len(text) < n THEN Len(text) ELSE n
         /\ \A i \in 1..Len(Cut(text, n)) : Cut(text, n)[i] = text[i]
         /\ Len(text) <= n => Cut(text, n) = text
<1> DEFINE m == IF Len(text) < n THEN Len(text) ELSE n
<1>1. m \in 0..Len(text) /\ Cut(text, n) = SubSeq(text, 1, m) /\ Len(text) \in Nat
  BY DEF Cut
<1> HIDE DEF m
<1>2. SubSeq(text, 1, m) \in Seq(A) /\ Len(SubSeq(text, 1, m)) = m /\ \A i \in 1..m : SubSeq(text, 1, m)[i] = text[i]
  BY <1>1
<1>3. Len(text) <= n => SubSeq(text, 1, m) = text
  <2>1. Len(text) <= n => m = Len(text)
    BY <1>1 DEF m
  <2> QED BY <1>1, <1>2, <2>1, SeqEqual
<1> QED BY <1>1, <1>2, <1>3 DEF m

Figure(d) == Figures[(d % 10) + 1]
Places == 1..999

LEMMA FigureIs ==
  ASSUME NEW d \in Nat, NEW e \in Nat
  PROVE  Figure(d) \in Signs \ {"-"} /\ (Figure(d) = Figure(e) => d % 10 = e % 10)
<1>1. d % 10 \in 0..9 /\ e % 10 \in 0..9
  OBVIOUS
<1>2. \A a \in 0..9 : Figures[a + 1] # "-"
  BY DEF Figures
<1>3. \A a \in 0..9 : Figures[a + 1] \in Signs
  BY DEF Signs
<1>4. \A a, b \in 0..9 : Figures[a + 1] = Figures[b + 1] => a = b
  BY DEF Figures
<1> QED BY <1>1, <1>2, <1>3, <1>4 DEF Figure

LEMMA TenTimes ==
  ASSUME NEW n \in Nat
  PROVE  /\ n = (10 * (n \div 10)) + (n % 10) /\ n \div 10 \in Nat /\ n % 10 \in 0..9
         /\ n \div 100 = (n \div 10) \div 10 /\ n \div 100 \in Nat
         /\ n < 1000 => n \div 100 \in 0..9
         /\ n < 10 => n % 10 = n
OBVIOUS

LEMMA SameFigures ==
  ASSUME NEW i \in Places, NEW j \in Places,
         i % 10 = j % 10, (i \div 10) % 10 = (j \div 10) % 10, (i \div 100) % 10 = (j \div 100) % 10
  PROVE  i = j
<1> DEFINE a == i \div 10
           b == j \div 10
           c == i \div 100
           d == j \div 100
<1> i \in Nat /\ i < 1000 /\ j \in Nat /\ j < 1000
  BY DEF Places
<1>1. a \in Nat /\ i = (10 * a) + (i % 10) /\ c = a \div 10 /\ c \in 0..9 /\ c \in Nat
  BY TenTimes
<1>2. b \in Nat /\ j = (10 * b) + (j % 10) /\ d = b \div 10 /\ d \in 0..9 /\ d \in Nat
  BY TenTimes
<1>3. a % 10 = b % 10 /\ c % 10 = d % 10
  OBVIOUS
<1> HIDE DEF a, b, c, d
<1>4. c % 10 = c /\ d % 10 = d
  BY <1>1, <1>2, TenTimes
<1>5. a = (10 * c) + (a % 10)
  BY <1>1, TenTimes
<1>6. b = (10 * d) + (b % 10)
  BY <1>2, TenTimes
<1> QED BY <1>1, <1>2, <1>3, <1>4, <1>5, <1>6

LEMMA JoinIs ==
  ASSUME NEW A, NEW s \in Seq(A), NEW t \in Seq(A)
  PROVE  /\ s \o t \in Seq(A) /\ Len(s \o t) = Len(s) + Len(t)
         /\ \A i \in 1..Len(s) : (s \o t)[i] = s[i]
         /\ \A i \in 1..Len(t) : (s \o t)[Len(s) + i] = t[i]
OBVIOUS

Ones(i) == Figure(i)
Tens(i) == Figure(i \div 10)
Hundreds(i) == Figure(i \div 100)

LEMMA FiguresAre ==
  ASSUME NEW i \in Places
  PROVE  Ones(i) \in Signs \ {"-"} /\ Tens(i) \in Signs \ {"-"} /\ Hundreds(i) \in Signs \ {"-"}
<1>1. i \in Nat /\ i \div 10 \in Nat /\ i \div 100 \in Nat
  BY TenTimes DEF Places
<1> QED BY <1>1, FigureIs DEF Ones, Tens, Hundreds

LEMMA DigitsMade ==
  ASSUME NEW i \in Places
  PROVE  Digits(i) = (IF i >= 100 THEN <<Hundreds(i)>> ELSE <<>>) \o <<Tens(i), Ones(i)>>
BY DEF Digits, Figure, Figures, Ones, Tens, Hundreds

LEMMA FiguresTell ==
  ASSUME NEW i \in Places, NEW j \in Places, Ones(i) = Ones(j), Tens(i) = Tens(j)
  PROVE  /\ Hundreds(i) = Hundreds(j) => i = j
         /\ i < 100 /\ j < 100 => i = j
<1>1. /\ i \in Nat /\ i \div 10 \in Nat /\ i \div 100 \in Nat
      /\ j \in Nat /\ j \div 10 \in Nat /\ j \div 100 \in Nat
  BY TenTimes DEF Places
<1>2. i % 10 = j % 10
  BY <1>1, FigureIs DEF Ones
<1>3. (i \div 10) % 10 = (j \div 10) % 10
  BY <1>1, FigureIs DEF Tens
<1>4. Hundreds(i) = Hundreds(j) => (i \div 100) % 10 = (j \div 100) % 10
  BY <1>1, FigureIs DEF Hundreds
<1>5. i < 100 /\ j < 100 => (i \div 100) % 10 = (j \div 100) % 10
  <2> SUFFICES ASSUME i < 100, j < 100 PROVE (i \div 100) % 10 = (j \div 100) % 10
    OBVIOUS
  <2>1. i \div 100 = 0 /\ j \div 100 = 0
    <3>1. \A n \in Nat : n < 100 => n \div 100 = 0
      OBVIOUS
    <3>2. i \in Nat /\ j \in Nat
      BY DEF Places
    <3> QED BY <3>1, <3>2
  <2> QED BY <2>1
<1>6. (i \div 100) % 10 = (j \div 100) % 10 => i = j
  BY <1>2, <1>3, SameFigures
<1> QED BY <1>4, <1>5, <1>6

LEMMA DigitsAre ==
  ASSUME NEW i \in Places
  PROVE  /\ Digits(i) \in Seq(Signs)
         /\ i < 100 => Len(Digits(i)) = 2 /\ Digits(i)[1] = Tens(i) /\ Digits(i)[2] = Ones(i)
         /\ i >= 100 => /\ Len(Digits(i)) = 3 /\ Digits(i)[1] = Hundreds(i)
                        /\ Digits(i)[2] = Tens(i) /\ Digits(i)[3] = Ones(i)
<1> DEFINE a == Hundreds(i)
           b == Tens(i)
           c == Ones(i)
           r == <<b, c>>
           h == IF i >= 100 THEN <<a>> ELSE <<>>
           d == Digits(i)
<1>1. a \in Signs /\ b \in Signs /\ c \in Signs /\ d = h \o r
  <2>1. Digits(i) = (IF i >= 100 THEN <<Hundreds(i)>> ELSE <<>>) \o <<Tens(i), Ones(i)>>
    BY DigitsMade
  <2> QED BY <2>1, FiguresAre
<1> HIDE DEF a, b, c, d
<1>2. r \in Seq(Signs) /\ Len(r) = 2 /\ r[1] = b /\ r[2] = c
  BY <1>1
<1>3. /\ h \in Seq(Signs)
      /\ i >= 100 => Len(h) = 1 /\ h[1] = a
      /\ i < 100 => Len(h) = 0
  <2>1. i \in Nat
    BY DEF Places
  <2>2. <<a>> \in Seq(Signs) /\ Len(<<a>>) = 1 /\ <<a>>[1] = a
    BY <1>1
  <2>3. <<>> \in Seq(Signs) /\ Len(<<>>) = 0
    OBVIOUS
  <2>4. CASE i >= 100
    <3>1. h = <<a>>
      BY <2>4
    <3> QED BY <2>1, <2>2, <2>4, <3>1
  <2>5. CASE i < 100
    <3>1. h = <<>>
      BY <2>1, <2>5
    <3> QED BY <2>1, <2>3, <2>5, <3>1
  <2> QED BY <2>1, <2>4, <2>5
<1> HIDE DEF r, h
<1>4. /\ d \in Seq(Signs) /\ Len(d) = Len(h) + Len(r)
      /\ \A k \in 1..Len(h) : d[k] = h[k]
      /\ \A k \in 1..Len(r) : d[Len(h) + k] = r[k]
  <2>1. h \in Seq(Signs) /\ r \in Seq(Signs)
    BY <1>2, <1>3
  <2>2. /\ h \o r \in Seq(Signs) /\ Len(h \o r) = Len(h) + Len(r)
        /\ \A k \in 1..Len(h) : (h \o r)[k] = h[k]
        /\ \A k \in 1..Len(r) : (h \o r)[Len(h) + k] = r[k]
    BY <2>1, JoinIs
  <2> QED BY <1>1, <2>2
<1>5. d[Len(h) + 1] = b /\ d[Len(h) + 2] = c
  BY <1>2, <1>4
<1>6. CASE i < 100
  <2>1. Len(h) = 0
    BY <1>3, <1>6 DEF Places
  <2>2. d \in Seq(Signs) /\ Len(d) = 2 /\ d[1] = b /\ d[2] = c
    BY <1>2, <1>4, <1>5, <2>1
  <2>3. ~(i >= 100)
    BY <1>6 DEF Places
  <2> QED BY <2>2, <2>3 DEF b, c, d
<1>7. CASE i >= 100
  <2>1. Len(h) = 1 /\ 1 \in 1..Len(h) /\ h[1] = a
    BY <1>3, <1>7
  <2>2. d[1] = a
    BY <1>4, <2>1
  <2>3. d \in Seq(Signs) /\ Len(d) = 3 /\ d[1] = a /\ d[2] = b /\ d[3] = c
    BY <1>2, <1>4, <1>5, <2>1, <2>2
  <2>4. ~(i < 100)
    BY <1>7 DEF Places
  <2> QED BY <2>3, <2>4 DEF a, b, c, d
<1> QED BY <1>6, <1>7 DEF Places

\* The beginning of a name, with which the place in the payload comes.
Prefix(length, i) == Letters("s", length) \o <<"-">> \o Digits(i) \o <<"-">>

LEMMA PrefixIs ==
  ASSUME NEW length \in Nat, NEW i \in Places
  PROVE  /\ Prefix(length, i) \in Seq(Signs) /\ Len(Digits(i)) \in {2, 3}
         /\ Len(Prefix(length, i)) = length + 2 + Len(Digits(i))
         /\ \A k \in 1..Len(Digits(i)) : Prefix(length, i)[length + 1 + k] = Digits(i)[k]
         /\ Prefix(length, i)[length + 2 + Len(Digits(i))] = "-"
<1> DEFINE dash == "-"
           d == Digits(i)
           s == Letters("s", length)
           t == s \o <<dash>>
           u == t \o d
           v == u \o <<dash>>
<1>1. dash \in Signs /\ "s" \in Signs
  BY DEF Signs
<1>2. s \in Seq(Signs) /\ Len(s) = length
  BY <1>1, LettersIs
<1>3. d \in Seq(Signs) /\ Len(d) \in {2, 3}
  <2>1. d \in Seq(Signs) /\ (i < 100 => Len(d) = 2) /\ (i >= 100 => Len(d) = 3)
    BY DigitsAre
  <2> HIDE DEF d
  <2> QED BY <2>1 DEF Places
<1>4. Prefix(length, i) = v
  BY DEF Prefix
<1> HIDE DEF dash, s, d
<1>5. <<dash>> \in Seq(Signs) /\ Len(<<dash>>) = 1 /\ <<dash>>[1] = dash
  BY <1>1
<1>6. t \in Seq(Signs) /\ Len(t) = length + 1
  BY <1>2, <1>5, JoinIs
<1> HIDE DEF t
<1>7. u \in Seq(Signs) /\ Len(u) = length + 1 + Len(d) /\ \A k \in 1..Len(d) : u[length + 1 + k] = d[k]
  <2>1. /\ t \o d \in Seq(Signs) /\ Len(t \o d) = Len(t) + Len(d)
        /\ \A k \in 1..Len(t) : (t \o d)[k] = t[k]
        /\ \A k \in 1..Len(d) : (t \o d)[Len(t) + k] = d[k]
    <3>1. t \in Seq(Signs) /\ d \in Seq(Signs)
      BY <1>3, <1>6
    <3> QED BY <3>1, JoinIs
  <2>2. u = t \o d
    OBVIOUS
  <2> HIDE DEF u
  <2> QED BY <1>6, <2>1, <2>2
<1> HIDE DEF u
<1>8. v \in Seq(Signs) /\ Len(v) = Len(u) + 1 /\ (\A k \in 1..Len(u) : v[k] = u[k]) /\ v[Len(u) + 1] = dash
  BY <1>5, <1>7, JoinIs
<1> HIDE DEF v
<1>9. \A k \in 1..Len(d) : length + 1 + k \in 1..Len(u)
  BY <1>3, <1>7
<1>10. Len(v) = length + 2 + Len(d) /\ v[length + 2 + Len(d)] = dash
  BY <1>3, <1>7, <1>8
<1>11. \A k \in 1..Len(d) : v[length + 1 + k] = d[k]
  BY <1>7, <1>8, <1>9
<1> QED BY <1>3, <1>4, <1>8, <1>10, <1>11 DEF d, dash

\* Three signs are enough to tell it.
LEMMA PrefixTells ==
  ASSUME NEW length \in Nat, NEW i \in Places, NEW j \in Places,
         \A k \in 1..3 : Prefix(length, i)[length + 1 + k] = Prefix(length, j)[length + 1 + k]
  PROVE  i = j
<1> DEFINE At(n, k) == Prefix(length, n)[length + 1 + k]
<1>1. ASSUME NEW n \in Places
      PROVE  /\ n < 100 => At(n, 1) = Tens(n) /\ At(n, 2) = Ones(n) /\ At(n, 3) = "-"
             /\ n >= 100 => At(n, 1) = Hundreds(n) /\ At(n, 2) = Tens(n) /\ At(n, 3) = Ones(n)
  <2> DEFINE d == Digits(n)
             v == Prefix(length, n)
  <2>1. (\A k \in 1..Len(d) : v[length + 1 + k] = d[k]) /\ v[length + 2 + Len(d)] = "-"
    <3>1. \A k \in 1..Len(Digits(n)) : Prefix(length, n)[length + 1 + k] = Digits(n)[k]
      BY PrefixIs
    <3>2. Prefix(length, n)[length + 2 + Len(Digits(n))] = "-"
      BY PrefixIs
    <3> QED BY <3>1, <3>2
  <2>2. /\ n < 100 => Len(d) = 2 /\ d[1] = Tens(n) /\ d[2] = Ones(n)
        /\ n >= 100 => Len(d) = 3 /\ d[1] = Hundreds(n) /\ d[2] = Tens(n) /\ d[3] = Ones(n)
    BY DigitsAre
  <2> HIDE DEF d, v
  <2>3. CASE n < 100
    <3>1. Len(d) = 2 /\ length + 2 + 2 = length + 1 + 3
      BY <2>2, <2>3
    <3>2. v[length + 1 + 1] = d[1] /\ v[length + 1 + 2] = d[2] /\ v[length + 1 + 3] = "-"
      BY <2>1, <3>1
    <3> QED BY <2>2, <2>3, <3>2 DEF v
  <2>4. CASE n >= 100
    <3>1. Len(d) = 3
      BY <2>2, <2>4
    <3>2. v[length + 1 + 1] = d[1] /\ v[length + 1 + 2] = d[2] /\ v[length + 1 + 3] = d[3]
      BY <2>1, <3>1
    <3> QED BY <2>2, <2>4, <3>2 DEF v
  <2> QED BY <2>3, <2>4 DEF Places
<1>2. At(i, 1) = At(j, 1) /\ At(i, 2) = At(j, 2) /\ At(i, 3) = At(j, 3)
  OBVIOUS
<1> HIDE DEF At
<1>3. \A n \in Places : Ones(n) # "-"
  BY FiguresAre
<1>4. CASE i < 100 /\ j < 100
  <2>1. Tens(i) = Tens(j) /\ Ones(i) = Ones(j)
    BY <1>1, <1>2, <1>4
  <2> QED BY <1>4, <2>1, FiguresTell
<1>5. CASE i >= 100 /\ j >= 100
  <2>1. Hundreds(i) = Hundreds(j) /\ Tens(i) = Tens(j) /\ Ones(i) = Ones(j)
    BY <1>1, <1>2, <1>5
  <2> QED BY <2>1, FiguresTell
<1>6. CASE i < 100 /\ j >= 100
  BY <1>1, <1>2, <1>3, <1>6
<1>7. CASE i >= 100 /\ j < 100
  BY <1>1, <1>2, <1>3, <1>7
<1> QED BY <1>4, <1>5, <1>6, <1>7 DEF Places

LEMMA SuffixIs ==
  ASSUME NEW A, NEW s \in Seq(A), NEW t \in Seq(A)
  PROVE  IsSuffix(s, t \o s)
<1> DEFINE u == t \o s
           a == Reverse(s)
           b == Reverse(u)
           n == Len(s)
<1>1. u \in Seq(A) /\ Len(u) = Len(t) + n /\ \A i \in 1..n : u[Len(t) + i] = s[i]
  BY JoinIs
<1>2. n \in Nat /\ Len(t) \in Nat /\ Len(u) \in Nat
  BY <1>1
<1> HIDE DEF u
<1>3. a \in Seq(A) /\ Len(a) = n /\ \A i \in 1..n : a[i] = s[(n - i) + 1]
  <2>1. \A i \in 1..n : s[(n - i) + 1] \in A
    BY <1>2
  <2> HIDE DEF n
  <2>2. a = [i \in 1..n |-> s[(n - i) + 1]]
    BY DEF Reverse, n
  <2> QED BY <1>2, <2>1, <2>2
<1>4. b \in Seq(A) /\ Len(b) = Len(u) /\ \A i \in 1..Len(u) : b[i] = u[(Len(u) - i) + 1]
  <2> DEFINE m == Len(u)
  <2>1. \A i \in 1..m : u[(m - i) + 1] \in A
    BY <1>1, <1>2
  <2>2. b = [i \in 1..m |-> u[(m - i) + 1]] /\ m \in Nat
    BY <1>2 DEF Reverse
  <2> HIDE DEF m, b
  <2>3. b \in Seq(A) /\ Len(b) = m /\ \A i \in 1..m : b[i] = u[(m - i) + 1]
    BY <2>1, <2>2
  <2> QED BY <2>3 DEF m
<1> HIDE DEF a, b
<1>5. ASSUME NEW i \in 1..n PROVE a[i] = b[i]
  <2>1. i \in 1..Len(u) /\ (n - i) + 1 \in 1..n /\ (Len(u) - i) + 1 = Len(t) + ((n - i) + 1)
    BY <1>1, <1>2
  <2>2. b[i] = s[(n - i) + 1]
    BY <1>1, <1>4, <2>1
  <2> QED BY <1>3, <2>2
<1> DEFINE c == SubSeq(a, 1, n)
           d == SubSeq(b, 1, n)
<1>6. c \in Seq(A) /\ Len(c) = n /\ \A i \in 1..n : c[i] = a[i]
  BY <1>2, <1>3
<1>7. d \in Seq(A) /\ Len(d) = n /\ \A i \in 1..n : d[i] = b[i]
  BY <1>1, <1>2, <1>4
<1> HIDE DEF c, d
<1>8. c = d
  BY <1>5, <1>6, <1>7, SeqEqual
<1>9. IsPrefix(a, b)
  BY <1>1, <1>2, <1>3, <1>4, <1>8 DEF IsPrefix, c, d
<1> QED BY <1>9 DEF IsSuffix, a, b, u

\* A name keeps its beginning, and if there is room for it its digest.
LEMMA NameIs ==
  ASSUME NEW length \in 1..60, NEW i \in Places, NEW n \in Nat, NEW digest \in Signs
  PROVE  LET name == StableName(Letters("s", length), i, Letters("x", n), digest)
         IN  /\ \A k \in 1..3 : name[length + 1 + k] = Prefix(length, i)[length + 1 + k]
             /\ length <= 44 => IsSuffix(Letters(digest, 6), name)
<1> DEFINE dash == "-"
           v == Prefix(length, i)
           room == Largest(8, 64 - Len(v) - 1 - 6)
           slug == Letters("x", n)
           x == Cut(slug, room)
           y == v \o x
           z == y \o <<dash>>
           e == Letters(digest, 6)
           w == z \o e
           name == StableName(Letters("s", length), i, slug, digest)
<1>1. dash \in Signs /\ "x" \in Signs
  BY DEF Signs
<1>2. name = Cut(w, 64)
  BY DEF StableName, Prefix
<1> HIDE DEF name, dash
<1>3. v \in Seq(Signs) /\ Len(v) \in Nat /\ length + 4 <= Len(v) /\ Len(v) <= length + 5
  <2>1. length \in Nat
    OBVIOUS
  <2>2. v \in Seq(Signs)
    BY <2>1, PrefixIs
  <2>3. Len(Digits(i)) \in {2, 3} /\ Len(v) = length + 2 + Len(Digits(i))
    BY <2>1, PrefixIs
  <2> DEFINE l == Len(Digits(i))
  <2> HIDE DEF v, l
  <2>4. Len(v) \in Nat
    BY <2>2
  <2>5. l \in {2, 3} /\ Len(v) = length + 2 + l
    BY <2>3 DEF l
  <2> QED BY <2>1, <2>2, <2>4, <2>5
<1> HIDE DEF v
<1>4. room \in Nat /\ (length <= 44 => room = 57 - Len(v))
  BY <1>3 DEF Largest
<1> HIDE DEF room
<1>5. slug \in Seq(Signs) /\ Len(slug) = n
  BY <1>1, LettersIs
<1> HIDE DEF slug
<1>6. x \in Seq(Signs) /\ Len(x) \in Nat /\ Len(x) <= room
  <2>1. x \in Seq(Signs) /\ Len(x) = IF Len(slug) < room THEN Len(slug) ELSE room
    BY <1>4, <1>5, CutIs
  <2> HIDE DEF x
  <2> QED BY <1>4, <1>5, <2>1
<1> HIDE DEF x
<1>7. y \in Seq(Signs) /\ Len(y) = Len(v) + Len(x) /\ \A k \in 1..Len(v) : y[k] = v[k]
  BY <1>3, <1>6, JoinIs
<1> HIDE DEF y
<1>8. z \in Seq(Signs) /\ Len(z) = Len(y) + 1 /\ \A k \in 1..Len(y) : z[k] = y[k]
  <2>1. <<dash>> \in Seq(Signs) /\ Len(<<dash>>) = 1
    BY <1>1
  <2> QED BY <1>7, <2>1, JoinIs
<1> HIDE DEF z
<1>9. e \in Seq(Signs) /\ Len(e) = 6
  <2> DEFINE six == 6
  <2>1. six \in Nat
    OBVIOUS
  <2> HIDE DEF six
  <2>2. Letters(digest, six) \in Seq(Signs) /\ Len(Letters(digest, six)) = six
    BY <2>1, LettersIs
  <2> QED BY <2>2 DEF six
<1> HIDE DEF e
<1>10. w \in Seq(Signs) /\ Len(w) = Len(z) + 6 /\ \A k \in 1..Len(z) : w[k] = z[k]
  <2>1. z \o e \in Seq(Signs) /\ Len(z \o e) = Len(z) + Len(e) /\ \A k \in 1..Len(z) : (z \o e)[k] = z[k]
    <3>1. z \in Seq(Signs) /\ e \in Seq(Signs)
      BY <1>8, <1>9
    <3> QED BY <3>1, JoinIs
  <2> QED BY <1>9, <2>1
<1>11. length <= 44 => IsSuffix(e, w)
  BY <1>8, <1>9, SuffixIs
<1> HIDE DEF w
<1>12. Len(w) = Len(v) + Len(x) + 7 /\ \A k \in 1..Len(v) : w[k] = v[k]
  <2>1. Len(w) = Len(v) + Len(x) + 7
    BY <1>3, <1>6, <1>7, <1>8, <1>10
  <2>2. ASSUME NEW k \in 1..Len(v) PROVE w[k] = v[k]
    <3>1. k \in 1..Len(y) /\ k \in 1..Len(z)
      BY <1>3, <1>6, <1>7, <1>8
    <3> QED BY <1>7, <1>8, <1>10, <3>1
  <2> QED BY <2>1, <2>2
<1>13. /\ Len(name) = IF Len(w) < 64 THEN Len(w) ELSE 64
       /\ \A k \in 1..Len(name) : name[k] = w[k]
       /\ Len(w) <= 64 => name = w
  <2>1. /\ Len(Cut(w, 64)) = IF Len(w) < 64 THEN Len(w) ELSE 64
        /\ \A k \in 1..Len(Cut(w, 64)) : Cut(w, 64)[k] = w[k]
        /\ Len(w) <= 64 => Cut(w, 64) = w
    <3> DEFINE most == 64
    <3>1. w \in Seq(Signs) /\ most \in Nat
      BY <1>10
    <3> HIDE DEF most
    <3>2. /\ Len(Cut(w, most)) = IF Len(w) < most THEN Len(w) ELSE most
          /\ \A k \in 1..Len(Cut(w, most)) : Cut(w, most)[k] = w[k]
          /\ Len(w) <= most => Cut(w, most) = w
      BY <3>1, CutIs
    <3> QED BY <3>2 DEF most
  <2> QED BY <1>2, <2>1
<1>14. ASSUME NEW k \in 1..3 PROVE name[length + 1 + k] = v[length + 1 + k]
  <2>1. length + 1 + k \in 1..Len(v) /\ length + 1 + k \in 1..Len(name)
    BY <1>3, <1>6, <1>12, <1>13
  <2> QED BY <1>12, <1>13, <2>1
<1>15. length <= 44 => IsSuffix(e, name)
  <2>1. length <= 44 => Len(w) <= 64
    BY <1>3, <1>4, <1>6, <1>12
  <2> QED BY <1>11, <1>13, <2>1
<1> QED BY <1>14, <1>15 DEF name, v, e, slug

\* The name that stable_config_name gives a node tells its place in the payload,
\* whatever the texts of the node and of the one it is compared with, for every
\* name of a subscription with up to 60 letters.
THEOREM NameTellsPlace ==
  ASSUME NEW length \in 1..60, NEW i \in Places, NEW j \in Places, NEW n \in Nat, NEW m \in Nat,
         NEW digest \in Signs, NEW other \in Signs,
         StableName(Letters("s", length), i, Letters("x", n), digest)
           = StableName(Letters("s", length), j, Letters("x", m), other)
  PROVE  i = j
<1> DEFINE name == StableName(Letters("s", length), i, Letters("x", n), digest)
           same == StableName(Letters("s", length), j, Letters("x", m), other)
<1>1. \A k \in 1..3 : name[length + 1 + k] = Prefix(length, i)[length + 1 + k]
  BY NameIs
<1>2. \A k \in 1..3 : same[length + 1 + k] = Prefix(length, j)[length + 1 + k]
  BY NameIs
<1>3. name = same /\ length \in Nat
  OBVIOUS
<1> HIDE DEF name, same
<1> QED BY <1>1, <1>2, <1>3, PrefixTells

LEMMA EveryNameApart == AllNamesApart
<1>1. \A n \in {1, 8, 32} : n \in Nat
  OBVIOUS
<1>0. "d" \in Signs /\ "e" \in Signs
  BY DEF Signs
<1>2. ASSUME NEW length \in 1..60, NEW i \in Places, NEW j \in Places,
             NEW name \in NamesAt(length, i, {"d", "e"}) \cap NamesAt(length, j, {"d", "e"})
      PROVE  i = j
  <2>1. PICK n \in Nat, digest \in Signs : name = StableName(Letters("s", length), i, Letters("x", n), digest)
    BY <1>1, <1>0 DEF NamesAt
  <2>2. PICK m \in Nat, other \in Signs : name = StableName(Letters("s", length), j, Letters("x", m), other)
    BY <1>1, <1>0 DEF NamesAt
  <2> QED BY <2>1, <2>2, NameTellsPlace
<1>3. ASSUME NEW length \in 1..44, NEW i \in Places, NEW name \in NamesAt(length, i, {"d"})
      PROVE  IsSuffix(Letters("d", 6), name)
  <2>1. PICK n \in Nat : name = StableName(Letters("s", length), i, Letters("x", n), "d")
    BY <1>1, <1>0 DEF NamesAt
  <2>2. length \in 1..60 /\ length <= 44
    OBVIOUS
  <2> QED BY <1>0, <2>1, <2>2, NameIs
<1>4. \A i \in {1, 9, 10, 11, 99, 100, 101, 999} : i \in Places
  BY DEF Places
<1>6. \A length \in 1..60 : \A i, j \in {1, 9, 10, 11, 99, 100, 101, 999} :
        i # j => NamesAt(length, i, {"d", "e"}) \cap NamesAt(length, j, {"d", "e"}) = {}
  <2> SUFFICES ASSUME NEW length \in 1..60, NEW i \in {1, 9, 10, 11, 99, 100, 101, 999},
                      NEW j \in {1, 9, 10, 11, 99, 100, 101, 999}, i # j
               PROVE  NamesAt(length, i, {"d", "e"}) \cap NamesAt(length, j, {"d", "e"}) = {}
    OBVIOUS
  <2>1. i \in Places /\ j \in Places
    BY <1>4
  <2> QED BY <1>2, <2>1
<1>7. \A length \in 1..44 : \A i \in {1, 99, 100, 999} : \A name \in NamesAt(length, i, {"d"}) :
        IsSuffix(Letters("d", 6), name)
  <2> SUFFICES ASSUME NEW length \in 1..44, NEW i \in {1, 99, 100, 999}, NEW name \in NamesAt(length, i, {"d"})
               PROVE  IsSuffix(Letters("d", 6), name)
    OBVIOUS
  <2>1. i \in Places
    BY DEF Places
  <2> QED BY <1>3, <2>1
<1> QED BY <1>6, <1>7 DEF AllNamesApart

\* However its inputs grow: every provider's config is run with what its proxy
\* needs of it, or refused (find_proxy_outbound_bundle,
\* _collect_dialer_proxy_outbounds, build_tun_config); of every payload the
\* usable nodes are found (parse_subscription_payload,
\* _supported_subscription_entries); and no node overwrites another's config
\* (stable_config_name).
THEOREM TextsExact == XraySpec => []XrayTextExact
<1>1. XrayTextExact
  BY EveryRunsAsMeant, EveryNodeFound, EveryNameApart DEF XrayTextExact
<1>2. QED
  BY <1>1, PTL

---------------------------------------------------------------------------
(* UdpAssociate.                                                           *)

LEMMA InitTyped == Init => TypeOK
<1> SUFFICES ASSUME Init PROVE TypeOK
  OBVIOUS
<1>1. {control, done, activity, controlDone} \subseteq BOOLEAN
  BY DEF Init
<1>2. {clientAddrCh, clientAddr, replyAddr, stored, datagrams, replies} \subseteq Nat
  BY DEF Init
<1> QED
  BY <1>1, <1>2 DEF Init, TypeOK

LEMMA HandlerTyped ==
  ASSUME TypeOK, Main \/ ReaderEnds \/ TimerFires \/ ClientCloses PROVE TypeOK'
BY DEF TypeOK, relays, Main, StartFails, Start, ControlEnds, Active, Expires, IdleReturns, Return,
       ReaderEnds, TimerFires, ClientCloses

LEMMA UpTyped == ASSUME TypeOK, UpRuns \/ UpReads \/ UpFails PROVE TypeOK'
<1>1. CASE UpReads
  BY <1>1 DEF TypeOK, UpReads, UpFrame
<1>2. CASE UpFails \/ UpStops \/ UpSignals
  BY <1>2 DEF TypeOK, UpFails, UpStops, UpSignals, UpFrame
<1>3. CASE Offer
  BY <1>3 DEF TypeOK, Offer, UpFrame
<1>4. CASE Drain \/ Put
  BY <1>4 DEF TypeOK, Drain, Put, UpFrame
<1> QED
  BY <1>1, <1>2, <1>3, <1>4 DEF UpRuns

LEMMA DownTyped ==
  ASSUME TypeOK, DownRuns \/ DownTimesOut \/ DownReads \/ DownFails PROVE TypeOK'
<1>1. CASE DownStops \/ DownFails
  BY <1>1 DEF TypeOK, DownStops, DownFails, DownFrame
<1>2. CASE DownReads
  BY <1>2 DEF TypeOK, DownReads, DownFrame
<1>3. CASE DownSignals
  <2>1. {control', done', activity', controlDone'} \subseteq BOOLEAN
    BY <1>3 DEF TypeOK, DownSignals, DownFrame
  <2> QED
    BY <1>3, <2>1 DEF TypeOK, DownSignals, DownFrame
<1>4. CASE DownLearns \/ DownTimesOut \/ Deliver
  BY <1>4 DEF TypeOK, DownLearns, DownTimesOut, Deliver, TakeAddr, TakeAddrIfAny, DownFrame
<1> QED
  BY <1>1, <1>2, <1>3, <1>4 DEF DownRuns

LEMMA NextTyped == TypeOK /\ [Next]_vars => TypeOK'
<1>1. ASSUME TypeOK, UNCHANGED vars PROVE TypeOK'
  BY <1>1 DEF TypeOK, vars, relays
<1> QED
  BY <1>1, HandlerTyped, UpTyped, DownTyped DEF Next, World

(* An association stays well formed, whatever client and tunnel do         *)
(* (main.go:212-355).                                                      *)
THEOREM AssociationTyped == Spec => []TypeOK
<1> QED
  BY InitTyped, NextTyped, PTL DEF Spec

---------------------------------------------------------------------------
\* What is in the channel is the last address stored.
Newest == clientAddrCh # 0 => clientAddrCh = stored

NotYet == main = "start" => up = "none"

AddressInv == Newest /\ NotYet /\ PutReady /\ AddressKept

LEMMA InitKept == Init => AddressInv
BY DEF Init, AddressInv, Newest, NotYet, PutReady, AddressKept

\* The handler does not touch the channel; it starts the relay when it starts.
LEMMA HandlerKeeps ==
  ASSUME AddressInv, Main \/ ReaderEnds \/ TimerFires \/ ClientCloses PROVE AddressInv'
<1>1. clientAddrCh' = clientAddrCh /\ stored' = stored /\ replyAddr' = replyAddr
  BY DEF relays, Main, StartFails, Start, ControlEnds, Active, Expires, IdleReturns, Return,
         ReaderEnds, TimerFires, ClientCloses
<1>2. /\ main' = "start" => main = "start"
      /\ up' = up \/ (main = "start" /\ up' = "read" /\ main' = "select")
  BY DEF relays, Main, StartFails, Start, ControlEnds, Active, Expires, IdleReturns, Return,
         ReaderEnds, TimerFires, ClientCloses
<1> QED
  BY <1>1, <1>2 DEF AddressInv, Newest, NotYet, PutReady, AddressKept

LEMMA UpKeeps == ASSUME AddressInv, UpRuns \/ UpReads \/ UpFails PROVE AddressInv'
<1>1. main' = main /\ replyAddr' = replyAddr /\ up # "none"
  BY DEF UpRuns, UpReads, UpFails, UpStops, UpSignals, Offer, Drain, Put, UpFrame
<1>2. CASE UpReads \/ UpFails \/ UpStops \/ UpSignals
  <2>1. /\ clientAddrCh' = clientAddrCh /\ stored' = stored
        /\ up # "put" /\ up' # "put"
    BY <1>2 DEF UpReads, UpFails, UpStops, UpSignals
  <2> QED
    BY <1>1, <2>1 DEF AddressInv, Newest, NotYet, PutReady, AddressKept
<1>3. CASE Offer
  BY <1>1, <1>3 DEF AddressInv, Newest, NotYet, PutReady, AddressKept, Offer
<1>4. CASE Drain
  BY <1>1, <1>4 DEF AddressInv, Newest, NotYet, PutReady, AddressKept, Drain
<1>5. CASE Put
  BY <1>1, <1>5 DEF AddressInv, Newest, NotYet, PutReady, AddressKept, Put
<1> QED
  BY <1>2, <1>3, <1>4, <1>5 DEF UpRuns

\* The other relay takes an address or leaves the channel alone.
LEMMA DownKeeps ==
  ASSUME AddressInv, DownRuns \/ DownTimesOut \/ DownReads \/ DownFails PROVE AddressInv'
<1>1. main' = main /\ up' = up /\ stored' = stored
  BY DEF DownRuns, DownTimesOut, DownReads, DownFails, DownStops, DownLearns, DownSignals, Deliver,
         DownFrame
<1>2. TakeAddr \/ (clientAddrCh' = clientAddrCh /\ replyAddr' = replyAddr)
  BY DEF DownRuns, DownTimesOut, DownReads, DownFails, DownStops, DownLearns, DownSignals, Deliver,
         TakeAddrIfAny
<1>3. CASE TakeAddr
  BY <1>1, <1>3 DEF AddressInv, Newest, NotYet, PutReady, AddressKept, TakeAddr
<1>4. CASE clientAddrCh' = clientAddrCh /\ replyAddr' = replyAddr
  BY <1>1, <1>4 DEF AddressInv, Newest, NotYet, PutReady, AddressKept
<1> QED
  BY <1>2, <1>3, <1>4

LEMMA NextKept == AddressInv /\ [Next]_vars => AddressInv'
<1>1. ASSUME AddressInv, UNCHANGED vars PROVE AddressInv'
  BY <1>1 DEF AddressInv, Newest, NotYet, PutReady, AddressKept, vars, relays
<1> QED
  BY <1>1, HandlerKeeps, UpKeeps, DownKeeps DEF Next, World

(* The relay's second send of an address never blocks (main.go:297-305):   *)
(* nobody else sends, so the channel it has emptied is still empty.        *)
THEOREM PutNeverBlocks == Spec => []PutReady
<1>1. AddressInv => PutReady
  BY DEF AddressInv
<1> QED
  BY InitKept, NextKept, <1>1, PTL DEF Spec

(* The last address stored is never lost between the relays                *)
(* (main.go:297-305, 316-321, 332-335, 342-345).                           *)
THEOREM AddressNeverLost == Spec => []AddressKept
<1>1. AddressInv => AddressKept
  BY DEF AddressInv
<1> QED
  BY InitKept, NextKept, <1>1, PTL DEF Spec
=============================================================================
