--------------------------- MODULE Subscriptions ---------------------------
(***************************************************************************)
(* The library of XRay client configs (api/routers/xray_client.py): files  *)
(* uploaded by hand, files generated from subscriptions, the .active       *)
(* marker.  Handlers run on one event loop and interleave where they       *)
(* await; the only await between their first and last file operation is    *)
(* the download of a subscription, up to 30 seconds and three tries long.  *)
(***************************************************************************)
EXTENDS Naturals

CONSTANTS
  Workers,     \* refreshes and additions that can be in flight at once
  Subs,        \* subscription names
  Nodes,       \* what a provider can return; a node carries its position
  Standalone,  \* config names not generated by stable_config_name
  Alike,       \* pairs <<s, n>>: n is another's name and starts with "s-"
  Urls,
  Absent,      \* no file, no marker
  Overlap,     \* FALSE: one request at a time
  MaxCrashes

Gen(s) == {<<s, node>> : node \in Nodes}
Names == (Subs \X Nodes) \cup Standalone

ASSUME NamesAssumption ==
  /\ Alike \subseteq Subs \X Names
  /\ Absent \notin Names \cup Urls \cup {"user"} /\ "user" \notin Urls
  /\ \A listed \in SUBSET Names : Absent # listed
ASSUME BoundAssumption == Overlap \in BOOLEAN /\ MaxCrashes \in Nat

VARIABLES
  files,    \* configs/*.key: "user", or the URL a generated file came from
  active,   \* .active
  keys,     \* subscriptions/*.key
  states,   \* subscription-state/*.json: the entries
  fetch,    \* downloads in flight
  crashes

vars == <<files, active, keys, states, fetch, crashes>>

Idle == [kind |-> "idle"]
Fetches ==
  [kind : {"refresh", "add"}, sub : Subs, url : Urls, previous : Urls \cup {Absent}]

TypeOK ==
  /\ files \in [Names -> Urls \cup {"user", Absent}]
  /\ active \in Names \cup {Absent}
  /\ keys \in [Subs -> Urls \cup {Absent}]
  /\ states \in [Subs -> (SUBSET Names) \cup {Absent}]
  /\ fetch \in [Workers -> Fetches \cup {Idle}]
  /\ crashes \in 0..MaxCrashes

Exists(n) == files[n] # Absent
AllIdle == \A w \in Workers : fetch[w] = Idle
MayArrive == Overlap \/ AllIdle

EntriesOf(s) == IF states[s] = Absent THEN {} ELSE states[s]

\* The glob "s-*.key": every file of that prefix, whoever made it.
Glob(s) == {n \in Names : Exists(n) /\ (n \in Gen(s) \/ <<s, n>> \in Alike)}

\* _subscription_for_config looks at subscriptions that have a source.
Generated(n) == \E s \in Subs : keys[s] # Absent /\ n \in EntriesOf(s)

\* Files in ns are removed, the active one excepted.
Unlinked(ns) == [n \in Names |-> IF n \in ns \ {active} THEN Absent ELSE files[n]]

---------------------------------------------------------------------------
(* Handlers that do not await.                                             *)

Upload(n, overwrite) ==
  /\ MayArrive
  /\ ~Generated(n)
  /\ Exists(n) => overwrite /\ n # active
  /\ files' = [files EXCEPT ![n] = "user"]
  /\ UNCHANGED <<active, keys, states, fetch, crashes>>

DeleteConfig(n) ==
  /\ MayArrive
  /\ n # active /\ ~Generated(n) /\ Exists(n)
  /\ files' = [files EXCEPT ![n] = Absent]
  /\ UNCHANGED <<active, keys, states, fetch, crashes>>

\* The marker is written before the first await of the handler.
Activate(n) ==
  /\ MayArrive
  /\ Exists(n)
  /\ active' = n
  /\ UNCHANGED <<files, keys, states, fetch, crashes>>

DeleteSubscription(s) ==
  /\ MayArrive
  /\ keys[s] # Absent \/ states[s] # Absent
  /\ files' = Unlinked(EntriesOf(s) \cup Glob(s))
  /\ keys' = [keys EXCEPT ![s] = Absent]
  /\ states' = [states EXCEPT ![s] = Absent]
  /\ UNCHANGED <<active, fetch, crashes>>

---------------------------------------------------------------------------
(* Refresh and add: before the download, and after it.                     *)

StartRefresh(w, s) ==
  /\ MayArrive /\ fetch[w] = Idle
  /\ keys[s] # Absent
  /\ fetch' = [fetch EXCEPT ![w] =
       [kind |-> "refresh", sub |-> s, url |-> keys[s], previous |-> Absent]]
  /\ UNCHANGED <<files, active, keys, states, crashes>>

\* The error is recorded even for a subscription that does not exist.
NoteError(s) == states' = [states EXCEPT ![s] = EntriesOf(s)]

RefreshUnknown(s) ==
  /\ MayArrive
  /\ keys[s] = Absent
  /\ NoteError(s)
  /\ UNCHANGED <<files, active, keys, fetch, crashes>>

\* Mutant: the source is stored when the download has succeeded.
StartAddUnwritten(w, s, u) ==
  /\ MayArrive /\ fetch[w] = Idle
  /\ fetch' = [fetch EXCEPT ![w] =
       [kind |-> "add", sub |-> s, url |-> u, previous |-> keys[s]]]
  /\ UNCHANGED <<files, active, keys, states, crashes>>

StartAdd(w, s, u) ==
  /\ MayArrive /\ fetch[w] = Idle
  /\ keys' = [keys EXCEPT ![s] = u]
  /\ fetch' = [fetch EXCEPT ![w] =
       [kind |-> "add", sub |-> s, url |-> u, previous |-> keys[s]]]
  /\ UNCHANGED <<files, active, states, crashes>>

\* The files of the nodes are written in turn, those in done before a crash.
Written(f, done) == [n \in Names |-> IF n \in {<<f.sub, x>> : x \in done} THEN f.url ELSE files[n]]

Stale(s, nodes) == (EntriesOf(s) \cup Glob(s)) \ {<<s, x>> : x \in nodes}

\* Mutant: the active config goes too when the provider has dropped its node.
FetchedPrunes(w, nodes) ==
  /\ fetch[w] # Idle
  /\ LET s == fetch[w].sub
     IN  /\ files' = [n \in Names |-> IF n \in Stale(s, nodes) THEN Absent
                                      ELSE Written(fetch[w], nodes)[n]]
         /\ states' = [states EXCEPT ![s] = {<<s, x>> : x \in nodes}]
  /\ fetch' = [fetch EXCEPT ![w] = Idle]
  /\ UNCHANGED <<active, keys, crashes>>

\* A download with usable nodes: they are written, files of the subscription
\* that are not among them go, the active one excepted, and the state is
\* replaced.  The source is not looked at again.
Fetched(w, nodes) ==
  /\ fetch[w] # Idle
  /\ LET s == fetch[w].sub
     IN  /\ files' = [n \in Names |-> IF n \in Stale(s, nodes) THEN Unlinked(Stale(s, nodes))[n]
                                      ELSE Written(fetch[w], nodes)[n]]
         /\ states' = [states EXCEPT ![s] = {<<s, x>> : x \in nodes}]
  /\ fetch' = [fetch EXCEPT ![w] = Idle]
  /\ UNCHANGED <<active, keys, crashes>>

\* Mutant: a failed addition does not restore the source it replaced.
FetchFailedKeeps(w) ==
  /\ fetch[w] # Idle
  /\ IF fetch[w].kind = "add" THEN UNCHANGED <<keys, states>>
     ELSE NoteError(fetch[w].sub) /\ UNCHANGED keys
  /\ fetch' = [fetch EXCEPT ![w] = Idle]
  /\ UNCHANGED <<files, active, crashes>>

\* An addition puts back the source it found; a refresh notes its error.
FetchFailed(w) ==
  /\ fetch[w] # Idle
  /\ IF fetch[w].kind = "add"
       THEN keys' = [keys EXCEPT ![fetch[w].sub] = fetch[w].previous] /\ UNCHANGED states
       ELSE NoteError(fetch[w].sub) /\ UNCHANGED keys
  /\ fetch' = [fetch EXCEPT ![w] = Idle]
  /\ UNCHANGED <<files, active, crashes>>

\* The API dies in a result that is being stored: some files of the nodes are
\* there, or all of them and some stale ones gone, and the state is the old one.
HalfStored(w) ==
  /\ fetch[w] # Idle
  /\ \E nodes \in SUBSET Nodes :
       \E gone \in SUBSET (Stale(fetch[w].sub, nodes) \ {active}) :
         /\ nodes = {} => gone = {}
         /\ files' = [n \in Names |-> IF n \in gone THEN Absent ELSE Written(fetch[w], nodes)[n]]
  /\ UNCHANGED <<keys, states>>

\* The API dies in a deletion: some files are gone, or all of them and the
\* source too, before the state.
HalfDeleted(s) ==
  /\ MayArrive
  /\ keys[s] # Absent \/ states[s] # Absent
  /\ \E gone \in SUBSET (EntriesOf(s) \cup Glob(s)) :
       /\ files' = Unlinked(gone)
       /\ keys' \in {keys} \cup (IF gone = EntriesOf(s) \cup Glob(s)
                                   THEN {[keys EXCEPT ![s] = Absent]} ELSE {})
  /\ UNCHANGED states

\* The API dies: downloads are lost, with nothing rolled back.
Crash ==
  /\ crashes < MaxCrashes
  /\ crashes' = crashes + 1
  /\ \/ UNCHANGED <<files, keys, states>>
     \/ \E w \in Workers : HalfStored(w)
     \/ \E s \in Subs : HalfDeleted(s)
  /\ fetch' = [w \in Workers |-> Idle]
  /\ UNCHANGED active

Init ==
  /\ files \in [Names -> {Absent}] /\ active = Absent
  /\ keys = [s \in Subs |-> Absent] /\ states = [s \in Subs |-> Absent]
  /\ fetch = [w \in Workers |-> Idle]
  /\ crashes = 0

Next ==
  \/ \E n \in Names, overwrite \in BOOLEAN : Upload(n, overwrite)
  \/ \E n \in Names : DeleteConfig(n)
  \/ \E n \in Names : Activate(n)
  \/ \E s \in Subs : DeleteSubscription(s)
  \/ \E w \in Workers, s \in Subs : StartRefresh(w, s)
  \/ \E s \in Subs : RefreshUnknown(s)
  \/ \E w \in Workers, s \in Subs, u \in Urls : StartAdd(w, s, u)
  \/ \E w \in Workers, nodes \in (SUBSET Nodes) \ {{}} : Fetched(w, nodes)
  \/ \E w \in Workers : FetchFailed(w)
  \/ Crash

Spec == Init /\ [][Next]_vars

---------------------------------------------------------------------------
(* Properties.                                                             *)

\* The active config is there, whatever overlaps and wherever the API dies:
\* no handler overwrites or removes the file that .active names on the
\* strength of an older answer.
ActiveExists == active # Absent => Exists(active)

\* With one request at a time, every config a subscription lists exists and
\* came from the source it has now; a failed addition leaves no trace.
ListedIsThere ==
  AllIdle => \A s \in Subs : keys[s] # Absent => \A n \in EntriesOf(s) : files[n] = keys[s]

\* Configs are generated for subscriptions that exist (the dashboard asks
\* "Delete subscription ... and its generated configs?").
NoResurrection ==
  [][\A s \in Subs : \A n \in Gen(s) : ~Exists(n) /\ files'[n] \in Urls => keys[s] # Absent]_vars
===========================================================================
