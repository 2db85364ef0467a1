------------------------ MODULE Subscriptions_proof ------------------------
(***************************************************************************)
(* The active config survives every overlap of requests and every crash;   *)
(* with one request at a time, subscriptions list what is there.  Proved   *)
(* for any sets of workers, subscriptions, nodes and names.  At the end:   *)
(* what the mails of the health check say.                                 *)
(***************************************************************************)
EXTENDS Subscriptions, HealthCheck, TLAPS

LEMMA AbsentApart == Absent \notin Names /\ Absent \notin Urls /\ Absent # "user"
BY NamesAssumption

LEMMA EntriesTyped ==
  ASSUME TypeOK, NEW s \in Subs
  PROVE  EntriesOf(s) \in SUBSET Names
BY DEF TypeOK, EntriesOf

LEMMA UnlinkedTyped ==
  ASSUME TypeOK, NEW ns
  PROVE  Unlinked(ns) \in [Names -> Urls \cup {"user", Absent}]
BY DEF TypeOK, Unlinked

LEMMA WrittenTyped ==
  ASSUME TypeOK, NEW f \in Fetches, NEW done \in SUBSET Nodes
  PROVE  Written(f, done) \in [Names -> Urls \cup {"user", Absent}]
BY DEF TypeOK, Written, Fetches

LEMMA InFlight ==
  ASSUME TypeOK, NEW w \in Workers, fetch[w] # Idle
  PROVE  fetch[w] \in Fetches
BY DEF TypeOK

LEMMA TypeInit == Init => TypeOK
BY BoundAssumption DEF Init, TypeOK

LEMMA TypeNext == TypeOK /\ [Next]_vars => TypeOK'
<1> SUFFICES ASSUME TypeOK, [Next]_vars PROVE TypeOK'
  OBVIOUS
<1>1. ASSUME NEW n \in Names, NEW o \in BOOLEAN, Upload(n, o) PROVE TypeOK'
  BY <1>1 DEF Upload, TypeOK
<1>2. ASSUME NEW n \in Names, DeleteConfig(n) PROVE TypeOK'
  BY <1>2 DEF DeleteConfig, TypeOK
<1>3. ASSUME NEW n \in Names, Activate(n) PROVE TypeOK'
  BY <1>3 DEF Activate, TypeOK
<1>4. ASSUME NEW s \in Subs, DeleteSubscription(s) PROVE TypeOK'
  BY <1>4, UnlinkedTyped DEF DeleteSubscription, TypeOK
<1>5. ASSUME NEW w \in Workers, NEW s \in Subs, StartRefresh(w, s) PROVE TypeOK'
  <2>1. [kind |-> "refresh", sub |-> s, url |-> keys[s], previous |-> Absent] \in Fetches
    BY <1>5 DEF StartRefresh, TypeOK, Fetches
  <2> QED
    BY <1>5, <2>1 DEF StartRefresh, TypeOK
<1>6. ASSUME NEW s \in Subs, RefreshUnknown(s) PROVE TypeOK'
  BY <1>6, EntriesTyped DEF RefreshUnknown, NoteError, TypeOK
<1>7. ASSUME NEW w \in Workers, NEW s \in Subs, NEW u \in Urls, StartAdd(w, s, u) PROVE TypeOK'
  <2>1. [kind |-> "add", sub |-> s, url |-> u, previous |-> keys[s]] \in Fetches
    BY <1>7 DEF StartAdd, TypeOK, Fetches
  <2> QED
    BY <1>7, <2>1 DEF StartAdd, TypeOK
<1>8. ASSUME NEW w \in Workers, NEW nodes \in SUBSET Nodes, Fetched(w, nodes) PROVE TypeOK'
  <2> DEFINE s == fetch[w].sub
             old == Stale(s, nodes)
             new == Written(fetch[w], nodes)
  <2>1. fetch[w] \in Fetches /\ s \in Subs
    BY <1>8, InFlight DEF Fetched, Fetches
  <2>2. Unlinked(old) \in [Names -> Urls \cup {"user", Absent}]
    BY UnlinkedTyped
  <2>3. new \in [Names -> Urls \cup {"user", Absent}]
    BY <2>1, WrittenTyped
  <2>4. {<<s, x>> : x \in nodes} \in SUBSET Names
    BY <2>1 DEF Names
  <2>5. /\ files' = [n \in Names |-> IF n \in old THEN Unlinked(old)[n] ELSE new[n]]
        /\ states' = [states EXCEPT ![s] = {<<s, x>> : x \in nodes}]
        /\ fetch' = [fetch EXCEPT ![w] = Idle]
        /\ UNCHANGED <<active, keys, crashes>>
    BY <1>8 DEF Fetched
  <2> HIDE DEF old, new, s
  <2> QED
    BY <2>1, <2>2, <2>3, <2>4, <2>5 DEF TypeOK
<1>9. ASSUME NEW w \in Workers, FetchFailed(w) PROVE TypeOK'
  <2>1. fetch[w] \in Fetches /\ fetch[w].sub \in Subs /\ fetch[w].previous \in Urls \cup {Absent}
    BY <1>9, InFlight DEF FetchFailed, Fetches
  <2> QED
    BY <1>9, <2>1, EntriesTyped DEF FetchFailed, NoteError, TypeOK
<1>10. CASE Crash
  <2>1. crashes' \in 0..MaxCrashes
    BY <1>10, BoundAssumption DEF Crash, TypeOK
  <2>2. fetch' \in [Workers -> Fetches \cup {Idle}] /\ active' \in Names \cup {Absent}
    BY <1>10 DEF Crash, TypeOK
  <2>3. ASSUME files' \in [Names -> Urls \cup {"user", Absent}],
               keys' \in [Subs -> Urls \cup {Absent}], states' = states
        PROVE  TypeOK'
    BY <2>1, <2>2, <2>3 DEF TypeOK
  <2>4. CASE UNCHANGED <<files, keys, states>>
    BY <2>3, <2>4 DEF TypeOK
  <2>5. ASSUME NEW w \in Workers, HalfStored(w) PROVE TypeOK'
    <3>1. PICK nodes \in SUBSET Nodes :
            \E gone \in SUBSET (Stale(fetch[w].sub, nodes) \ {active}) :
              files' = [n \in Names |-> IF n \in gone THEN Absent ELSE Written(fetch[w], nodes)[n]]
      BY <2>5 DEF HalfStored
    <3>2. fetch[w] \in Fetches
      BY <2>5, InFlight DEF HalfStored
    <3>3. Written(fetch[w], nodes) \in [Names -> Urls \cup {"user", Absent}]
      BY <3>2, WrittenTyped
    <3> QED
      BY <2>3, <2>5, <3>1, <3>3 DEF HalfStored, TypeOK
  <2>6. ASSUME NEW s \in Subs, HalfDeleted(s) PROVE TypeOK'
    BY <2>3, <2>6, UnlinkedTyped DEF HalfDeleted, TypeOK
  <2> QED
    BY <1>10, <2>4, <2>5, <2>6 DEF Crash
<1>11. CASE UNCHANGED vars
  BY <1>11 DEF vars, TypeOK
<1>12. QED
  BY <1>1, <1>2, <1>3, <1>4, <1>5, <1>6, <1>7, <1>8, <1>9, <1>10, <1>11 DEF Next

\* The library's files, marker and states keep their types.
THEOREM LibraryTyped == Spec => []TypeOK
<1>1. QED
  BY TypeInit, TypeNext, PTL DEF Spec

---------------------------------------------------------------------------
(* The active config exists.                                               *)

LEMMA UnlinkedKeepsActive ==
  ASSUME TypeOK, active # Absent, NEW ns PROVE Unlinked(ns)[active] = files[active]
BY DEF Unlinked, TypeOK

LEMMA WrittenExists ==
  ASSUME TypeOK, NEW f \in Fetches, NEW done \in SUBSET Nodes, NEW n \in Names, Exists(n)
  PROVE  Written(f, done)[n] # Absent
BY AbsentApart DEF Written, Fetches, Exists

LEMMA ActiveNext == TypeOK /\ ActiveExists /\ [Next]_vars => ActiveExists'
<1> SUFFICES ASSUME TypeOK, ActiveExists, [Next]_vars, active' # Absent
             PROVE  files'[active'] # Absent
  BY DEF ActiveExists, Exists
<1>0. active # Absent => active \in Names /\ files[active] # Absent
  BY DEF TypeOK, ActiveExists, Exists
<1>1. ASSUME NEW n \in Names, NEW o \in BOOLEAN, Upload(n, o) PROVE files'[active'] # Absent
  BY <1>0, <1>1, AbsentApart DEF Upload, TypeOK
<1>2. ASSUME NEW n \in Names, DeleteConfig(n) PROVE files'[active'] # Absent
  BY <1>0, <1>2 DEF DeleteConfig, TypeOK
<1>3. ASSUME NEW n \in Names, Activate(n) PROVE files'[active'] # Absent
  BY <1>3 DEF Activate, Exists
<1>4. ASSUME NEW s \in Subs, DeleteSubscription(s) PROVE files'[active'] # Absent
  BY <1>0, <1>4, UnlinkedKeepsActive DEF DeleteSubscription
<1>5. ASSUME NEW w \in Workers, NEW s \in Subs, StartRefresh(w, s) PROVE files'[active'] # Absent
  BY <1>0, <1>5 DEF StartRefresh
<1>6. ASSUME NEW s \in Subs, RefreshUnknown(s) PROVE files'[active'] # Absent
  BY <1>0, <1>6 DEF RefreshUnknown
<1>7. ASSUME NEW w \in Workers, NEW s \in Subs, NEW u \in Urls, StartAdd(w, s, u)
      PROVE  files'[active'] # Absent
  BY <1>0, <1>7 DEF StartAdd
<1>8. ASSUME NEW w \in Workers, NEW nodes \in SUBSET Nodes, Fetched(w, nodes)
      PROVE  files'[active'] # Absent
  <2> DEFINE old == Stale(fetch[w].sub, nodes)
             new == Written(fetch[w], nodes)
  <2>1. active' = active /\ active \in Names
        /\ files' = [n \in Names |-> IF n \in old THEN Unlinked(old)[n] ELSE new[n]]
    BY <1>0, <1>8 DEF Fetched
  <2>2. Unlinked(old)[active] # Absent
    BY <1>0, <2>1, UnlinkedKeepsActive
  <2>3. fetch[w] \in Fetches
    BY <1>8, InFlight DEF Fetched
  <2>4. new[active] # Absent
    BY <1>0, <2>1, <2>3, WrittenExists DEF Exists
  <2> HIDE DEF old, new
  <2> QED
    BY <2>1, <2>2, <2>4
<1>9. ASSUME NEW w \in Workers, FetchFailed(w) PROVE files'[active'] # Absent
  BY <1>0, <1>9 DEF FetchFailed
<1>10. CASE Crash
  <2>1. active' = active /\ active \in Names /\ Exists(active)
    BY <1>0, <1>10 DEF Crash, Exists
  <2>2. CASE UNCHANGED files
    BY <2>1, <2>2 DEF Exists
  <2>3. ASSUME NEW w \in Workers, HalfStored(w) PROVE files'[active'] # Absent
    <3>1. PICK nodes \in SUBSET Nodes :
            \E gone \in SUBSET (Stale(fetch[w].sub, nodes) \ {active}) :
              files' = [n \in Names |-> IF n \in gone THEN Absent ELSE Written(fetch[w], nodes)[n]]
      BY <2>3 DEF HalfStored
    <3>2. Written(fetch[w], nodes)[active] # Absent
      BY <2>1, <2>3, InFlight, WrittenExists DEF HalfStored
    <3> QED
      BY <2>1, <3>1, <3>2
  <2>4. ASSUME NEW s \in Subs, HalfDeleted(s) PROVE files'[active'] # Absent
    BY <2>1, <2>4, UnlinkedKeepsActive DEF HalfDeleted, Exists
  <2> QED
    BY <1>10, <2>2, <2>3, <2>4 DEF Crash
<1>11. CASE UNCHANGED vars
  BY <1>0, <1>11 DEF vars
<1>12. QED
  BY <1>1, <1>2, <1>3, <1>4, <1>5, <1>6, <1>7, <1>8, <1>9, <1>10, <1>11 DEF Next

\* Whatever requests overlap, whoever's names look alike and wherever the API
\* dies, the config that .active names has its file.
THEOREM ActiveAlwaysExists == Spec => []ActiveExists
<1>1. Init => TypeOK /\ ActiveExists
  BY TypeInit DEF Init, ActiveExists
<1>2. TypeOK /\ ActiveExists /\ [Next]_vars => (TypeOK /\ ActiveExists)'
  BY TypeNext, ActiveNext
<1>3. QED
  BY <1>1, <1>2, PTL DEF Spec

---------------------------------------------------------------------------
(* One request at a time.                                                  *)

Alone == ~Overlap /\ Alike = {} /\ MaxCrashes = 0

\* At most one download is in flight, of the source that is stored; what a
\* subscription lists is its own and comes from its source, or from the one
\* that an addition in flight will put back if it fails.
Adding(s) == \E w \in Workers : fetch[w] # Idle /\ fetch[w].kind = "add" /\ fetch[w].sub = s
OneFetch == \A w, x \in Workers : fetch[w] # Idle /\ fetch[x] # Idle => w = x
FetchesSource == \A w \in Workers : fetch[w] # Idle => keys[fetch[w].sub] = fetch[w].url
OwnEntries == \A s \in Subs : EntriesOf(s) \subseteq Gen(s)
FromSource ==
  \A s \in Subs : ~Adding(s) /\ keys[s] # Absent => \A n \in EntriesOf(s) : files[n] = keys[s]
FromPrevious ==
  \A w \in Workers :
    fetch[w] # Idle /\ fetch[w].kind = "add" /\ fetch[w].previous # Absent
      => \A n \in EntriesOf(fetch[w].sub) : files[n] = fetch[w].previous

Orderly == OneFetch /\ FetchesSource /\ OwnEntries /\ FromSource /\ FromPrevious

LEMMA GenApart ==
  ASSUME NEW s \in Subs, NEW t \in Subs, s # t, NEW n \in Gen(s) PROVE n \notin Gen(t)
BY DEF Gen

LEMMA GlobOwn == ASSUME Alone, NEW s \in Subs PROVE Glob(s) \subseteq Gen(s)
BY DEF Alone, Glob

\* What leaves files, sources and downloads alone keeps the order.
LEMMA OrderlyIdle ==
  ASSUME TypeOK, Orderly, AllIdle,
         fetch' = fetch, keys' = keys, states' = states,
         \A s \in Subs : keys[s] # Absent => \A n \in EntriesOf(s) : files'[n] = files[n]
  PROVE  Orderly'
<1>1. \A s \in Subs : EntriesOf(s)' = EntriesOf(s) /\ ~Adding(s) /\ ~Adding(s)'
  BY DEF EntriesOf, Adding, AllIdle
<1>2. FromSource'
  BY <1>1 DEF FromSource, Orderly
<1>3. QED
  BY <1>1, <1>2 DEF Orderly, OneFetch, FetchesSource, OwnEntries, FromPrevious, AllIdle

LEMMA DeleteOrderly ==
  ASSUME TypeOK, Orderly, Alone, NEW s \in Subs, DeleteSubscription(s) PROVE Orderly'
<1>1. AllIdle /\ fetch' = fetch
  BY DEF DeleteSubscription, MayArrive, Alone
<1>2. \A t \in Subs : ~Adding(t) /\ ~Adding(t)'
  BY <1>1 DEF Adding, AllIdle
<1>3. EntriesOf(s)' = {} /\ keys'[s] = Absent
  BY DEF DeleteSubscription, EntriesOf, TypeOK
<1>4. ASSUME NEW t \in Subs, t # s
      PROVE  /\ EntriesOf(t)' = EntriesOf(t) /\ keys'[t] = keys[t]
             /\ \A n \in EntriesOf(t) : files'[n] = files[n]
  <2>1. EntriesOf(t)' = EntriesOf(t) /\ keys'[t] = keys[t]
    BY <1>4 DEF DeleteSubscription, EntriesOf, TypeOK
  <2>2. ASSUME NEW n \in EntriesOf(t) PROVE files'[n] = files[n]
    <3>1. n \in Names /\ n \notin EntriesOf(s) \cup Glob(s)
      BY <1>4, <2>2, GenApart, GlobOwn, EntriesTyped DEF Orderly, OwnEntries
    <3> QED
      BY <3>1 DEF DeleteSubscription, Unlinked
  <2> QED
    BY <2>1, <2>2
<1>5. OwnEntries'
  BY <1>3, <1>4 DEF Orderly, OwnEntries
<1>6. FromSource'
  BY <1>2, <1>3, <1>4 DEF Orderly, FromSource
<1>7. QED
  BY <1>1, <1>5, <1>6 DEF Orderly, OneFetch, FetchesSource, FromPrevious, AllIdle

LEMMA AddOrderly ==
  ASSUME TypeOK, Orderly, Alone, NEW w \in Workers, NEW s \in Subs, NEW u \in Urls,
         StartAdd(w, s, u)
  PROVE  Orderly'
<1>1. AllIdle /\ files' = files /\ states' = states /\ keys' = [keys EXCEPT ![s] = u]
      /\ fetch' = [fetch EXCEPT ![w] =
           [kind |-> "add", sub |-> s, url |-> u, previous |-> keys[s]]]
  BY DEF StartAdd, MayArrive, Alone
<1>2. \A x \in Workers : fetch'[x] # Idle => x = w
  BY <1>1 DEF AllIdle, TypeOK
<1>3. fetch'[w].kind = "add" /\ fetch'[w].sub = s /\ fetch'[w].url = u
      /\ fetch'[w].previous = keys[s]
  BY <1>1 DEF TypeOK
<1>4. \A t \in Subs : EntriesOf(t)' = EntriesOf(t) /\ ~Adding(t)
  BY <1>1 DEF EntriesOf, Adding, AllIdle
<1>5. fetch'[w] # Idle /\ Adding(s)'
  BY <1>1, <1>3 DEF TypeOK, Adding, Idle
<1>6. FromSource'
  BY <1>1, <1>4, <1>5 DEF Orderly, FromSource, TypeOK
<1>7. FromPrevious'
  BY <1>1, <1>2, <1>3, <1>4 DEF Orderly, FromSource, FromPrevious
<1>8. QED
  BY <1>1, <1>2, <1>3, <1>4, <1>6, <1>7 DEF Orderly, OneFetch, FetchesSource, OwnEntries, TypeOK

LEMMA RefreshOrderly ==
  ASSUME TypeOK, Orderly, Alone, NEW w \in Workers, NEW s \in Subs, StartRefresh(w, s)
  PROVE  Orderly'
<1>1. AllIdle /\ files' = files /\ states' = states /\ keys' = keys
      /\ fetch' = [fetch EXCEPT ![w] =
           [kind |-> "refresh", sub |-> s, url |-> keys[s], previous |-> Absent]]
  BY DEF StartRefresh, MayArrive, Alone
<1>2. \A x \in Workers : fetch'[x] # Idle => x = w
  BY <1>1 DEF AllIdle, TypeOK
<1>3. fetch'[w].kind = "refresh" /\ fetch'[w].sub = s /\ fetch'[w].url = keys[s]
  BY <1>1 DEF TypeOK
<1>4. \A t \in Subs : EntriesOf(t)' = EntriesOf(t) /\ ~Adding(t)
  BY <1>1 DEF EntriesOf, Adding, AllIdle
<1>5. FromSource' /\ FromPrevious'
  BY <1>1, <1>2, <1>3, <1>4 DEF Orderly, FromSource, FromPrevious
<1>6. QED
  BY <1>1, <1>2, <1>3, <1>4, <1>5 DEF Orderly, OneFetch, FetchesSource, OwnEntries

LEMMA FetchedOrderly ==
  ASSUME TypeOK, Orderly, Alone, NEW w \in Workers, NEW nodes \in SUBSET Nodes,
         Fetched(w, nodes)
  PROVE  Orderly'
<1>0. PICK s \in Subs : s = fetch[w].sub
  BY InFlight DEF Fetched, Fetches
<1> DEFINE old == Stale(s, nodes)
           mine == {<<s, x>> : x \in nodes}
           new == Written(fetch[w], nodes)
<1>1. fetch[w] # Idle /\ fetch[w] \in Fetches /\ fetch[w].sub = s
  BY <1>0, InFlight DEF Fetched, Fetches
<1>2. /\ files' = [n \in Names |-> IF n \in old THEN Unlinked(old)[n] ELSE new[n]]
      /\ states' = [states EXCEPT ![s] = mine]
      /\ fetch' = [fetch EXCEPT ![w] = Idle] /\ keys' = keys
  BY <1>0 DEF Fetched
<1>3. \A x \in Workers : fetch'[x] = Idle
  BY <1>1, <1>2 DEF Orderly, OneFetch, TypeOK
<1>4. \A t \in Subs : t # s => ~Adding(t)
  BY <1>1 DEF Orderly, OneFetch, Adding
<1>5. mine \subseteq Gen(s) /\ mine \subseteq Names /\ old \subseteq Gen(s)
      /\ mine \cap old = {} /\ Absent \notin mine
  <2>1. mine \subseteq Gen(s) /\ mine \subseteq Names
    BY <1>1 DEF Gen, Names
  <2>2. old \subseteq Gen(s) /\ mine \cap old = {}
    BY <1>1, GlobOwn DEF Stale, Orderly, OwnEntries
  <2> QED
    BY <2>1, <2>2, AbsentApart
<1>6. EntriesOf(s)' = mine
  <2>1. states'[s] = mine
    BY <1>1, <1>2 DEF TypeOK
  <2>2. mine \in SUBSET Names
    BY <1>5
  <2>3. mine # Absent
    <3> HIDE DEF mine
    <3> QED
      BY <2>2, NamesAssumption
  <2> QED
    BY <2>1, <2>3 DEF EntriesOf
<1>7. \A n \in mine : files'[n] = keys'[s]
  <2>1. \A n \in mine : new[n] = fetch[w].url
    BY <1>0, <1>5 DEF Written
  <2>2. keys'[s] = fetch[w].url
    BY <1>1, <1>2 DEF Orderly, FetchesSource
  <2> HIDE DEF mine, old, new
  <2> QED
    BY <1>2, <1>5, <2>1, <2>2
<1>8. ASSUME NEW t \in Subs, t # s
      PROVE  /\ EntriesOf(t)' = EntriesOf(t)
             /\ \A n \in EntriesOf(t) : files'[n] = files[n]
  <2>1. EntriesOf(t)' = EntriesOf(t)
    BY <1>2, <1>8 DEF EntriesOf, TypeOK
  <2>2. ASSUME NEW n \in EntriesOf(t) PROVE files'[n] = files[n]
    <3>1. n \in Names /\ n \in Gen(t) /\ n \notin Gen(s)
      BY <1>1, <1>8, <2>2, GenApart, EntriesTyped DEF Orderly, OwnEntries
    <3>2. n \notin old /\ n \notin mine
      BY <1>5, <3>1
    <3>3. new[n] = files[n]
      BY <1>0, <3>1, <3>2 DEF Written
    <3> HIDE DEF old, new
    <3> QED
      BY <1>2, <3>1, <3>2, <3>3
  <2> QED
    BY <2>1, <2>2
<1> HIDE DEF old, mine, new
<1>9. OwnEntries'
  BY <1>5, <1>6, <1>8 DEF Orderly, OwnEntries, Gen
<1>10. FromSource'
  BY <1>2, <1>4, <1>6, <1>7, <1>8 DEF Orderly, FromSource
<1>11. QED
  BY <1>3, <1>9, <1>10 DEF Orderly, OneFetch, FetchesSource, FromPrevious

LEMMA FailedOrderly ==
  ASSUME TypeOK, Orderly, Alone, NEW w \in Workers, FetchFailed(w) PROVE Orderly'
<1> DEFINE s == fetch[w].sub
<1>1. fetch[w] # Idle /\ fetch[w] \in Fetches /\ s \in Subs
  BY InFlight DEF FetchFailed, Fetches
<1>2. files' = files /\ fetch' = [fetch EXCEPT ![w] = Idle]
  BY DEF FetchFailed
<1>3. \A x \in Workers : fetch'[x] = Idle
  BY <1>1, <1>2 DEF Orderly, OneFetch, TypeOK
<1>4. \A t \in Subs : t # s => ~Adding(t)
  BY <1>1 DEF Orderly, OneFetch, Adding
<1>5. \A t \in Subs : EntriesOf(t)' = EntriesOf(t)
  <2>1. CASE fetch[w].kind = "add"
    BY <2>1 DEF FetchFailed, EntriesOf
  <2>2. CASE fetch[w].kind # "add"
    <3>1. states' = [states EXCEPT ![s] = EntriesOf(s)]
      BY <2>2 DEF FetchFailed, NoteError
    <3>2. EntriesOf(s) # Absent
      BY <1>1, EntriesTyped, NamesAssumption
    <3> QED
      BY <3>1, <3>2 DEF EntriesOf, TypeOK
  <2> QED
    BY <2>1, <2>2
<1>6. FromSource'
  <2>1. CASE fetch[w].kind = "add"
    <3>1. keys' = [keys EXCEPT ![s] = fetch[w].previous]
      BY <2>1 DEF FetchFailed
    <3> QED
      BY <1>1, <1>2, <1>4, <1>5, <2>1, <3>1 DEF Orderly, FromSource, FromPrevious, TypeOK
  <2>2. CASE fetch[w].kind # "add"
    <3>1. keys' = keys /\ ~Adding(s)
      BY <1>1, <2>2 DEF FetchFailed, Adding, Orderly, OneFetch
    <3> QED
      BY <1>2, <1>4, <1>5, <3>1 DEF Orderly, FromSource
  <2> QED
    BY <2>1, <2>2
<1>7. QED
  BY <1>3, <1>5, <1>6 DEF Orderly, OneFetch, FetchesSource, OwnEntries, FromPrevious

LEMMA OrderlyNext == Alone => (TypeOK /\ Orderly /\ [Next]_vars => Orderly')
<1> SUFFICES ASSUME Alone, TypeOK, Orderly, [Next]_vars PROVE Orderly'
  OBVIOUS
<1>1. ASSUME NEW n \in Names, NEW o \in BOOLEAN, Upload(n, o) PROVE Orderly'
  BY <1>1, OrderlyIdle DEF Upload, MayArrive, Alone, Generated, TypeOK
<1>2. ASSUME NEW n \in Names, DeleteConfig(n) PROVE Orderly'
  BY <1>2, OrderlyIdle DEF DeleteConfig, MayArrive, Alone, Generated, TypeOK
<1>3. ASSUME NEW n \in Names, Activate(n) PROVE Orderly'
  BY <1>3, OrderlyIdle DEF Activate, MayArrive, Alone
<1>4. ASSUME NEW s \in Subs, RefreshUnknown(s) PROVE Orderly'
  <2>1. AllIdle /\ files' = files /\ keys' = keys /\ fetch' = fetch
        /\ states' = [states EXCEPT ![s] = EntriesOf(s)]
    BY <1>4 DEF RefreshUnknown, NoteError, MayArrive, Alone
  <2>2. EntriesOf(s) # Absent
    BY EntriesTyped, NamesAssumption
  <2>3. \A t \in Subs : EntriesOf(t)' = EntriesOf(t) /\ Adding(t)' = Adding(t)
    BY <2>1, <2>2 DEF EntriesOf, Adding, TypeOK
  <2>4. FromSource'
    BY <2>1, <2>3 DEF Orderly, FromSource
  <2> QED
    BY <2>1, <2>3, <2>4 DEF Orderly, OneFetch, FetchesSource, OwnEntries, FromPrevious, AllIdle
<1>5. CASE Crash
  BY <1>5 DEF Crash, Alone, TypeOK
<1>6. CASE UNCHANGED vars
  <2>1. \A t \in Subs : EntriesOf(t)' = EntriesOf(t) /\ Adding(t)' = Adding(t)
    BY <1>6 DEF vars, EntriesOf, Adding
  <2>2. FromSource' /\ FromPrevious'
    BY <1>6, <2>1, InFlight DEF vars, Orderly, FromSource, FromPrevious, Fetches
  <2> QED
    BY <1>6, <2>1, <2>2 DEF vars, Orderly, OneFetch, FetchesSource, OwnEntries
<1>7. QED
  BY <1>1, <1>2, <1>3, <1>4, <1>5, <1>6, DeleteOrderly, AddOrderly, RefreshOrderly,
     FetchedOrderly, FailedOrderly DEF Next

\* With one request at a time, no name that is another's prefix and no crash,
\* a subscription lists only configs that exist and come from its source,
\* however many additions and refreshes failed.
THEOREM ListsWhatIsThere == Alone => (Spec => []ListedIsThere)
<1> SUFFICES ASSUME Alone PROVE Spec => []ListedIsThere
  OBVIOUS
<1>1. Init => TypeOK /\ Orderly
  BY TypeInit DEF Init, Orderly, OneFetch, FetchesSource, OwnEntries, FromSource,
                  FromPrevious, EntriesOf
<1>2. TypeOK /\ Orderly /\ [Next]_vars => (TypeOK /\ Orderly)'
  BY TypeNext, OrderlyNext
<1>3. TypeOK /\ Orderly => ListedIsThere
  BY DEF Orderly, FromSource, ListedIsThere, AllIdle, Adding
<1>4. QED
  BY <1>1, <1>2, <1>3, PTL DEF Spec

---------------------------------------------------------------------------
(* Nothing is generated for a subscription that is gone.                   *)

\* A source is never removed, by a deletion or by a failed addition, under a
\* download that stays in flight.
RemovedAtRest ==
  \A s \in Subs : keys[s] # Absent /\ keys'[s] = Absent
    => \A w \in Workers : fetch'[w] # Idle => fetch'[w].sub # s

\* What is being downloaded has a source, if not the one it is downloaded from.
Sourced == \A w \in Workers : fetch[w] # Idle => keys[fetch[w].sub] # Absent

LEMMA SourcedNext == TypeOK /\ Sourced /\ [Next]_vars /\ [RemovedAtRest]_vars => Sourced'
<1> SUFFICES ASSUME TypeOK, Sourced, [Next]_vars, [RemovedAtRest]_vars,
                    NEW w \in Workers, fetch'[w] # Idle
             PROVE  keys'[fetch'[w].sub] # Absent
  BY DEF Sourced
<1>1. ASSUME fetch'[w] = fetch[w] PROVE keys'[fetch'[w].sub] # Absent
  <2>1. fetch[w].sub \in Subs /\ keys[fetch[w].sub] # Absent
    BY <1>1, InFlight DEF Sourced, Fetches
  <2>2. CASE UNCHANGED vars
    BY <1>1, <2>1, <2>2 DEF vars
  <2>3. CASE RemovedAtRest
    BY <1>1, <2>1, <2>3 DEF RemovedAtRest
  <2> QED
    BY <2>2, <2>3
<1>2. ASSUME NEW x \in Workers, NEW s \in Subs, StartRefresh(x, s), fetch'[w] # fetch[w]
      PROVE  keys'[fetch'[w].sub] # Absent
  <2>1. w = x /\ fetch'[w].sub = s
    BY <1>2 DEF StartRefresh, TypeOK
  <2> QED
    BY <1>2, <2>1 DEF StartRefresh
<1>3. ASSUME NEW x \in Workers, NEW s \in Subs, NEW u \in Urls, StartAdd(x, s, u),
             fetch'[w] # fetch[w]
      PROVE  keys'[fetch'[w].sub] # Absent
  <2>1. w = x /\ fetch'[w].sub = s
    BY <1>3 DEF StartAdd, TypeOK
  <2>2. keys'[s] = u
    BY <1>3 DEF StartAdd, TypeOK
  <2> QED
    BY <2>1, <2>2, AbsentApart
<1>4. ASSUME NEW x \in Workers, fetch' = [fetch EXCEPT ![x] = Idle] PROVE fetch'[w] = fetch[w]
  BY <1>4 DEF TypeOK
<1>5. ~Crash
  BY DEF Crash
<1>6. ASSUME UNCHANGED fetch PROVE fetch'[w] = fetch[w]
  BY <1>6
<1> QED
  BY <1>1, <1>2, <1>3, <1>4, <1>5, <1>6 DEF Next, Upload, DeleteConfig, Activate,
     DeleteSubscription, RefreshUnknown, Fetched, FetchFailed, vars

\* A file that a step writes with a URL belongs to the subscription of a
\* download in flight.
Generates(n) == \E w \in Workers : fetch[w] # Idle /\ n \in Gen(fetch[w].sub)

LEMMA WrittenGenerates ==
  ASSUME TypeOK, NEW w \in Workers, fetch[w] # Idle, NEW done \in SUBSET Nodes, NEW n \in Names,
         ~Exists(n), Written(fetch[w], done)[n] \in Urls
  PROVE  Generates(n)
<1>1. files[n] \notin Urls
  BY AbsentApart DEF Exists
<1>2. n \in {<<fetch[w].sub, x>> : x \in done}
  BY <1>1 DEF Written
<1> QED
  BY <1>2 DEF Generates, Gen

LEMMA OnlyGenerated ==
  ASSUME TypeOK, [Next]_vars, NEW n \in Names, ~Exists(n), files'[n] \in Urls
  PROVE  Generates(n)
<1>0. files[n] = Absent /\ files[n] \notin Urls
  BY AbsentApart DEF Exists
<1>1. ASSUME NEW m \in Names, NEW o \in BOOLEAN, Upload(m, o) PROVE FALSE
  BY <1>0, <1>1, NamesAssumption DEF Upload, TypeOK
<1>2. ASSUME NEW m \in Names, DeleteConfig(m) PROVE FALSE
  BY <1>0, <1>2 DEF DeleteConfig, TypeOK
<1>3. ASSUME NEW s \in Subs, DeleteSubscription(s) PROVE FALSE
  BY <1>0, <1>3 DEF DeleteSubscription, Unlinked
<1>4. ASSUME UNCHANGED files PROVE FALSE
  BY <1>0, <1>4
<1>5. ASSUME NEW w \in Workers, NEW nodes \in SUBSET Nodes, Fetched(w, nodes)
      PROVE  Generates(n)
  <2> DEFINE old == Stale(fetch[w].sub, nodes)
             new == Written(fetch[w], nodes)
  <2>1. /\ fetch[w] # Idle
        /\ files' = [m \in Names |-> IF m \in old THEN Unlinked(old)[m] ELSE new[m]]
    BY <1>5 DEF Fetched
  <2>2. Unlinked(old)[n] \notin Urls
    BY <1>0 DEF Unlinked
  <2> HIDE DEF old, new
  <2>3. new[n] \in Urls
    BY <2>1, <2>2
  <2> QED
    BY <2>1, <2>3, WrittenGenerates DEF new
<1>6. CASE Crash
  <2>1. CASE UNCHANGED files
    BY <1>4, <2>1
  <2>2. ASSUME NEW w \in Workers, HalfStored(w) PROVE Generates(n)
    <3>1. PICK nodes \in SUBSET Nodes :
            \E gone \in SUBSET (Stale(fetch[w].sub, nodes) \ {active}) :
              files' = [m \in Names |-> IF m \in gone THEN Absent ELSE Written(fetch[w], nodes)[m]]
      BY <2>2 DEF HalfStored
    <3>2. Written(fetch[w], nodes)[n] \in Urls
      BY <3>1, AbsentApart
    <3> QED
      BY <2>2, <3>2, WrittenGenerates DEF HalfStored
  <2>3. ASSUME NEW s \in Subs, HalfDeleted(s) PROVE FALSE
    BY <1>0, <2>3 DEF HalfDeleted, Unlinked
  <2> QED
    BY <1>6, <2>1, <2>2, <2>3 DEF Crash
<1> QED
  BY <1>1, <1>2, <1>3, <1>4, <1>5, <1>6
  DEF Next, Activate, StartRefresh, RefreshUnknown, StartAdd, FetchFailed, vars

\* A config is generated for a subscription that is gone only when the source
\* was removed under its download, by a deletion or by an addition that failed:
\* everything else may overlap, names may look alike and the API may die
\* anywhere (_refresh_subscription, xray_client.py:504, writes after its await
\* without looking at the source again).
THEOREM NothingResurrected == Spec /\ [][RemovedAtRest]_vars => NoResurrection
<1> DEFINE Stored == \A s \in Subs : \A n \in Gen(s) :
                       ~Exists(n) /\ files'[n] \in Urls => keys[s] # Absent
<1>1. Init => TypeOK /\ Sourced
  BY TypeInit DEF Init, Sourced
<1>2. TypeOK /\ Sourced /\ [Next]_vars /\ [RemovedAtRest]_vars => (TypeOK /\ Sourced)'
  BY TypeNext, SourcedNext
<1>3. ASSUME TypeOK, Sourced, [Next]_vars PROVE Stored
  <2> SUFFICES ASSUME NEW s \in Subs, NEW n \in Gen(s), ~Exists(n), files'[n] \in Urls
               PROVE  keys[s] # Absent
    OBVIOUS
  <2>1. n \in Names
    BY DEF Gen, Names
  <2>2. PICK w \in Workers : fetch[w] # Idle /\ n \in Gen(fetch[w].sub)
    BY <1>3, <2>1, OnlyGenerated DEF Generates
  <2>3. fetch[w] \in Fetches /\ fetch[w].sub = s
    BY <1>3, <2>2, InFlight, GenApart DEF Fetches
  <2> QED
    BY <1>3, <2>2, <2>3 DEF Sourced
<1>4. TypeOK /\ Sourced /\ [Next]_vars => [Stored]_vars
  BY <1>3
<1> QED
  BY <1>1, <1>2, <1>4, PTL DEF Spec, NoResurrection

---------------------------------------------------------------------------
(***************************************************************************)
(* HealthCheck: what the mails say, for any passwords.                     *)
(***************************************************************************)

\* As long as the host is up, the state file and the mail last tried agree,
\* except in a run that has sent a mail and not stored the state yet.
HealthInv ==
  /\ at \in {"check", "mail", "store"} => flagged
  /\ at \in {"greet", "flag"} => ~flagged
  /\ ~flagged => stored = "none"
  /\ at = "flag" => tried = "REBOOT"
  /\ flagged /\ at # "store" => (stored = "PROBLEM" <=> tried = "ALERT")
  /\ at = "mail" => prev = stored
  /\ at = "store" => (found = "PROBLEM" <=> tried = "ALERT")

LEMMA HealthTypeStep == HealthTypeOK /\ [HealthNext]_healthVars => HealthTypeOK'
<1> SUFFICES ASSUME HealthTypeOK, [HealthNext]_healthVars PROVE HealthTypeOK'
  OBVIOUS
<1> USE DEF HealthTypeOK
<1>1. ASSUME NEW asked \in Settings, Put(asked) PROVE HealthTypeOK'
  <2>1. Empty \in Settings
    BY DEF Empty, Settings
  <2>2. [asked EXCEPT !.password = conf.password] \in Settings
    BY DEF Settings
  <2> QED
    BY <1>1, <2>1, <2>2 DEF Put
<1>2. CASE Write
  BY <1>2 DEF Write
<1>3. CASE ApiDies
  BY <1>3 DEF ApiDies
<1>4. CASE Begin
  BY <1>4 DEF Begin
<1>5. CASE Greet
  BY <1>5 DEF Greet, Sends, Mails
<1>6. CASE Flag
  BY <1>6 DEF Flag
<1>7. CASE Check
  BY <1>7 DEF Check
<1>8. CASE Notify
  <2>1. Due \subseteq Mails
    BY DEF Due, Mails
  <2> QED
    BY <1>8, <2>1 DEF Notify, Sends
<1>9. CASE Store
  BY <1>9 DEF Store
<1>10. CASE Reboot
  BY <1>10 DEF Reboot
<1>11. CASE UNCHANGED healthVars
  BY <1>11 DEF healthVars
<1> QED
  BY <1>1, <1>2, <1>3, <1>4, <1>5, <1>6, <1>7, <1>8, <1>9, <1>10, <1>11 DEF HealthNext

LEMMA HealthStep ==
  HealthTypeOK /\ HealthInv /\ [HealthNext]_healthVars => HealthInv'
<1> SUFFICES ASSUME HealthTypeOK, HealthInv, [HealthNext]_healthVars PROVE HealthInv'
  OBVIOUS
<1>1. ASSUME NEW asked \in Settings, Put(asked) PROVE HealthInv'
  BY <1>1 DEF HealthInv, Put
<1>2. CASE Write
  BY <1>2 DEF HealthInv, Write
<1>3. CASE ApiDies
  BY <1>3 DEF HealthInv, ApiDies
<1>4. CASE Begin
  BY <1>4 DEF HealthInv, Begin
<1>5. CASE Greet
  BY <1>5 DEF HealthInv, Greet, Sends
<1>6. CASE Flag
  BY <1>6 DEF HealthInv, Flag
<1>7. CASE Check
  BY <1>7 DEF HealthInv, Check
\* A mail that is due says what the state file will say; with none due, the
\* state is the one the last mail was about.
<1>8. CASE Notify
  <2>1. CASE Due = {}
    <3>1. found = "PROBLEM" <=> prev = "PROBLEM"
      BY <2>1 DEF HealthTypeOK, States, Due
    <3> QED
      BY <1>8, <2>1, <3>1 DEF HealthInv, Notify
  <2>2. CASE Due # {}
    <3>1. PICK mail \in Due : Sends(mail)
      BY <1>8, <2>2 DEF Notify
    <3>2. mail = "ALERT" <=> found = "PROBLEM"
      BY <3>1 DEF Due
    <3> QED
      BY <1>8, <3>1, <3>2 DEF HealthInv, Notify, Sends
  <2> QED
    BY <2>1, <2>2
<1>9. CASE Store
  BY <1>9 DEF HealthInv, Store
<1>10. CASE Reboot
  BY <1>10 DEF HealthInv, Reboot
<1>11. CASE UNCHANGED healthVars
  BY <1>11 DEF HealthInv, healthVars
<1> QED
  BY <1>1, <1>2, <1>3, <1>4, <1>5, <1>6, <1>7, <1>8, <1>9, <1>10, <1>11 DEF HealthNext

LEMMA HealthStart == HealthInit => HealthTypeOK /\ HealthInv
BY DEF HealthInit, HealthTypeOK, HealthInv, States

\* What a run of the health check remembers and what its mails said agree.
THEOREM HealthIsSound == HealthSpec => [](HealthTypeOK /\ HealthInv)
<1>1. HealthTypeOK /\ HealthInv /\ [HealthNext]_healthVars => (HealthTypeOK /\ HealthInv)'
  BY HealthTypeStep, HealthStep
<1> QED
  BY HealthStart, <1>1, PTL DEF HealthSpec

\* Whoever has the last mail sent knows whether there is a problem.
THEOREM LastMailIsTrue == HealthSpec => []LastMailTrue
<1>1. HealthInv => LastMailTrue
  BY DEF HealthInv, LastMailTrue
<1> QED
  BY HealthIsSound, <1>1, PTL

\* No mail about a change repeats the one before.
THEOREM MailsAreNotRepeated == HealthSpec => NoMailTwice
<1>1. HealthInv /\ [HealthNext]_healthVars
      => [at = "mail" /\ at' = "store" => tried \notin Due]_healthVars
  BY DEF HealthInv, Due
<1> QED
  BY HealthIsSound, <1>1, PTL DEF HealthSpec, NoMailTwice
===========================================================================
