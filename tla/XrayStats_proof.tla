-------------------------- MODULE XrayStats_proof --------------------------
(***************************************************************************)
(* Proofs about XrayStats: its types, and that no byte is counted twice.   *)
(* An entry is a claim about the past: the totals it holds were reached    *)
(* when the counter stood at last, in an XRay that started at base.  Every *)
(* entry anywhere, in a file or in the hands of a script, must be a claim  *)
(* about a moment that is not in the future, and the sample a script holds *)
(* must be no older than the entries it has read.  And XRay serves other   *)
(* clients than the file's only while an edit is on its way to restart it. *)
(***************************************************************************)
EXTENDS XrayStats, TLAPS

LEMMA EmptyTyped == Empty \in Content /\ NoSample \in Sample
BY DEF Empty, Content, Nothing, Entry, NoSample, Sample, Counter

LEMMA MergedTyped ==
  ASSUME NEW e \in Entry, NEW s \in Counter PROVE Merged(e, s) \in Entry
<1>1. CASE ~s.named
  BY <1>1 DEF Merged
<1>2. CASE s.named
  <2>1. e.total + (IF s.value >= e.last THEN s.value - e.last ELSE s.value) \in Nat
    BY DEF Entry, Counter
  <2> QED
    BY <1>2, <2>1 DEF Merged, Entry, Counter
<1> QED
  BY <1>1, <1>2

LEMMA AnswersTyped == ASSUME TypeOK PROVE Answers \subseteq Sample
<1> SUFFICES ASSUME NEW zeros \in SUBSET live
             PROVE  [u \in Users |-> [named |-> (cnt[u] > 0 \/ u \in zeros), value |-> cnt[u],
                                     base |-> base[u]]] \in Sample
  BY DEF Answers
<1>1. \A u \in Users : [named |-> (cnt[u] > 0 \/ u \in zeros), value |-> cnt[u],
                        base |-> base[u]] \in Counter
  BY SMT DEF TypeOK, Counter
<1> QED
  BY <1>1 DEF Sample

LEMMA InitTyped == Init => TypeOK
<1> SUFFICES ASSUME Init PROVE TypeOK
  OBVIOUS
<1>1. MaxBytes \in Nat /\ MaxEdits \in Nat /\ MaxStops \in Nat /\ MaxKills \in Nat
  BY BoundsAssumption
<1>2. budget \in [Bounded -> Nat]
  BY <1>1 DEF Init, Bounded
<1>3. QED
  BY <1>2, EmptyTyped DEF Init, TypeOK

LEMMA StartTyped ==
  ASSUME TypeOK, StartXray
  PROVE  live' \subseteq Users /\ cnt' \in [Users -> Nat] /\ base' \in [Users -> Nat]
BY DEF TypeOK, StartXray

LEMMA EndTyped ==
  ASSUME TypeOK, NEW r \in Runners, End(r)
  PROVE  /\ job' \in [Runners -> {"idle", "snapshot", "add", "remove"}]
         /\ pc' \in [Runners -> {"idle", "load", "fetch", "merge", "open", "fill", "replace",
                                 "restart"}]
         /\ \A x \in Runners : job'[x] = "idle" <=> pc'[x] = "idle"
         /\ seen' \in [Runners -> Content] /\ sample' \in [Runners -> Sample]
         /\ inode' \in [Runners -> {"none", "tmp", "stats", "gone"}]
BY EmptyTyped DEF TypeOK, End, Goto

LEMMA StepTyped == ASSUME TypeOK, NEW r \in Runners, Step(r) PROVE TypeOK'
<1>1. CASE Load(r)
  BY <1>1 DEF TypeOK, Load, Goto
<1>2. CASE Fetch(r)
  <2>1. sample' \in [Runners -> Sample]
    BY <1>2, AnswersTyped DEF TypeOK, Fetch
  <2> QED
    BY <1>2, <2>1 DEF TypeOK, Fetch, Goto
<1>3. CASE Merge(r)
  <2> DEFINE out == [u \in Users |-> IF u \in clients THEN Merged(seen[r][u], sample[r][u])
                                     ELSE Nothing]
  <2>1. out \in Content
    <3> SUFFICES ASSUME NEW u \in Users
                 PROVE  (IF u \in clients THEN Merged(seen[r][u], sample[r][u]) ELSE Nothing)
                          \in Entry
      BY DEF Content
    <3>1. seen[r][u] \in Entry /\ sample[r][u] \in Counter
      BY DEF TypeOK, Content, Sample
    <3> QED
      BY <3>1, MergedTyped DEF Nothing, Entry
  <2>2. seen' = [seen EXCEPT ![r] = out]
    BY <1>3 DEF Merge
  <2> HIDE DEF out
  <2>3. seen' \in [Runners -> Content]
    BY <2>1, <2>2 DEF TypeOK
  <2> QED
    BY <1>3, <2>3, EmptyTyped DEF TypeOK, Merge, Goto
<1>4. CASE OpenTmp(r)
  BY <1>4, EmptyTyped DEF TypeOK, OpenTmp, Goto
<1>5. CASE Fill(r)
  <2>1. Written(r) \subseteq Content
    BY EmptyTyped DEF TypeOK, Written
  <2> QED
    BY <1>5, <2>1 DEF TypeOK, Fill, Goto
<1>6. CASE Replace(r)
  <2>1. inode' \in [Runners -> {"none", "tmp", "stats", "gone"}]
    BY <1>6 DEF TypeOK, Replace, Renamed
  <2>2. stats' \in Content /\ tmp' \in Content /\ tmpExists' \in BOOLEAN
    BY <1>6, EmptyTyped DEF TypeOK, Replace
  <2>3. seen' \in [Runners -> Content]
    BY <1>6, EmptyTyped DEF TypeOK, Replace
  <2>4. /\ job' \in [Runners -> {"idle", "snapshot", "add", "remove"}]
        /\ pc' \in [Runners -> {"idle", "load", "fetch", "merge", "open", "fill", "replace",
                                "restart"}]
        /\ \A x \in Runners : job'[x] = "idle" <=> pc'[x] = "idle"
    BY <1>6 DEF TypeOK, Replace, Goto
  <2> QED
    BY <1>6, <2>1, <2>2, <2>3, <2>4 DEF TypeOK, Replace
<1>7. CASE Restart(r)
  BY <1>7, StartTyped, EndTyped DEF TypeOK, Restart
<1> QED
  BY <1>1, <1>2, <1>3, <1>4, <1>5, <1>6, <1>7 DEF Step

LEMMA NextTyped == TypeOK /\ [Next]_vars => TypeOK'
<1> SUFFICES ASSUME TypeOK, [Next]_vars PROVE TypeOK'
  OBVIOUS
<1>1. ASSUME NEW u \in Users, Traffic(u) PROVE TypeOK'
  BY <1>1 DEF TypeOK, Traffic, Spend, local, Bounded
<1>2. CASE XrayStops
  <2>1. budget' \in [Bounded -> Nat]
    BY <1>2 DEF TypeOK, XrayStops, Spend, Bounded
  <2>2. {up', tmpExists', overlapped'} \subseteq BOOLEAN
    BY <1>2 DEF TypeOK, XrayStops
  <2> QED
    BY <1>2, <2>1, <2>2 DEF TypeOK, XrayStops, local
<1>3. CASE XrayStarts
  BY <1>3, StartTyped DEF TypeOK, XrayStarts, local
<1>4. ASSUME NEW r \in Runners, BeginSnapshot(r) PROVE TypeOK'
  BY <1>4 DEF TypeOK, BeginSnapshot, Begin, Goto
<1>5. ASSUME NEW r \in Runners, NEW u \in Users, AddClient(r, u) \/ RemoveClient(r, u)
      PROVE  TypeOK'
  <2>1. clients' \subseteq Users
    BY <1>5 DEF TypeOK, AddClient, RemoveClient
  <2>2. PICK what \in {"add", "remove"} : BeginEdit(r, what)
    BY <1>5 DEF AddClient, RemoveClient
  <2> QED
    BY <2>1, <2>2 DEF TypeOK, BeginEdit, Begin, Goto, Spend, Bounded
<1>6. ASSUME NEW r \in Runners, Killed(r) PROVE TypeOK'
  <2>1. /\ job' \in [Runners -> {"idle", "snapshot", "add", "remove"}]
        /\ pc' \in [Runners -> {"idle", "load", "fetch", "merge", "open", "fill", "replace",
                                "restart"}]
        /\ \A x \in Runners : job'[x] = "idle" <=> pc'[x] = "idle"
        /\ seen' \in [Runners -> Content] /\ sample' \in [Runners -> Sample]
        /\ inode' \in [Runners -> {"none", "tmp", "stats", "gone"}]
    <3>1. CASE End(r)
      BY <3>1, EndTyped
    <3>2. CASE job' = [job EXCEPT ![r] = "snapshot"] /\ UNCHANGED <<pc, seen, sample, inode>>
      BY <1>6, <3>2 DEF TypeOK, Killed, Idle
    <3> QED
      BY <1>6, <3>1, <3>2 DEF Killed
  <2> QED
    BY <1>6, <2>1 DEF TypeOK, Killed, Spend, Bounded
<1>7. CASE UNCHANGED vars
  BY <1>7 DEF TypeOK, vars, local
<1> QED
  BY <1>1, <1>2, <1>3, <1>4, <1>5, <1>6, <1>7, StepTyped DEF Next

\* The state keeps its types; a runner is idle exactly when it has no job.
THEOREM StatsTyped == Spec => []TypeOK
<1> QED
  BY InitTyped, NextTyped, PTL DEF Spec

---------------------------------------------------------------------------
(* No byte is counted twice.                                               *)

\* A counter at c, in an XRay that started at b, is no later than one at d in
\* an XRay that started at a.
Before(b, c, a, d) == (b = a /\ c <= d) \/ b + c <= a

\* What entry e claims was true when the counter was no further than d.
Claims(e, a, d) == e.total <= e.base + e.last /\ Before(e.base, e.last, a, d)

LEMMA TotalBounded ==
  ASSUME NEW e \in Entry, NEW a \in Nat, NEW d \in Nat, Claims(e, a, d)
  PROVE  e.total <= a + d
BY DEF Claims, Before, Entry

LEMMA NothingClaims == \A a, d \in Nat : Claims(Nothing, a, d)
BY DEF Claims, Before, Nothing

\* The counter may go on, and XRay may start again.
LEMMA ClaimsLater ==
  ASSUME NEW e \in Entry, NEW a \in Nat, NEW d \in Nat, Claims(e, a, d)
  PROVE  Claims(e, a, d + 1) /\ Claims(e, a + d, 0)
BY DEF Claims, Before, Entry

LEMMA BeforeLater ==
  ASSUME NEW b \in Nat, NEW c \in Nat, NEW a \in Nat, NEW d \in Nat, Before(b, c, a, d)
  PROVE  Before(b, c, a, d + 1) /\ Before(b, c, a + d, 0)
BY DEF Before

\* An entry merged with a sample no older than it claims what was sampled.
LEMMA MergedClaims ==
  ASSUME NEW e \in Entry, NEW s \in Counter, s.named,
         NEW a \in Nat, NEW d \in Nat,
         Claims(e, s.base, s.value), Before(s.base, s.value, a, d)
  PROVE  Claims(Merged(e, s), a, d)
<1> DEFINE m == Merged(e, s)
<1>1. /\ m.last = s.value /\ m.base = s.base
      /\ m.total = e.total + (IF s.value >= e.last THEN s.value - e.last ELSE s.value)
  BY DEF Merged
<1>2. m.total <= m.base + m.last
  <2>1. CASE s.value >= e.last
    BY <1>1, <2>1 DEF Claims, Before, Entry, Counter
  <2>2. CASE ~(s.value >= e.last)
    BY <1>1, <2>2 DEF Claims, Before, Entry, Counter
  <2> QED
    BY <2>1, <2>2
<1>3. QED
  BY <1>1, <1>2 DEF Claims

InFiles == \A u \in Users : Claims(stats[u], base[u], cnt[u]) /\ Claims(tmp[u], base[u], cnt[u])
InHands == \A r \in Runners, u \in Users : Claims(seen[r][u], base[u], cnt[u])
Fresh == \A r \in Runners : pc[r] # "merge" => sample[r] = NoSample
Sampled ==
  \A r \in Runners, u \in Users :
    sample[r][u].named =>
      /\ Claims(seen[r][u], sample[r][u].base, sample[r][u].value)
      /\ Before(sample[r][u].base, sample[r][u].value, base[u], cnt[u])
Past == InFiles /\ InHands /\ Fresh /\ Sampled

LEMMA PastInit == Init => Past
<1> SUFFICES ASSUME Init PROVE Past
  OBVIOUS
<1>1. \A u \in Users : base[u] = 0 /\ cnt[u] = 0 /\ stats[u] = Nothing /\ tmp[u] = Nothing
  BY DEF Init, Empty
<1>2. \A r \in Runners :
        /\ sample[r] = NoSample
        /\ \A u \in Users : seen[r][u] = Nothing /\ ~sample[r][u].named
  BY DEF Init, Empty, NoSample
<1>3. Claims(Nothing, 0, 0)
  BY NothingClaims
<1> QED
  BY <1>1, <1>2, <1>3 DEF Past, InFiles, InHands, Fresh, Sampled

\* The clock of a user: the counter goes on by one, or XRay starts again.
Ticks(u) ==
  \/ base'[u] = base[u] /\ cnt'[u] \in {cnt[u], cnt[u] + 1}
  \/ base'[u] = base[u] + cnt[u] /\ cnt'[u] = 0

LEMMA TicksClaims ==
  ASSUME TypeOK, NEW u \in Users, Ticks(u), NEW e \in Entry, Claims(e, base[u], cnt[u])
  PROVE  Claims(e, base'[u], cnt'[u])
<1>1. base[u] \in Nat /\ cnt[u] \in Nat
  BY DEF TypeOK
<1>2. Claims(e, base[u], cnt[u] + 1) /\ Claims(e, base[u] + cnt[u], 0)
  BY <1>1, ClaimsLater
<1> QED
  BY <1>2 DEF Ticks

LEMMA TicksBefore ==
  ASSUME TypeOK, NEW u \in Users, Ticks(u), NEW b \in Nat, NEW c \in Nat,
         Before(b, c, base[u], cnt[u])
  PROVE  Before(b, c, base'[u], cnt'[u])
<1>1. base[u] \in Nat /\ cnt[u] \in Nat
  BY DEF TypeOK
<1>2. Before(b, c, base[u], cnt[u] + 1) /\ Before(b, c, base[u] + cnt[u], 0)
  BY <1>1, BeforeLater
<1> QED
  BY <1>2 DEF Ticks

\* Time passes, while files and hands keep or drop what they hold.
LEMMA PastTicks ==
  ASSUME TypeOK, Past,
         \A u \in Users : Ticks(u),
         stats' = stats, tmp' = tmp,
         \A r \in Runners :
           \/ /\ seen'[r] = seen[r] /\ sample'[r] = sample[r]
              /\ pc'[r] # "merge" => pc[r] # "merge"
           \/ seen'[r] = Empty /\ sample'[r] = NoSample
  PROVE  Past'
<1>1. InFiles'
  BY TicksClaims DEF Past, InFiles, TypeOK, Content
<1>2. \A u \in Users : Claims(Nothing, base'[u], cnt'[u])
  <2>1. \A u \in Users : Nothing \in Entry /\ Claims(Nothing, base[u], cnt[u])
    BY NothingClaims DEF TypeOK, Nothing, Entry
  <2> QED
    BY <2>1, TicksClaims
<1>3. InHands'
  <2> SUFFICES ASSUME NEW r \in Runners, NEW u \in Users
               PROVE  Claims(seen'[r][u], base'[u], cnt'[u])
    BY DEF InHands
  <2>1. CASE seen'[r] = seen[r]
    BY <2>1, TicksClaims DEF Past, InHands, TypeOK, Content
  <2>2. CASE seen'[r] = Empty
    BY <2>2, <1>2 DEF Empty
  <2> QED
    BY <2>1, <2>2
<1>4. Fresh'
  BY DEF Past, Fresh
<1>5. Sampled'
  <2> SUFFICES ASSUME NEW r \in Runners, NEW u \in Users, sample'[r][u].named
               PROVE  /\ Claims(seen'[r][u], sample'[r][u].base, sample'[r][u].value)
                      /\ Before(sample'[r][u].base, sample'[r][u].value, base'[u], cnt'[u])
    BY DEF Sampled
  <2>1. seen'[r] = seen[r] /\ sample'[r] = sample[r]
    BY DEF NoSample
  <2>2. sample[r][u].base \in Nat /\ sample[r][u].value \in Nat
    BY DEF TypeOK, Sample, Counter
  <2>3. Before(sample[r][u].base, sample[r][u].value, base[u], cnt[u])
    BY <2>1 DEF Past, Sampled
  <2>4. Before(sample[r][u].base, sample[r][u].value, base'[u], cnt'[u])
    BY <2>2, <2>3, TicksBefore
  <2> QED
    BY <2>1, <2>4 DEF Past, Sampled
<1> QED
  BY <1>1, <1>3, <1>4, <1>5 DEF Past

LEMMA NothingNow == ASSUME TypeOK, NEW u \in Users PROVE Claims(Nothing, base[u], cnt[u])
BY NothingClaims DEF TypeOK

LEMMA PastLoad == ASSUME TypeOK, Past, NEW r \in Runners, Load(r) PROVE Past'
<1>1. /\ seen' = [seen EXCEPT ![r] = stats] /\ sample' = sample /\ pc' = [pc EXCEPT ![r] = "fetch"]
      /\ stats' = stats /\ tmp' = tmp /\ base' = base /\ cnt' = cnt /\ pc[r] = "load"
  BY DEF Load, Goto
<1>2. InFiles' /\ Fresh'
  BY <1>1 DEF Past, InFiles, Fresh, TypeOK
<1>3. InHands'
  BY <1>1 DEF Past, InHands, InFiles, TypeOK
<1>4. \A u \in Users : ~sample[r][u].named
  BY <1>1 DEF Past, Fresh, NoSample
<1>5. Sampled'
  BY <1>1, <1>4 DEF Past, Sampled, TypeOK
<1> QED
  BY <1>2, <1>3, <1>5 DEF Past

LEMMA PastFetch == ASSUME TypeOK, Past, NEW r \in Runners, Fetch(r) PROVE Past'
<1>1. /\ seen' = seen /\ pc' = [pc EXCEPT ![r] = "merge"] /\ pc[r] = "fetch"
      /\ stats' = stats /\ tmp' = tmp /\ base' = base /\ cnt' = cnt
  BY DEF Fetch, Goto
<1>2. InFiles' /\ InHands'
  BY <1>1 DEF Past, InFiles, InHands
<1>3. \A x \in Runners : x # r => sample'[x] = sample[x]
  BY DEF Fetch, TypeOK
<1>4. Fresh'
  BY <1>1, <1>3 DEF Past, Fresh, TypeOK
<1>5. \A u \in Users : sample'[r][u].named =>
        sample'[r][u].value = cnt[u] /\ sample'[r][u].base = base[u]
  <2>1. \A u \in Users : ~sample[r][u].named
    BY <1>1 DEF Past, Fresh, NoSample
  <2>2. CASE sample' = sample
    BY <2>1, <2>2
  <2>3. ASSUME NEW answer \in Answers, sample' = [sample EXCEPT ![r] = answer]
        PROVE  \A u \in Users : sample'[r][u].value = cnt[u] /\ sample'[r][u].base = base[u]
    <3>1. sample'[r] = answer
      BY <2>3 DEF TypeOK
    <3>2. \A u \in Users : answer[u].value = cnt[u] /\ answer[u].base = base[u]
      BY DEF Answers
    <3> QED
      BY <3>1, <3>2
  <2> QED
    BY <2>2, <2>3 DEF Fetch
<1>6. \A u \in Users : Before(base[u], cnt[u], base[u], cnt[u])
  BY DEF Before, TypeOK
<1>7. Sampled'
  <2> SUFFICES ASSUME NEW x \in Runners, NEW u \in Users, sample'[x][u].named
               PROVE  /\ Claims(seen[x][u], sample'[x][u].base, sample'[x][u].value)
                      /\ Before(sample'[x][u].base, sample'[x][u].value, base[u], cnt[u])
    BY <1>1 DEF Sampled
  <2>1. CASE x = r
    BY <1>5, <1>6, <2>1 DEF Past, InHands
  <2>2. CASE x # r
    BY <1>3, <2>2 DEF Past, Sampled
  <2> QED
    BY <2>1, <2>2
<1> QED
  BY <1>2, <1>4, <1>7 DEF Past

LEMMA PastMerge == ASSUME TypeOK, Past, NEW r \in Runners, Merge(r) PROVE Past'
<1>1. /\ sample' = [sample EXCEPT ![r] = NoSample] /\ pc' = [pc EXCEPT ![r] = "open"]
      /\ stats' = stats /\ tmp' = tmp /\ base' = base /\ cnt' = cnt
      /\ seen' = [seen EXCEPT ![r] =
           [u \in Users |-> IF u \in clients THEN Merged(seen[r][u], sample[r][u]) ELSE Nothing]]
  BY DEF Merge, Goto
<1>2. InFiles' /\ Fresh'
  BY <1>1 DEF Past, InFiles, Fresh, TypeOK
<1>3. \A x \in Runners : x # r => seen'[x] = seen[x] /\ sample'[x] = sample[x]
  BY <1>1 DEF TypeOK
<1>4. \A u \in Users : Claims(Merged(seen[r][u], sample[r][u]), base[u], cnt[u])
  <2> SUFFICES ASSUME NEW u \in Users
               PROVE  Claims(Merged(seen[r][u], sample[r][u]), base[u], cnt[u])
    OBVIOUS
  <2>1. /\ seen[r][u] \in Entry /\ sample[r][u] \in Counter
        /\ base[u] \in Nat /\ cnt[u] \in Nat
    BY DEF TypeOK, Content, Sample
  <2>2. CASE ~sample[r][u].named
    BY <2>2 DEF Merged, Past, InHands
  <2>3. CASE sample[r][u].named
    BY <2>1, <2>3, MergedClaims DEF Past, Sampled
  <2> QED
    BY <2>2, <2>3
<1>5. InHands'
  <2> SUFFICES ASSUME NEW x \in Runners, NEW u \in Users PROVE Claims(seen'[x][u], base[u], cnt[u])
    BY <1>1 DEF InHands
  <2>1. CASE x # r
    BY <1>3, <2>1 DEF Past, InHands
  <2>2. CASE x = r
    <3>1. seen'[r][u] = IF u \in clients THEN Merged(seen[r][u], sample[r][u]) ELSE Nothing
      BY <1>1 DEF TypeOK
    <3> QED
      BY <1>4, <2>2, <3>1, NothingNow
  <2> QED
    BY <2>1, <2>2
<1>6. \A u \in Users : ~sample'[r][u].named
  BY <1>1 DEF TypeOK, NoSample
<1>7. Sampled'
  BY <1>1, <1>3, <1>6 DEF Past, Sampled
<1> QED
  BY <1>2, <1>5, <1>7 DEF Past

\* What is in the files afterwards was in a file or in a hand, or is nothing.
LEMMA PastFiles ==
  ASSUME TypeOK, Past, base' = base, cnt' = cnt,
         NEW held \in SUBSET Content, stats' \in held, tmp' \in held,
         \A c \in held : c = stats \/ c = tmp \/ c = Empty \/ \E r \in Runners : c = seen[r],
         sample' = sample,
         \A r \in Runners :
           /\ pc'[r] = "merge" => pc[r] = "merge"
           /\ pc[r] = "merge" => pc'[r] = "merge" /\ seen'[r] = seen[r]
           /\ seen'[r] = seen[r] \/ seen'[r] = Empty
  PROVE  Past'
<1>1. \A c \in held, u \in Users : Claims(c[u], base[u], cnt[u])
  BY NothingNow DEF Past, InFiles, InHands, Empty
<1>2. InFiles'
  BY <1>1 DEF InFiles
<1>3. InHands'
  BY NothingNow DEF Past, InHands, Empty
<1>4. Fresh'
  BY DEF Past, Fresh
<1>5. Sampled'
  <2> SUFFICES ASSUME NEW r \in Runners, NEW u \in Users, sample[r][u].named
               PROVE  /\ Claims(seen'[r][u], sample[r][u].base, sample[r][u].value)
                      /\ Before(sample[r][u].base, sample[r][u].value, base[u], cnt[u])
    BY DEF Sampled
  <2>1. seen'[r] = seen[r]
    BY DEF Past, Fresh, NoSample
  <2> QED
    BY <2>1 DEF Past, Sampled
<1> QED
  BY <1>2, <1>3, <1>4, <1>5 DEF Past

LEMMA PastOpen == ASSUME TypeOK, Past, NEW r \in Runners, OpenTmp(r) PROVE Past'
<1>1. {stats, Empty} \in SUBSET Content
  BY EmptyTyped DEF TypeOK
<1> QED
  BY <1>1, PastFiles DEF OpenTmp, Goto, TypeOK

LEMMA PastFill == ASSUME TypeOK, Past, NEW r \in Runners, Fill(r) PROVE Past'
<1>1. {stats, tmp, seen[r], Empty} \in SUBSET Content
  BY EmptyTyped DEF TypeOK
<1>2. stats' \in {stats, tmp, seen[r], Empty} /\ tmp' \in {stats, tmp, seen[r], Empty}
  BY DEF Fill, Written
<1> QED
  BY <1>1, <1>2, PastFiles DEF Fill, Goto, TypeOK

LEMMA PastReplace == ASSUME TypeOK, Past, NEW r \in Runners, Replace(r) PROVE Past'
<1>1. {stats, tmp, Empty} \in SUBSET Content
  BY EmptyTyped DEF TypeOK
<1>2. stats' \in {stats, tmp, Empty} /\ tmp' \in {stats, tmp, Empty}
  BY DEF Replace
<1>3. \A x \in Runners :
        /\ pc'[x] = "merge" => pc[x] = "merge"
        /\ pc[x] = "merge" => pc'[x] = "merge" /\ seen'[x] = seen[x]
        /\ seen'[x] = seen[x] \/ seen'[x] = Empty
  BY DEF Replace, Goto, TypeOK
<1> QED
  BY <1>1, <1>2, <1>3, PastFiles DEF Replace

LEMMA StartTicks == ASSUME TypeOK, StartXray PROVE \A u \in Users : Ticks(u)
BY DEF StartXray, Ticks

LEMMA StillTicks == ASSUME TypeOK, base' = base, cnt' = cnt PROVE \A u \in Users : Ticks(u)
BY DEF Ticks

LEMMA PastNext == TypeOK /\ Past /\ [Next]_vars => Past'
<1> SUFFICES ASSUME TypeOK, Past, [Next]_vars PROVE Past'
  OBVIOUS
<1>1. ASSUME NEW u \in Users, Traffic(u) PROVE Past'
  <2>1. \A x \in Users : Ticks(x)
    BY <1>1 DEF Traffic, Ticks, TypeOK
  <2> QED
    BY <1>1, <2>1, PastTicks DEF Traffic, local
<1>2. CASE XrayStops
  BY <1>2, StillTicks, PastTicks DEF XrayStops, local
<1>3. CASE XrayStarts
  BY <1>3, StartTicks, PastTicks DEF XrayStarts, local
<1>4. ASSUME NEW r \in Runners, NEW what, Begin(r, what) PROVE Past'
  <2>1. \A x \in Runners : pc'[x] # "merge" => pc[x] # "merge"
    BY <1>4 DEF Begin, Goto, Idle, TypeOK
  <2> QED
    BY <1>4, <2>1, StillTicks, PastTicks DEF Begin
<1>5. ASSUME NEW r \in Runners, End(r), stats' = stats, tmp' = tmp, \A u \in Users : Ticks(u)
      PROVE  Past'
  <2>1. \A x \in Runners :
          \/ /\ seen'[x] = seen[x] /\ sample'[x] = sample[x]
             /\ pc'[x] # "merge" => pc[x] # "merge"
          \/ seen'[x] = Empty /\ sample'[x] = NoSample
    BY <1>5 DEF End, Goto, TypeOK
  <2> QED
    BY <1>5, <2>1, PastTicks
<1>6. ASSUME NEW r \in Runners, Restart(r) PROVE Past'
  BY <1>5, <1>6, StartTicks, StillTicks DEF Restart
<1>7. ASSUME NEW r \in Runners, Killed(r) PROVE Past'
  <2>1. \A u \in Users : Ticks(u)
    BY <1>7, StillTicks DEF Killed
  <2>2. CASE End(r)
    BY <1>5, <1>7, <2>1, <2>2 DEF Killed
  <2>3. CASE UNCHANGED <<pc, seen, sample, inode>>
    BY <1>7, <2>1, <2>3, PastTicks DEF Killed
  <2> QED
    BY <1>7, <2>2, <2>3 DEF Killed
<1>8. CASE UNCHANGED vars
  BY <1>8, StillTicks, PastTicks DEF vars, local
<1>9. ASSUME NEW r \in Runners, Step(r) PROVE Past'
  BY <1>6, <1>9, PastLoad, PastFetch, PastMerge, PastOpen, PastFill, PastReplace DEF Step
<1> QED
  BY <1>1, <1>2, <1>3, <1>4, <1>7, <1>8, <1>9 DEF Next, BeginSnapshot, AddClient, RemoveClient,
     BeginEdit

\* However many snapshots overlap, on one temporary file, and whenever XRay
\* starts again in between, no total exceeds what the user has sent.
THEOREM NothingCountedTwice == Spec => []NeverOvercounts
<1>1. TypeOK /\ Past => NeverOvercounts
  BY TotalBounded DEF TypeOK, Past, InFiles, NeverOvercounts, Content
<1> QED
  BY <1>1, InitTyped, NextTyped, PastInit, PastNext, PTL DEF Spec

---------------------------------------------------------------------------
(* What XRay serves.                                                       *)

Editing == \E r \in Runners : job[r] \in {"add", "remove"}

Pending ==
  /\ budget["kills"] <= MaxKills
  /\ budget["kills"] = MaxKills /\ up /\ live # clients => Editing

LEMMA PendingInit == Init => Pending
BY BoundsAssumption DEF Init, Pending, Bounded

\* Whoever else begins, goes on or ends, an edit stays on its way.
LEMMA PendingKept ==
  ASSUME Pending, UNCHANGED <<clients, up, live>>, budget'["kills"] = budget["kills"],
         \A r \in Runners : job[r] \in {"add", "remove"} => job'[r] = job[r]
  PROVE  Pending'
<1>1. Editing => Editing'
  BY DEF Editing
<1> QED
  BY <1>1 DEF Pending

LEMMA PendingNext == TypeOK /\ Pending /\ [Next]_vars => Pending'
<1> SUFFICES ASSUME TypeOK, Pending, [Next]_vars PROVE Pending'
  OBVIOUS
<1>1. ASSUME NEW u \in Users, Traffic(u) PROVE Pending'
  <2>1. UNCHANGED <<clients, up, live, job>> /\ budget'["kills"] = budget["kills"]
    BY <1>1 DEF Traffic, Spend, local, TypeOK, Bounded
  <2> QED
    BY <2>1, PendingKept
<1>2. CASE XrayStops
  BY <1>2 DEF XrayStops, Spend, TypeOK, Bounded, Pending
<1>3. CASE XrayStarts
  BY <1>3 DEF XrayStarts, StartXray, Pending
<1>4. ASSUME NEW r \in Runners, BeginSnapshot(r) PROVE Pending'
  <2>1. \A x \in Runners : job[x] \in {"add", "remove"} => job'[x] = job[x]
    BY <1>4 DEF BeginSnapshot, Begin, Idle, TypeOK
  <2> QED
    BY <1>4, <2>1, PendingKept DEF BeginSnapshot, Begin
<1>5. ASSUME NEW r \in Runners, NEW what \in {"add", "remove"}, BeginEdit(r, what) PROVE Pending'
  <2>1. Editing'
    BY <1>5 DEF BeginEdit, Begin, TypeOK, Editing
  <2>2. budget'["kills"] = budget["kills"]
    BY <1>5 DEF BeginEdit, Spend, TypeOK, Bounded
  <2> QED
    BY <2>1, <2>2 DEF Pending
<1>6. ASSUME NEW r \in Runners, Load(r) \/ Fetch(r) \/ Merge(r) \/ OpenTmp(r) \/ Fill(r)
      PROVE  Pending'
  BY <1>6, PendingKept DEF Load, Fetch, Merge, OpenTmp, Fill
<1>7. ASSUME NEW r \in Runners, Replace(r) PROVE Pending'
  <2>1. \A x \in Runners : job[x] \in {"add", "remove"} => job'[x] = job[x]
    BY <1>7 DEF Replace, TypeOK
  <2> QED
    BY <1>7, <2>1, PendingKept DEF Replace
<1>8. ASSUME NEW r \in Runners, Restart(r) PROVE Pending'
  BY <1>8 DEF Restart, StartXray, Pending
<1>9. ASSUME NEW r \in Runners, Killed(r) PROVE Pending'
  <2>1. budget'["kills"] < MaxKills /\ budget'["kills"] \in Nat
    BY <1>9, BoundsAssumption DEF Killed, Spend, TypeOK, Bounded, Pending
  <2> QED
    BY <2>1, BoundsAssumption DEF Pending
<1>10. CASE UNCHANGED vars
  BY <1>10, PendingKept DEF vars, local
<1> QED
  BY <1>1, <1>2, <1>3, <1>4, <1>5, <1>6, <1>7, <1>8, <1>9, <1>10 DEF Next, Step, AddClient, RemoveClient

\* When no script runs and none was killed, XRay serves exactly the clients of
\* the file (vpngw-xray-add-client.py, vpngw-xray-remove-client.py).
THEOREM ServesTheClients == Spec => []InForce
<1>1. TypeOK /\ Pending => InForce
  BY DEF TypeOK, Pending, Editing, InForce, AllIdle, Idle
<1> QED
  BY <1>1, InitTyped, NextTyped, PendingInit, PendingNext, PTL DEF Spec

---------------------------------------------------------------------------
(* The totals of a client that is not revoked.                             *)

OneAtWork == \A r, x \in Runners : ~Idle(r) /\ ~Idle(x) => r = x

\* Only what is being filled or about to be renamed is open, and what will be
\* in stats.json next is no lower than what is there.
Floor(r) ==
  /\ inode[r] = IF pc[r] \in {"fill", "replace"} THEN "tmp" ELSE "none"
  /\ pc[r] \in {"fetch", "merge", "open", "fill"} =>
       \A u \in clients : seen[r][u].total >= stats[u].total
  /\ pc[r] = "replace" => \A u \in clients : tmp[u].total >= stats[u].total

Floors == ~overlapped => OneAtWork /\ \A r \in Runners : Floor(r)

Kept == \A u \in clients \cap clients' : stats'[u].total >= stats[u].total

LEMMA FloorsInit == Init => Floors
BY DEF Init, Floors, OneAtWork, Floor, Idle

\* A sample only adds.
LEMMA MergedGrows ==
  ASSUME NEW e \in Entry, NEW s \in Counter PROVE Merged(e, s).total >= e.total
<1>1. CASE ~s.named
  BY <1>1 DEF Merged, Entry
<1>2. CASE s.named
  <2>1. e.total + (IF s.value >= e.last THEN s.value - e.last ELSE s.value) >= e.total
    BY DEF Entry, Counter
  <2> QED
    BY <1>2, <2>1 DEF Merged
<1> QED
  BY <1>1, <1>2

\* No total changes; each runner goes on, with nothing open, or ends.
LEMMA FloorsQuiet ==
  ASSUME TypeOK, Floors, overlapped' = overlapped, clients' = clients, stats' = stats, tmp' = tmp,
         \A r \in Runners :
           \/ pc'[r] = pc[r] /\ seen'[r] = seen[r] /\ inode'[r] = inode[r]
           \/ pc'[r] = "idle" /\ inode'[r] = "none"
  PROVE  Floors' /\ Kept
<1>1. Kept
  BY DEF Kept, TypeOK, Content, Entry
<1>2. ASSUME ~overlapped PROVE OneAtWork' /\ \A r \in Runners : Floor(r)'
  <2>1. OneAtWork'
    BY <1>2 DEF Floors, OneAtWork, Idle
  <2>2. ASSUME NEW r \in Runners PROVE Floor(r)'
    <3>1. Floor(r)
      BY <1>2 DEF Floors
    <3>2. CASE pc'[r] = pc[r] /\ seen'[r] = seen[r] /\ inode'[r] = inode[r]
      BY <3>1, <3>2 DEF Floor
    <3>3. CASE pc'[r] = "idle" /\ inode'[r] = "none"
      BY <3>3 DEF Floor
    <3> QED
      BY <3>2, <3>3
  <2> QED
    BY <2>1, <2>2
<1> QED
  BY <1>1, <1>2 DEF Floors

\* A script that begins begins alone, or the runners have overlapped.
LEMMA FloorsBegin ==
  ASSUME TypeOK, Floors, NEW r \in Runners, NEW what, Begin(r, what)
  PROVE  Floors' /\ Kept
<1>1. Kept
  BY DEF Kept, Begin, TypeOK, Content, Entry
<1>2. ASSUME ~overlapped' PROVE OneAtWork' /\ \A x \in Runners : Floor(x)'
  <2>1. ~overlapped /\ AllIdle
    BY <1>2 DEF Begin, TypeOK
  <2>2. pc' = [pc EXCEPT ![r] = "load"] /\ inode' = inode
    BY DEF Begin, Goto
  <2>3. \A x \in Runners : pc[x] = "idle" /\ inode[x] = "none"
    BY <2>1 DEF Floors, Floor, AllIdle, Idle
  <2>4. \A x \in Runners : pc'[x] \in {"idle", "load"} /\ (x # r => pc'[x] = "idle")
    BY <2>2, <2>3 DEF TypeOK
  <2> QED
    BY <2>2, <2>3, <2>4 DEF OneAtWork, Floor, Idle
<1> QED
  BY <1>1, <1>2 DEF Floors

\* A runner that works works alone: the others are idle, and stay as they are.
LEMMA FloorsWorker ==
  ASSUME TypeOK, Floors, NEW r \in Runners, ~Idle(r), overlapped' = overlapped,
         \A x \in Runners : x # r => pc'[x] = pc[x] /\ (Idle(x) => inode'[x] = inode[x]),
         ~overlapped => Floor(r)'
  PROVE  Floors'
<1> SUFFICES ASSUME ~overlapped PROVE OneAtWork' /\ \A x \in Runners : Floor(x)'
  BY DEF Floors
<1>1. \A x \in Runners : x # r => pc[x] = "idle" /\ inode[x] = "none"
  BY DEF Floors, OneAtWork, Floor, Idle
<1>2. \A x \in Runners : x # r => pc'[x] = "idle" /\ inode'[x] = "none"
  BY <1>1 DEF Idle
<1> QED
  BY <1>2 DEF OneAtWork, Floor, Idle

LEMMA FloorsMerge ==
  ASSUME TypeOK, Floors, NEW r \in Runners, Merge(r) PROVE Floors' /\ Kept
<1>1. Kept
  BY DEF Kept, Merge, TypeOK, Content, Entry
<1>2. ASSUME ~overlapped, NEW u \in clients PROVE seen'[r][u].total >= stats[u].total
  <2>1. u \in Users /\ seen[r][u] \in Entry /\ sample[r][u] \in Counter /\ stats[u] \in Entry
    BY DEF TypeOK, Content, Sample
  <2>2. seen[r][u].total >= stats[u].total
    BY <1>2 DEF Floors, Floor, Merge
  <2>3. seen'[r][u] = Merged(seen[r][u], sample[r][u])
    BY <2>1 DEF Merge, TypeOK
  <2>4. Merged(seen[r][u], sample[r][u]) \in Entry
    BY <2>1, MergedTyped
  <2>5. Merged(seen[r][u], sample[r][u]).total >= seen[r][u].total
    BY <2>1, MergedGrows
  <2> QED
    BY <2>1, <2>2, <2>3, <2>4, <2>5 DEF Entry
<1>3. /\ pc' = [pc EXCEPT ![r] = "open"] /\ inode' = inode /\ pc[r] = "merge"
      /\ clients' = clients /\ stats' = stats
  BY DEF Merge, Goto
<1>4. ~overlapped => Floor(r)'
  BY <1>2, <1>3 DEF Floors, Floor, TypeOK
<1>5. Floors'
  BY <1>3, <1>4, FloorsWorker DEF Merge, Idle, TypeOK
<1> QED
  BY <1>1, <1>5

LEMMA FloorsFill ==
  ASSUME TypeOK, Floors, NEW r \in Runners, Fill(r) PROVE Floors' /\ (~overlapped' => Kept)
<1>1. /\ pc[r] = "fill" /\ pc' = [pc EXCEPT ![r] = "replace"] /\ inode' = inode /\ seen' = seen
      /\ clients' = clients /\ overlapped' = overlapped
  BY DEF Fill, Goto
<1>2. ASSUME ~overlapped PROVE tmp' = seen[r] /\ stats' = stats
  <2>1. inode[r] = "tmp" /\ \A x \in Runners \ {r} : inode[x] = "none"
    BY <1>1, <1>2 DEF Floors, Floor, OneAtWork, Idle
  <2>2. Written(r) = {seen[r]}
    BY <2>1 DEF Written
  <2> QED
    BY <2>1, <2>2 DEF Fill
<1>3. ~overlapped => Floor(r)'
  BY <1>1, <1>2 DEF Floors, Floor, TypeOK
<1>4. Floors'
  BY <1>1, <1>3, FloorsWorker DEF Idle, TypeOK
<1>5. ~overlapped => Kept
  BY <1>1, <1>2 DEF Kept, TypeOK, Content, Entry
<1> QED
  BY <1>1, <1>4, <1>5

LEMMA FloorsReplace ==
  ASSUME TypeOK, Floors, NEW r \in Runners, Replace(r) PROVE Floors' /\ (~overlapped' => Kept)
<1>1. /\ pc[r] = "replace" /\ pc'[r] \in {"idle", "restart"} /\ inode'[r] = "none"
      /\ \A x \in Runners : x # r => pc'[x] = pc[x]
      /\ clients' = clients /\ overlapped' = overlapped
  BY DEF Replace, Goto, TypeOK
<1>2. \A x \in Runners : x # r /\ inode[x] = "none" => inode'[x] = "none"
  BY DEF Replace, Renamed, TypeOK
<1>3. ~overlapped => Floor(r)'
  BY <1>1 DEF Floor
<1>4. ~overlapped => \A x \in Runners : x # r /\ Idle(x) => inode'[x] = inode[x]
  BY <1>2 DEF Floors, Floor, Idle
<1>5. Floors'
  <2>1. CASE overlapped
    BY <1>1, <2>1 DEF Floors
  <2>2. CASE ~overlapped
    BY <1>1, <1>3, <1>4, <2>2, FloorsWorker DEF Idle
  <2> QED
    BY <2>1, <2>2
<1>6. ASSUME ~overlapped PROVE Kept
  <2>1. stats' = tmp \/ stats' = stats
    BY DEF Replace
  <2>2. \A u \in clients : tmp[u].total >= stats[u].total
    BY <1>1, <1>6 DEF Floors, Floor
  <2> QED
    BY <1>1, <2>1, <2>2 DEF Kept, TypeOK, Content, Entry
<1> QED
  BY <1>1, <1>5, <1>6

LEMMA FloorsNext == TypeOK /\ Floors /\ [Next]_vars => Floors' /\ (~overlapped' => Kept)
<1> SUFFICES ASSUME TypeOK, Floors, [Next]_vars PROVE Floors' /\ (~overlapped' => Kept)
  OBVIOUS
<1>1. ASSUME NEW u \in Users, Traffic(u) PROVE Floors' /\ Kept
  BY <1>1, FloorsQuiet DEF Traffic, local
<1>2. CASE XrayStops \/ XrayStarts
  BY <1>2, FloorsQuiet DEF XrayStops, XrayStarts, local
<1>3. ASSUME NEW r \in Runners, NEW what, Begin(r, what) PROVE Floors' /\ Kept
  BY <1>3, FloorsBegin
<1>4. ASSUME NEW r \in Runners, Load(r) PROVE Floors' /\ Kept
  <2>1. /\ pc[r] = "load" /\ pc' = [pc EXCEPT ![r] = "fetch"] /\ inode' = inode
        /\ seen' = [seen EXCEPT ![r] = stats] /\ clients' = clients /\ stats' = stats
        /\ overlapped' = overlapped
    BY <1>4 DEF Load, Goto
  <2>2. \A u \in clients : stats[u].total >= stats[u].total
    BY DEF TypeOK, Content, Entry
  <2>3. ~overlapped => Floor(r)'
    BY <2>1, <2>2 DEF Floors, Floor, TypeOK
  <2>4. Floors'
    BY <2>1, <2>3, FloorsWorker DEF Idle, TypeOK
  <2>5. Kept
    BY <2>1, <2>2 DEF Kept
  <2> QED
    BY <2>4, <2>5
<1>5. ASSUME NEW r \in Runners, Fetch(r) PROVE Floors' /\ Kept
  <2>1. /\ pc[r] = "fetch" /\ pc' = [pc EXCEPT ![r] = "merge"] /\ inode' = inode
        /\ seen' = seen /\ clients' = clients /\ stats' = stats /\ overlapped' = overlapped
    BY <1>5 DEF Fetch, Goto
  <2>2. ~overlapped => Floor(r)'
    BY <2>1 DEF Floors, Floor, TypeOK
  <2>3. Floors'
    BY <2>1, <2>2, FloorsWorker DEF Idle, TypeOK
  <2>4. Kept
    BY <2>1 DEF Kept, TypeOK, Content, Entry
  <2> QED
    BY <2>3, <2>4
<1>6. ASSUME NEW r \in Runners, OpenTmp(r) PROVE Floors' /\ Kept
  <2>1. /\ pc[r] = "open" /\ pc' = [pc EXCEPT ![r] = "fill"]
        /\ inode' = [inode EXCEPT ![r] = "tmp"]
        /\ seen' = seen /\ clients' = clients /\ stats' = stats /\ overlapped' = overlapped
    BY <1>6 DEF OpenTmp, Goto
  <2>2. ~overlapped => Floor(r)'
    BY <2>1 DEF Floors, Floor, TypeOK
  <2>3. Floors'
    BY <2>1, <2>2, FloorsWorker DEF Idle, TypeOK
  <2>4. Kept
    BY <2>1 DEF Kept, TypeOK, Content, Entry
  <2> QED
    BY <2>3, <2>4
<1>7. ASSUME NEW r \in Runners, Restart(r) PROVE Floors' /\ Kept
  <2>1. \A x \in Runners :
          \/ pc'[x] = pc[x] /\ seen'[x] = seen[x] /\ inode'[x] = inode[x]
          \/ pc'[x] = "idle" /\ inode'[x] = "none"
    BY <1>7 DEF Restart, End, Goto, TypeOK
  <2> QED
    BY <1>7, <2>1, FloorsQuiet DEF Restart
<1>8. ASSUME NEW r \in Runners, Killed(r) PROVE Floors' /\ Kept
  <2>1. \A x \in Runners :
          \/ pc'[x] = pc[x] /\ seen'[x] = seen[x] /\ inode'[x] = inode[x]
          \/ pc'[x] = "idle" /\ inode'[x] = "none"
    BY <1>8 DEF Killed, End, Goto, TypeOK
  <2> QED
    BY <1>8, <2>1, FloorsQuiet DEF Killed
<1>9. CASE UNCHANGED vars
  BY <1>9, FloorsQuiet DEF vars, local
<1>10. ASSUME NEW r \in Runners, Step(r) PROVE Floors' /\ (~overlapped' => Kept)
  BY <1>4, <1>5, <1>6, <1>7, <1>10, FloorsMerge, FloorsFill, FloorsReplace DEF Step
<1> QED
  BY <1>1, <1>2, <1>3, <1>8, <1>9, <1>10 DEF Next, BeginSnapshot, AddClient, RemoveClient,
     BeginEdit

\* As long as snapshots have not overlapped, the total of a client that is not
\* revoked never falls: not when XRay starts again and counts from zero, not
\* when it does not answer, and not when a script is killed half-way.
THEOREM TotalsNeverFall == Spec => TotalsKept
<1>1. TypeOK /\ Floors /\ [Next]_vars
        => [~overlapped' => \A u \in clients \cap clients' : stats'[u].total >= stats[u].total]_vars
  BY FloorsNext DEF Kept
<1> QED
  BY <1>1, InitTyped, NextTyped, FloorsInit, FloorsNext, PTL DEF Spec, TotalsKept
===========================================================================
