---------------------------- MODULE Lists_proof ----------------------------
(***************************************************************************)
(* Proofs about Lists.  Of the requests, only the holder of the lock runs  *)
(* a script, so what that script has wiped, written or loaded by now       *)
(* differs from the lists only where an edit has come in since; that       *)
(* edit's own request waits for the lock and makes up for it.  Hooks run   *)
(* setups and teardowns beside: a setup only adds what is listed, and a    *)
(* teardown leaves its mark in "last".                                     *)
(*                                                                         *)
(* What ListText says of the files' text is proved after that, by          *)
(* induction over the lines.                                               *)
(***************************************************************************)
EXTENDS Lists, Loops_proof

\* What a request is at goes with the script it runs.
Stages ==
  \A w \in Workers :
    /\ job[w].at = "idle" => job[w] = Idle
    /\ job[w].at = "wait" => job[w].runs \in Scripts
    /\ job[w].at \in {"wipe", "write"} => job[w].runs = "domains"
    /\ job[w].at \in {"set", "skip", "load"} => job[w].runs \in Setups
    /\ job[w].at = "load" => job[w].todo \subseteq Nets
    /\ job[w].at = "restart" => job[w].runs \in {"domains"} \cup Setups /\ job[w].todo = {}
    /\ job[w].at = "destroy" => job[w].runs \in Teardowns
    /\ job[w].files # {} => job[w].runs = "domains"

HookStages == \A h \in Hooks : beside[h].at = "load" => beside[h].todo \subseteq Nets

Base == TypeOK /\ Stages /\ HookStages

\* An edit of a category of which update-domains has not heard.
Pending(c, w) == \E v \in Workers \ {w} : c \in job[v].files

\* How far update-domains has come.
Rewriting ==
  \A w \in Workers :
    /\ job[w].at = "wipe" => \A c \in Categories \ job[w].todo : conf[c] = {}
    /\ job[w].at \in {"write", "restart"} /\ job[w].runs = "domains" =>
         \A c \in Categories \ job[w].todo : conf[c] = ListedIn(c) \/ Pending(c, w)

\* A setup that has found another mode is followed by that of a mode change.
Skipping ==
  \A w \in Workers :
    job[w].at = "skip" /\ mode = "split" => \E v \in Workers \ {w} : job[v].runs = "mode"

\* How far a setup has come that nobody has torn down: its set is there, and
\* what it has read is in force, unless another setup is going to follow it.
Alone(w) == \A v \in Workers \ {w} : job[v].runs \notin Setups \cup {"mode"}
Loading ==
  \A w \in Workers :
    job[w].at \in {"load", "restart"} /\ job[w].runs \in Setups /\ last["setup"] # "torn" =>
      /\ ipset # Absent
      /\ mode = "split" /\ Alone(w) =>
           \A n \in Nets \ job[w].todo : nets[n] # Absent => nets[n] \subseteq ipset

\* A set that outlives its mode, or is about to, has a teardown to come.
Outlived ==
  faults = 0 /\ last["teardown"] = "ok" /\ mode # "split" =>
    \/ \E w \in Workers : job[w].runs = "mode"
    \/ ipset = Absent /\ AboutToMake = {}

IInv ==
  /\ Base
  /\ Regenerated /\ Rewriting
  /\ Served
  /\ NetworksLoaded /\ Loading
  /\ Skipping /\ Outlived
---------------------------------------------------------------------------
LEMMA ListPresent == ASSUME NEW f \in [Domains -> 0..MaxCopies] PROVE f # Absent
BY AbsentAssumption

LEMMA SetPresent == ASSUME NEW s \in SUBSET (Cidrs \cup Ranges) PROVE s # Absent
BY AbsentAssumption

LEMMA InitHolds == Init => IInv
<1> SUFFICES ASSUME Init PROVE IInv
  OBVIOUS
<1> USE DEF Init
<1>1. Base
  <2>1. \A c \in Categories : cats[c] = Absent \/ cats[c] \in [Domains -> 0..MaxCopies]
    BY BoundAssumption
  <2> QED
    BY <2>1, NamesAssumption, BoundAssumption
       DEF Base, TypeOK, Jobs, Stages, HookStages, Idle, Results, ListedIn, Configured, Networks
<1>2. Regenerated /\ Rewriting /\ Served
  BY DEF Regenerated, Rewriting, Served, Idle
<1>3. NetworksLoaded /\ Loading /\ Skipping /\ Outlived
  BY AbsentAssumption DEF NetworksLoaded, Loading, Skipping, Outlived, AboutToMake, Networks, Idle
<1> QED
  BY <1>1, <1>2, <1>3 DEF IInv

---------------------------------------------------------------------------
(* Edits.                                                                  *)

LEMMA AddedTyped ==
  ASSUME TypeOK, NEW c \in Categories, NEW asked \in [Domains -> 0..MaxCopies]
  PROVE  [d \in Domains |-> IF d \in ListedIn(c) THEN Content(c)[d] ELSE asked[d]]
           \in [Domains -> 0..MaxCopies]
BY DEF TypeOK, ListedIn, Content

\* An edit: the category's domains change only together with a request that
\* will run update-domains.
EditsDomains(w) ==
  /\ UNCHANGED <<conf, dns, ipset, holder, outside, last, nets, mode>> /\ Request
  /\ cats' \in [Categories -> {Absent} \cup [Domains -> 0..MaxCopies]] /\ cats'[Main] # Absent
  /\ \/ job' = job /\ \A c \in Categories : ListedIn(c)' = ListedIn(c)
     \/ /\ job[w] = Idle
        /\ \E files \in SUBSET Categories :
             /\ job' = [job EXCEPT ![w] = Waits("domains", files)]
             /\ \A c \in Categories \ files : ListedIn(c)' = ListedIn(c)

LEMMA AddDomainsEdits ==
  ASSUME TypeOK, NEW w \in Workers, NEW c \in Categories, NEW asked \in [Domains -> 0..MaxCopies],
         AddDomains(w, c, asked)
  PROVE  EditsDomains(w)
<1> DEFINE new == [d \in Domains |-> IF d \in ListedIn(c) THEN Content(c)[d] ELSE asked[d]]
<1>1. new \in [Domains -> 0..MaxCopies] /\ new # Absent
  BY AddedTyped, ListPresent
<1>2. cats' = [cats EXCEPT ![c] = new]
  BY DEF AddDomains
<1> HIDE DEF new
<1>3. cats' \in [Categories -> {Absent} \cup [Domains -> 0..MaxCopies]] /\ cats'[Main] # Absent
  BY <1>1, <1>2, NamesAssumption DEF TypeOK
<1>4. \A x \in Categories \ {c} : ListedIn(x)' = ListedIn(x)
  BY <1>2 DEF TypeOK, ListedIn
<1>5. CASE \A d \in Domains : asked[d] > 0 => d \in ListedIn(c)
  <2>1. \A d \in Domains : new[d] > 0 <=> d \in ListedIn(c)
    BY <1>5 DEF new, TypeOK, ListedIn, Content
  <2>2. ListedIn(c)' = {d \in Domains : new[d] > 0}
    BY <1>1, <1>2 DEF TypeOK, ListedIn
  <2>3. ListedIn(c)' = ListedIn(c)
    BY <2>1, <2>2 DEF ListedIn
  <2>4. /\ UNCHANGED <<conf, dns, ipset, job, holder, outside, last, nets, mode>>
        /\ Request
    BY <1>5 DEF AddDomains
  <2> QED
    BY <1>3, <1>4, <2>3, <2>4 DEF EditsDomains
<1>6. CASE ~(\A d \in Domains : asked[d] > 0 => d \in ListedIn(c))
  <2>1. /\ Queue(w, "domains", {c}) /\ UNCHANGED <<nets, mode>>
        /\ Request
    BY <1>6 DEF AddDomains
  <2>2. /\ UNCHANGED <<conf, dns, ipset, holder, outside, last>>
        /\ job[w] = Idle /\ job' = [job EXCEPT ![w] = Waits("domains", {c})]
    BY <2>1 DEF Queue
  <2>3. /\ {c} \in SUBSET Categories
        /\ \A x \in Categories \ {c} : ListedIn(x)' = ListedIn(x)
    BY <1>4
  <2> QED
    BY <1>3, <2>1, <2>2, <2>3 DEF EditsDomains
<1> QED
  BY <1>5, <1>6

LEMMA DeleteDomainsEdits ==
  ASSUME TypeOK, NEW w \in Workers, NEW gone \in SUBSET Domains, NEW from \in SUBSET Categories,
         DeleteDomains(w, gone, from)
  PROVE  EditsDomains(w)
<1> DEFINE has(c, d) == c \in from /\ d \in ListedIn(c)
           first(c, d) ==
             /\ has(c, d)
             /\ \A i, j \in DOMAIN Sorted : Sorted[j] = c /\ i < j => ~has(Sorted[i], d)
           less(c) == [d \in Domains |-> IF d \in gone /\ first(c, d) THEN cats[c][d] - 1 ELSE cats[c][d]]
<1>1. cats' = [c \in Categories |-> IF cats[c] = Absent THEN Absent ELSE less(c)]
  BY DEF DeleteDomains
<1>2. \A c \in Categories, d \in Domains : first(c, d) => c \in from /\ d \in ListedIn(c)
  OBVIOUS
<1> HIDE DEF first
<1>3. ASSUME NEW c \in Categories, cats[c] # Absent
      PROVE  less(c) \in [Domains -> 0..MaxCopies] /\ less(c) # Absent
  <2>1. less(c) \in [Domains -> 0..MaxCopies]
    BY <1>2, <1>3, BoundAssumption DEF TypeOK, ListedIn
  <2> QED
    BY <2>1, ListPresent
<1>4. ASSUME NEW c \in Categories \ from PROVE ListedIn(c)' = ListedIn(c)
  <2>1. CASE cats[c] = Absent
    BY <1>1, <2>1 DEF ListedIn
  <2>2. CASE cats[c] # Absent
    <3>1. \A d \in Domains : less(c)[d] = cats[c][d]
      BY <1>2
    <3>2. cats'[c] = less(c) /\ cats'[c] # Absent
      BY <1>1, <1>3, <2>2
    <3> QED
      BY <2>2, <3>1, <3>2 DEF ListedIn
  <2> QED
    BY <2>1, <2>2
<1>5. cats' \in [Categories -> {Absent} \cup [Domains -> 0..MaxCopies]] /\ cats'[Main] # Absent
  <2> HIDE DEF less
  <2> QED
    BY <1>1, <1>3, NamesAssumption DEF TypeOK
<1> QED
  BY <1>4, <1>5 DEF DeleteDomains, EditsDomains, Queue

LEMMA ReplaceDomainsEdits ==
  ASSUME TypeOK, NEW w \in Workers, NEW c \in Categories, NEW raw \in [Domains -> 0..MaxCopies],
         ReplaceDomains(w, c, raw)
  PROVE  EditsDomains(w)
<1>1. raw # Absent /\ {c} \in SUBSET Categories
  BY ListPresent
<1>2. cats' \in [Categories -> {Absent} \cup [Domains -> 0..MaxCopies]] /\ cats'[Main] # Absent
  BY <1>1, NamesAssumption DEF TypeOK, ReplaceDomains
<1>3. \A x \in Categories \ {c} : ListedIn(x)' = ListedIn(x)
  BY DEF TypeOK, ListedIn, ReplaceDomains
<1> QED
  BY <1>1, <1>2, <1>3 DEF ReplaceDomains, EditsDomains, Queue

\* An edit of networks, a mode change or a call: a setup or a teardown will
\* follow, and a setup where networks or the mode have changed.
EditsOther(w) ==
  /\ UNCHANGED <<conf, dns, ipset, holder, outside, last, cats>> /\ Request
  /\ job[w] = Idle
  /\ nets' \in [Nets -> {Absent} \cup SUBSET Cidrs] /\ mode' \in {"split", "other"}
  /\ \E s \in {"setup", "teardown", "mode"} :
       /\ job' = [job EXCEPT ![w] = Waits(s, {})]
       /\ s = "teardown" => UNCHANGED <<nets, mode>>
       /\ mode' # mode => s = "mode"

LEMMA OtherEdits ==
  ASSUME TypeOK, NEW w \in Workers,
         \/ \E n \in Nets, xs \in SUBSET Cidrs :
              CreateNetwork(w, n, xs) \/ AddCidrs(w, n, xs) \/ DeleteCidrs(w, n, xs)
         \/ \E n \in Nets : DeleteNetwork(w, n)
         \/ \E m \in {"split", "other"} : SetMode(w, m)
         \/ \E script \in {"setup", "teardown"} : Call(w, script)
  PROVE  EditsOther(w)
<1>1. ASSUME NEW n \in Nets, NEW xs \in SUBSET Cidrs,
             CreateNetwork(w, n, xs) \/ AddCidrs(w, n, xs) \/ DeleteCidrs(w, n, xs) \/ DeleteNetwork(w, n)
      PROVE  EditsOther(w)
  <2>1. nets' \in [Nets -> {Absent} \cup SUBSET Cidrs]
    BY <1>1 DEF TypeOK, CreateNetwork, AddCidrs, DeleteCidrs, DeleteNetwork
  <2> QED
    BY <1>1, <2>1 DEF TypeOK, CreateNetwork, AddCidrs, DeleteCidrs, DeleteNetwork, EditsOther, Queue
<1>2. ASSUME NEW m \in {"split", "other"}, SetMode(w, m) PROVE EditsOther(w)
  BY <1>2 DEF TypeOK, SetMode, EditsOther, Queue
<1>3. ASSUME NEW script \in {"setup", "teardown"}, Call(w, script) PROVE EditsOther(w)
  BY <1>3 DEF TypeOK, Call, EditsOther, Queue, lists
<1> QED
  BY <1>1, <1>2, <1>3

LEMMA EditForm ==
  ASSUME TypeOK, NEW w \in Workers, Edit(w) PROVE EditsDomains(w) \/ EditsOther(w)
<1>1. \A c \in Categories : {c} \in SUBSET Categories
  OBVIOUS
<1> QED
  BY <1>1, AddDomainsEdits, DeleteDomainsEdits, ReplaceDomainsEdits, OtherEdits DEF Edit

LEMMA RequestTyped == ASSUME TypeOK, Request PROVE requests' \in 0..MaxRequests /\ faults' = faults
BY BoundAssumption DEF TypeOK, Request

LEMMA FaultTyped == ASSUME TypeOK, Fault PROVE faults' \in 1..MaxFaults /\ requests' = requests
BY BoundAssumption DEF TypeOK, Fault

LEMMA WaitsBase ==
  ASSUME Base, NEW w \in Workers, job[w] = Idle, UNCHANGED holder,
         NEW s \in Scripts, NEW files \in SUBSET Categories, files # {} => s = "domains",
         job' = [job EXCEPT ![w] = Waits(s, files)]
  PROVE  /\ job' \in [Workers -> Jobs]
         /\ \A v \in Workers : job'[v].at \notin {"idle", "wait"} <=> v = holder'
         /\ Stages'
BY DEF Base, TypeOK, Jobs, Stages, Waits, Idle

LEMMA EditBase ==
  ASSUME Base, NEW w \in Workers, EditsDomains(w) \/ EditsOther(w) PROVE Base'
<1>1. TypeOK
  BY DEF Base
<1>2. CASE EditsDomains(w) /\ job' = job
  BY <1>1, <1>2, RequestTyped DEF EditsDomains, Base, TypeOK, Stages, HookStages, outside
<1>3. CASE EditsDomains(w) /\ job' # job
  <2>1. "domains" \in Scripts
    BY DEF Scripts
  <2> QED
    BY <1>1, <1>3, <2>1, RequestTyped, WaitsBase DEF EditsDomains, Base, TypeOK, HookStages, outside
<1>4. CASE EditsOther(w)
  <2>1. PICK s \in {"setup", "teardown", "mode"} : job' = [job EXCEPT ![w] = Waits(s, {})]
    BY <1>4 DEF EditsOther
  <2>2. s \in Scripts
    BY DEF Scripts, Setups, Teardowns
  <2>3. {} \in SUBSET Categories /\ job[w] = Idle /\ UNCHANGED holder
    BY <1>4 DEF EditsOther
  <2>4. /\ job' \in [Workers -> Jobs]
        /\ \A v \in Workers : job'[v].at \notin {"idle", "wait"} <=> v = holder'
        /\ Stages'
    BY <2>1, <2>2, <2>3, WaitsBase
  <2> QED
    BY <1>1, <1>4, <2>4, RequestTyped DEF EditsOther, Base, TypeOK, HookStages, outside
<1> QED
  BY <1>2, <1>3, <1>4

LEMMA EditRegenerated ==
  ASSUME Base, Regenerated, Rewriting, Served, NEW w \in Workers, EditsDomains(w) \/ EditsOther(w)
  PROVE  Regenerated' /\ Rewriting' /\ Served'
<1>1. CASE EditsDomains(w) /\ job' = job
  <2>1. ASSUME NEW files, job' = [job EXCEPT ![w] = Waits("domains", files)], job[w] = Idle
        PROVE  FALSE
    <3>1. job'[w] = Waits("domains", files)
      BY <2>1 DEF Base, TypeOK
    <3> QED
      BY <1>1, <2>1, <3>1 DEF Waits, Idle
  <2>2. \A c \in Categories : ListedIn(c)' = ListedIn(c)
    BY <1>1, <2>1 DEF EditsDomains
  <2> QED
    BY <1>1, <2>2 DEF EditsDomains, EditsOther, Regenerated, Rewriting, Served, Busy, Pending, Configured
<1>2. CASE EditsOther(w) \/ job' # job
  <2>1. PICK s \in Scripts, files \in SUBSET Categories :
          /\ job' = [job EXCEPT ![w] = Waits(s, files)]
          /\ \A c \in Categories \ files : ListedIn(c)' = ListedIn(c)
    <3>1. CASE EditsDomains(w) /\ job' # job
      BY <3>1 DEF EditsDomains, Scripts
    <3>2. CASE EditsOther(w)
      <4>1. PICK s \in {"setup", "teardown", "mode"} : job' = [job EXCEPT ![w] = Waits(s, {})]
        BY <3>2 DEF EditsOther
      <4>2. \A c \in Categories : ListedIn(c)' = ListedIn(c)
        BY <3>2 DEF EditsOther, ListedIn
      <4>3. {} \in SUBSET Categories /\ s \in Scripts
        BY DEF Scripts, Setups, Teardowns
      <4> QED
        BY <4>1, <4>2, <4>3
    <3> QED
      BY <1>2, <3>1, <3>2
  <2>2. job[w] = Idle /\ UNCHANGED <<conf, dns, holder, last>>
    BY <1>2 DEF EditsDomains, EditsOther
  <2>3. job'[w] = Waits(s, files) /\ \A v \in Workers \ {w} : job'[v] = job[v]
    BY <2>1 DEF Base, TypeOK
  <2>4. /\ \A c \in files : c \in job'[w].files
        /\ \A v \in Workers : job[v].files \subseteq job'[v].files
        /\ holder # w
    BY <2>2, <2>3 DEF Waits, Idle, Base, TypeOK
  <2>5. \A script \in Scripts : Busy(script)' <=> Busy(script)
    BY <2>2, <2>3, <2>4, NamesAssumption DEF Busy, Base, TypeOK
  <2>6. Regenerated' /\ Served'
    BY <2>1, <2>2, <2>4, <2>5 DEF Regenerated, Served, Configured, Scripts
  <2>7. Rewriting'
    <3> SUFFICES ASSUME NEW v \in Workers
                 PROVE  /\ job'[v].at = "wipe" => \A c \in Categories \ job'[v].todo : conf'[c] = {}
                        /\ job'[v].at \in {"write", "restart"} /\ job'[v].runs = "domains" =>
                             \A c \in Categories \ job'[v].todo :
                               conf'[c] = ListedIn(c)' \/ Pending(c, v)'
      BY DEF Rewriting
    <3>1. CASE v = w
      BY <2>3, <3>1 DEF Waits
    <3>2. CASE v # w
      <4>1. \A c \in Categories : Pending(c, v) \/ c \in files => Pending(c, v)'
        BY <2>4, <3>2 DEF Pending
      <4> QED
        BY <2>1, <2>2, <2>3, <3>2, <4>1 DEF Rewriting
    <3> QED
      BY <3>1, <3>2
  <2> QED
    BY <2>6, <2>7
<1> QED
  BY <1>1, <1>2

LEMMA EditLoaded ==
  ASSUME Base, NetworksLoaded, Loading, Skipping, Outlived, NEW w \in Workers, EditsDomains(w) \/ EditsOther(w)
  PROVE  NetworksLoaded' /\ Loading' /\ Skipping' /\ Outlived'
<1>1. CASE EditsDomains(w) /\ job' = job
  BY <1>1 DEF EditsDomains, Request, NetworksLoaded, Loading, Alone, Skipping, Outlived, AboutToMake,
              Networks, outside
<1>2. CASE EditsDomains(w) /\ job' # job
  <2>1. /\ job[w] = Idle /\ job'[w].runs = "domains" /\ job'[w].at = "wait"
        /\ \A v \in Workers \ {w} : job'[v] = job[v]
    BY <1>2 DEF EditsDomains, Waits, Base, TypeOK
  <2> QED
    BY <1>2, <2>1 DEF EditsDomains, Request, NetworksLoaded, Loading, Alone, Skipping, Outlived,
                      AboutToMake, Networks, Idle, Setups, outside
<1>3. CASE EditsOther(w)
  <2>1. PICK s \in {"setup", "teardown", "mode"} :
          /\ job' = [job EXCEPT ![w] = Waits(s, {})]
          /\ s = "teardown" => UNCHANGED <<nets, mode>>
          /\ mode' # mode => s = "mode"
    BY <1>3 DEF EditsOther
  <2>2. /\ job[w] = Idle /\ job'[w].runs = s /\ job'[w].at = "wait"
        /\ \A v \in Workers \ {w} : job'[v] = job[v]
    BY <1>3, <2>1 DEF EditsOther, Waits, Base, TypeOK
  <2>3. UNCHANGED <<ipset, last, faults, beside>>
    BY <1>3 DEF EditsOther, Request, outside
  <2>4. CASE s = "teardown"
    BY <2>1, <2>2, <2>3, <2>4 DEF NetworksLoaded, Loading, Alone, Skipping, Outlived, AboutToMake,
                                  Networks, Idle, Setups
  <2>5. CASE s \in {"setup", "mode"}
    <3>1. NetworksLoaded' /\ Loading'
      BY <2>2, <2>3, <2>5 DEF NetworksLoaded, Loading, Alone, Setups
    <3>2. Skipping'
      BY <2>1, <2>2, <2>5 DEF Skipping, Idle, Base, TypeOK
    <3>3. Outlived'
      BY <2>1, <2>2, <2>3, <2>5 DEF Outlived, AboutToMake, Idle, Base, TypeOK
    <3> QED
      BY <3>1, <3>2, <3>3
  <2> QED
    BY <2>4, <2>5
<1> QED
  BY <1>1, <1>2, <1>3

LEMMA EditKeeps == ASSUME IInv, NEW w \in Workers, Edit(w) PROVE IInv'
BY EditForm, EditBase, EditRegenerated, EditLoaded DEF IInv, Base

---------------------------------------------------------------------------
(* How a script begins, goes on and ends.                                  *)

\* Nobody but the holder of the lock is at work.
Exclusive == \A v \in Workers : job[v].at \notin {"idle", "wait"} <=> v = holder

LEMMA GoesBase ==
  ASSUME Base, NEW w \in Workers, holder = w,
         NEW at \in {"wipe", "write", "load", "restart"},
         NEW todo \in SUBSET (Categories \cup Nets), Goes(w, at, todo),
         at \in {"wipe", "write"} => job[w].runs = "domains",
         at = "load" => job[w].runs \in Setups,
         at = "load" => todo \subseteq Nets,
         at = "restart" => job[w].runs \in {"domains"} \cup Setups /\ todo = {}
  PROVE  job' \in [Workers -> Jobs] /\ Exclusive' /\ Stages' /\ UNCHANGED <<holder, last>>
<1>1. /\ job'[w] = [job[w] EXCEPT !.at = at, !.todo = todo]
      /\ \A v \in Workers \ {w} : job'[v] = job[v]
      /\ UNCHANGED <<holder, last>>
  BY DEF Base, TypeOK, Goes
<1>2. job' \in [Workers -> Jobs]
  <2>1. job[w] \in Jobs
    BY DEF Base, TypeOK
  <2>2. job'[w] \in Jobs
    BY <1>1, <2>1 DEF Jobs
  <2> QED
    BY <1>1, <2>2 DEF Base, TypeOK, Goes
<1>3. /\ job'[w].at = at /\ job'[w].todo = todo /\ job'[w].runs = job[w].runs
      /\ job'[w].files = job[w].files
  BY <1>1 DEF Base, TypeOK
<1>4. Exclusive'
  BY <1>1, <1>3 DEF Base, TypeOK, Exclusive, HookStages
<1>5. Stages'
  <2> SUFFICES ASSUME NEW v \in Workers
               PROVE  /\ job'[v].at = "idle" => job'[v] = Idle
                      /\ job'[v].at = "wait" => job'[v].runs \in Scripts
                      /\ job'[v].at \in {"wipe", "write"} => job'[v].runs = "domains"
                      /\ job'[v].at \in {"set", "skip", "load"} => job'[v].runs \in Setups
                      /\ job'[v].at = "load" => job'[v].todo \subseteq Nets
                      /\ job'[v].at = "restart" => job'[v].runs \in {"domains"} \cup Setups /\ job'[v].todo = {}
                      /\ job'[v].at = "destroy" => job'[v].runs \in Teardowns
                      /\ job'[v].files # {} => job'[v].runs = "domains"
    BY DEF Stages
  <2>1. CASE v = w
    BY <1>3, <2>1 DEF Base, Stages
  <2>2. CASE v # w
    BY <1>1, <2>2 DEF Base, Stages
  <2> QED
    BY <2>1, <2>2
<1> QED
  BY <1>1, <1>2, <1>4, <1>5

\* What a script leaves when it ends.
LEMMA AfterIs ==
  ASSUME NEW script, NEW next \in After(script)
  PROVE  /\ next \in Jobs /\ next.at \in {"idle", "wait"} /\ next.files = {}
         /\ next.at = "idle" => next = Idle
         /\ next.runs \in {"nothing"} \cup Setups
         /\ next.runs # "nothing" => next.at = "wait"
         /\ script \in {"domains", "setup"} => next = Idle
<1>1. next = Idle \/ next = Waits("anew", {}) \/ next = Waits("setup", {})
  BY DEF After
<1> QED
  BY <1>1 DEF After, Jobs, Idle, Waits, Setups, Scripts

LEMMA NotedIs ==
  ASSUME Base, NEW script \in Scripts, NEW result \in {"ok", "failed", "beside"}, Noted(script, result)
  PROVE  /\ last' \in [{"domains", "setup", "teardown"} -> Results]
         /\ script = "domains" =>
              last'["domains"] = result /\ last'["setup"] = last["setup"] /\ last'["teardown"] = last["teardown"]
         /\ script # "domains" => last'["domains"] = last["domains"]
         /\ script \in Teardowns => last'["setup"] = "torn" /\ last'["teardown"] = result
         /\ script \in Setups =>
              /\ last'["teardown"] = last["teardown"]
              /\ last'["setup"] = IF last["setup"] = "torn" THEN "torn" ELSE result
<1>1. last \in [{"domains", "setup", "teardown"} -> Results] /\ result \in Results
  BY DEF Base, TypeOK, Results
<1>2. CASE script = "domains"
  BY <1>1, <1>2 DEF Noted, Setups, Teardowns
<1>3. CASE script \in Teardowns
  BY <1>1, <1>3 DEF Noted, Setups, Teardowns, Results
<1>4. CASE script \in Setups
  BY <1>1, <1>4 DEF Noted, Setups, Teardowns, Results
<1> QED
  BY <1>2, <1>3, <1>4 DEF Scripts

LEMMA EndsBase ==
  ASSUME Base, NEW w \in Workers, holder = w, NEW result \in {"ok", "failed", "beside"}, Ends(w, result)
  PROVE  /\ job' \in [Workers -> Jobs] /\ holder' = Nobody /\ Exclusive' /\ Stages'
         /\ last' \in [{"domains", "setup", "teardown"} -> Results]
         /\ job[w].runs \in Scripts /\ Noted(job[w].runs, result)
         /\ \A v \in Workers \ {w} : job'[v] = job[v] /\ job[v].at \in {"idle", "wait"}
         /\ job'[w] \in After(job[w].runs)
<1>1. PICK next \in After(job[w].runs) : job' = [job EXCEPT ![w] = next]
  BY DEF Ends
<1>2. job' \in [Workers -> Jobs]
  BY <1>1, AfterIs DEF Base, TypeOK
<1>3. /\ holder' = Nobody /\ job'[w] = next
      /\ \A v \in Workers \ {w} : job'[v] = job[v] /\ job[v].at \in {"idle", "wait"}
  BY <1>1 DEF Base, TypeOK, Ends
<1>4. next.at \in {"idle", "wait"} /\ next.files = {} /\ (next.at = "idle" => next = Idle)
  BY AfterIs
<1>5. next.at = "wait" => next.runs \in Scripts
  <2>1. next = Idle \/ next.runs \in Setups
    BY DEF After, Waits, Setups
  <2> QED
    BY <2>1 DEF Idle, Scripts
<1>6. Exclusive'
  BY <1>3, <1>4, NamesAssumption DEF Exclusive
<1>7. Stages'
  <2> SUFFICES ASSUME NEW v \in Workers
               PROVE  /\ job'[v].at = "idle" => job'[v] = Idle
                      /\ job'[v].at = "wait" => job'[v].runs \in Scripts
                      /\ job'[v].at \in {"idle", "wait"}
                      /\ job'[v].files # {} => job'[v].runs = "domains"
    BY DEF Stages
  <2> QED
    BY <1>3, <1>4, <1>5 DEF Base, Stages
<1>8. job[w].runs \in Scripts
  <2>1. job[w].at \notin {"idle", "wait"} /\ job[w] \in Jobs
    BY DEF Base, TypeOK
  <2> QED
    BY <2>1 DEF Base, Stages, Jobs, Scripts
<1>9. Noted(job[w].runs, result)
  BY DEF Ends
<1> QED
  BY <1>1, <1>2, <1>3, <1>6, <1>7, <1>8, <1>9, NotedIs

\* A script other than update-domains ends: nothing is owed to the categories.
LEMMA EndsKeepsDomains ==
  ASSUME Base, Regenerated, Served, NEW w \in Workers, holder = w, job[w].runs # "domains",
         NEW result \in {"ok", "failed", "beside"}, Ends(w, result),
         UNCHANGED <<cats, conf>>, dns' \in {dns, Down, Configured}
  PROVE  Regenerated' /\ Rewriting' /\ Served'
<1>1. /\ holder' = Nobody /\ last'["domains"] = last["domains"] /\ job[w].files = {}
      /\ \A v \in Workers \ {w} : job'[v] = job[v] /\ job[v].at \in {"idle", "wait"}
      /\ job'[w].at \in {"idle", "wait"}
  <2>1. job[w].files = {}
    BY DEF Base, Stages
  <2> QED
    BY <2>1, EndsBase, NotedIs, AfterIs
<1>2. ~Busy("domains") /\ Configured' = Configured /\ \A c \in Categories : ListedIn(c)' = ListedIn(c)
  BY DEF Busy, Configured, ListedIn
<1>3. Regenerated'
  BY <1>1, <1>2 DEF Regenerated
<1>4. Rewriting'
  BY <1>1 DEF Rewriting
<1>5. Served'
  BY <1>1, <1>2 DEF Served
<1> QED
  BY <1>3, <1>4, <1>5

\* A script that goes on without touching categories owes them what it owed.
LEMMA GoesKeepsDomains ==
  ASSUME Base, Regenerated, Served, NEW w \in Workers, holder = w, job[w].runs # "domains",
         NEW at \in {"load", "restart"}, NEW todo, Goes(w, at, todo),
         UNCHANGED <<cats, conf, dns>>
  PROVE  Regenerated' /\ Rewriting' /\ Served'
<1>1. /\ UNCHANGED <<holder, last>> /\ job'[w].at = at /\ job'[w].runs = job[w].runs
      /\ \A v \in Workers : job'[v].files = job[v].files
      /\ \A v \in Workers \ {w} : job'[v] = job[v] /\ job[v].at \in {"idle", "wait"}
  BY DEF Base, TypeOK, Goes
<1>2. /\ ~Busy("domains") /\ ~Busy("domains")' /\ Configured' = Configured
      /\ \A c \in Categories : ListedIn(c)' = ListedIn(c)
  BY <1>1 DEF Busy, Configured, ListedIn
<1>3. Regenerated'
  BY <1>1, <1>2 DEF Regenerated
<1>4. Rewriting'
  BY <1>1 DEF Rewriting
<1>5. Served'
  BY <1>1, <1>2 DEF Served
<1> QED
  BY <1>3, <1>4, <1>5

\* Nor does update-domains touch networks.
LEMMA DomainsKeepSet ==
  ASSUME Base, NetworksLoaded, Loading, Skipping, Outlived, NEW w \in Workers, holder = w,
         job[w].runs = "domains", UNCHANGED <<nets, mode, ipset, beside>>,
         faults' = 0 => faults = 0,
         last'["setup"] = last["setup"], last'["teardown"] = last["teardown"],
         \A v \in Workers \ {w} : job'[v] = job[v],
         job'[w].runs \in {"domains", "nothing"}, job'[w].at \notin {"set", "skip"}
  PROVE  NetworksLoaded' /\ Loading' /\ Skipping' /\ Outlived'
<1>1. \A v \in Workers \ {w} : job[v].at \in {"idle", "wait"}
  BY DEF Base, TypeOK
<1>2. NetworksLoaded' /\ Loading' /\ Skipping'
  BY <1>1 DEF NetworksLoaded, Loading, Skipping, Networks, Setups
<1>3. Outlived'
  BY <1>1 DEF Outlived, AboutToMake
<1> QED
  BY <1>2, <1>3

LEMMA AcquireKeeps == ASSUME IInv, NEW w \in Workers, Acquire(w) PROVE IInv'
<1>1. /\ job[w].at = "wait" /\ holder = Nobody /\ holder' = w
      /\ UNCHANGED <<cats, nets, mode, conf, dns, ipset, timer, beside, requests, faults>>
  BY DEF Acquire, Counted, counters, lists, outside
<1>2. /\ job'[w] = [job[w] EXCEPT !.at = First(job[w].runs),
                               !.todo = IF job[w].runs = "domains" THEN Categories ELSE {}]
      /\ \A v \in Workers \ {w} : job'[v] = job[v] /\ job[v].at \in {"idle", "wait"}
  BY <1>1, NamesAssumption DEF IInv, Base, TypeOK, Acquire, Begin
<1>3. job[w] \in Jobs
  BY DEF IInv, Base, TypeOK
<1>4. /\ job'[w].runs = job[w].runs /\ job'[w].files = job[w].files
      /\ job'[w].todo = IF job[w].runs = "domains" THEN Categories ELSE {}
      /\ job'[w].at = First(job[w].runs)
  BY <1>2, <1>3 DEF Jobs
<1>5. job[w].runs \in Scripts
  BY <1>1 DEF IInv, Base, Stages
<1>6. /\ job[w].runs = "domains" => job'[w].at = "wipe"
      /\ job[w].runs \in Setups => job'[w].at = IF mode = "split" THEN "set" ELSE "skip"
      /\ job[w].runs \in Teardowns => job'[w].at = "destroy"
  BY <1>4 DEF First, Setups, Teardowns
<1>61. /\ job'[w].at \in {"wipe", "set", "skip", "destroy"}
       /\ job'[w].at = "wipe" => job[w].runs = "domains"
       /\ job'[w].at \in {"set", "skip"} => job[w].runs \in Setups
       /\ job'[w].at = "destroy" => job[w].runs \in Teardowns
  BY <1>5, <1>6 DEF Scripts
<1>62. /\ last' \in [{"domains", "setup", "teardown"} -> Results]
       /\ last'["domains"] = last["domains"] /\ last'["teardown"] = last["teardown"]
       /\ job[w].runs \in Setups => last'["setup"] = "running"
       /\ job[w].runs \notin Setups => last' = last
  BY <1>1 DEF Acquire, Begin, IInv, Base, TypeOK, Results
<1>7. Base'
  <2>1. job'[w] \in Jobs
    BY <1>2, <1>3, <1>5, <1>61 DEF Jobs
  <2>2. job' \in [Workers -> Jobs]
    BY <1>2, <2>1 DEF IInv, Base, TypeOK, Acquire, Begin
  <2>3. \A v \in Workers : job'[v].at \notin {"idle", "wait"} <=> v = holder'
    BY <1>1, <1>2, <1>61
  <2>4. TypeOK' /\ HookStages'
    BY <1>1, <1>62, <2>2, <2>3 DEF IInv, Base, TypeOK, HookStages
  <2>5. Stages'
    <3> QED
      <4>1. job[w].files # {} => job[w].runs = "domains"
        BY DEF IInv, Base, Stages
      <4>3. SUFFICES ASSUME NEW v \in Workers
                     PROVE  /\ job'[v].at = "idle" => job'[v] = Idle
                            /\ job'[v].at = "wait" => job'[v].runs \in Scripts
                            /\ job'[v].at \in {"wipe", "write"} => job'[v].runs = "domains"
                            /\ job'[v].at \in {"set", "skip", "load"} => job'[v].runs \in Setups
                            /\ job'[v].at = "load" => job'[v].todo \subseteq Nets
                            /\ job'[v].at = "restart" =>
                                 job'[v].runs \in {"domains"} \cup Setups /\ job'[v].todo = {}
                            /\ job'[v].at = "destroy" => job'[v].runs \in Teardowns
                            /\ job'[v].files # {} => job'[v].runs = "domains"
        BY Zenon DEF Stages
      <4>4. CASE v = w
        BY <1>4, <1>61, <4>1, <4>4
      <4>5. CASE v # w
        <5>1. job'[v] = job[v]
          BY <1>2, <4>5
        <5> QED
          BY <5>1 DEF IInv, Base, Stages
      <4> QED
        BY <4>4, <4>5
  <2> QED
    BY <2>4, <2>5 DEF Base
<1>8. Regenerated' /\ Rewriting' /\ Served'
  <2>1. /\ ~Busy("domains")
        /\ \A v \in Workers : job'[v].files = job[v].files
        /\ Configured' = Configured /\ \A c \in Categories : ListedIn(c)' = ListedIn(c)
    <3>1. \A v \in Workers : job'[v].files = job[v].files
      BY <1>2, <1>4
    <3> QED
      BY <1>1, <3>1 DEF Busy, Configured, ListedIn
  <2>2. Regenerated' /\ Served'
    BY <1>1, <1>62, <2>1 DEF IInv, Regenerated, Served
  <2>3. Rewriting'
    BY <1>2, <1>4, <1>61 DEF Rewriting
  <2> QED
    BY <2>2, <2>3
<1>9. NetworksLoaded' /\ Loading'
  <2>1. \A v \in Workers : job'[v].runs = job[v].runs
    BY <1>2, <1>4
  <2>2. NetworksLoaded'
    BY <1>1, <1>62, <2>1 DEF IInv, NetworksLoaded, Networks
  <2>3. Loading'
    BY <1>2, <1>61 DEF Loading
  <2> QED
    BY <2>2, <2>3
<1>10. Skipping' /\ Outlived'
  <2>1. \A v \in Workers : job'[v].runs = job[v].runs
    BY <1>2, <1>4
  <2>2. Skipping'
    BY <1>1, <1>2, <1>6, <1>61 DEF Skipping
  <2>3. mode # "split" => AboutToMake' = AboutToMake
    <3>1. job[w].at # "set" /\ (mode # "split" => job'[w].at # "set")
      BY <1>1, <1>6, <1>61
    <3> QED
      BY <1>1, <1>2, <3>1 DEF AboutToMake
  <2>4. Outlived'
    BY <1>1, <1>62, <2>1, <2>3 DEF IInv, Outlived
  <2> QED
    BY <2>2, <2>4
<1> QED
  BY <1>7, <1>8, <1>9, <1>10 DEF IInv

---------------------------------------------------------------------------
(* vpngw-update-domains.sh                                                 *)

LEMMA WipeKeeps == ASSUME IInv, NEW w \in Workers, Wipe(w) PROVE IInv'
<1>1. PICK c \in job[w].todo :
        /\ conf' = [conf EXCEPT ![c] = {}]
        /\ IF job[w].todo = {c} THEN Goes(w, "write", {x \in Categories : cats[x] # Absent})
           ELSE Goes(w, "wipe", job[w].todo \ {c})
  BY DEF Wipe
<1>2. /\ job[w].at = "wipe" /\ UNCHANGED <<cats, nets, mode, dns, ipset, timer, beside, requests, faults>>
      /\ job[w].runs = "domains" /\ holder = w /\ holder # Nobody
      /\ job[w].todo \in SUBSET (Categories \cup Nets)
  BY NamesAssumption DEF Wipe, lists, outside, Counted, counters, IInv, Base, TypeOK, Jobs, Stages
<1>3. PICK at \in {"wipe", "write"}, todo \in SUBSET (Categories \cup Nets) :
        /\ Goes(w, at, todo)
        /\ at = "wipe" => todo = job[w].todo \ {c}
        /\ at = "write" => job[w].todo = {c} /\ todo = {x \in Categories : cats[x] # Absent}
  BY <1>1, <1>2
<1>4. job' \in [Workers -> Jobs] /\ Exclusive' /\ Stages' /\ UNCHANGED <<holder, last>>
  BY <1>2, <1>3, GoesBase DEF IInv
<1>5. Base'
  BY <1>1, <1>2, <1>4 DEF IInv, Base, TypeOK, Exclusive, HookStages
<1>6. /\ job'[w].at = at /\ job'[w].todo = todo /\ job'[w].runs = "domains"
      /\ \A v \in Workers \ {w} : job'[v] = job[v] /\ job[v].at \in {"idle", "wait"}
  BY <1>2, <1>3 DEF Goes, IInv, Base, TypeOK
<1>7. Busy("domains")'
  BY <1>2, <1>4, <1>6 DEF Busy
<1>8. Rewriting'
  <2>1. \A x \in Categories \ job[w].todo : conf[x] = {}
    BY <1>2 DEF IInv, Rewriting
  <2>2. \A x \in Categories : conf'[x] = IF x = c THEN {} ELSE conf[x]
    BY <1>1 DEF IInv, Base, TypeOK
  <2>3. CASE at = "wipe"
    BY <1>3, <1>6, <2>1, <2>2, <2>3 DEF Rewriting
  <2>4. CASE at = "write"
    <3>1. \A x \in Categories : conf'[x] = {}
      BY <1>3, <2>1, <2>2, <2>4
    <3>2. \A x \in Categories \ todo : conf'[x] = ListedIn(x)'
      BY <1>2, <1>3, <2>4, <3>1 DEF ListedIn
    <3> QED
      BY <1>6, <2>4, <3>2 DEF Rewriting
  <2> QED
    BY <2>3, <2>4
<1>9. NetworksLoaded' /\ Loading' /\ Skipping' /\ Outlived'
  BY <1>2, <1>4, <1>6, DomainsKeepSet DEF IInv
<1> QED
  BY <1>5, <1>7, <1>8, <1>9 DEF IInv, Regenerated, Served

LEMMA WriteKeeps == ASSUME IInv, NEW w \in Workers, Write(w) PROVE IInv'
<1>1. PICK c \in job[w].todo :
        /\ conf' = [conf EXCEPT ![c] = ListedIn(c)]
        /\ Goes(w, IF job[w].todo = {c} THEN "restart" ELSE "write", job[w].todo \ {c})
  BY DEF Write
<1>2. /\ job[w].at = "write" /\ UNCHANGED <<cats, nets, mode, dns, ipset, timer, beside, requests, faults>>
      /\ job[w].runs = "domains" /\ holder = w /\ holder # Nobody
      /\ job[w].todo \in SUBSET (Categories \cup Nets)
  BY NamesAssumption DEF Write, lists, outside, Counted, counters, IInv, Base, TypeOK, Jobs, Stages
<1>3. PICK at \in {"write", "restart"} :
        /\ Goes(w, at, job[w].todo \ {c})
        /\ at = "restart" => job[w].todo \ {c} = {}
  BY <1>1
<1>4. job' \in [Workers -> Jobs] /\ Exclusive' /\ Stages' /\ UNCHANGED <<holder, last>>
  <2>1. job[w].todo \ {c} \in SUBSET (Categories \cup Nets)
    BY <1>2
  <2> QED
    BY <1>2, <1>3, <2>1, GoesBase DEF IInv
<1>5. Base'
  <2>1. ListedIn(c) \in SUBSET Domains
    BY DEF ListedIn
  <2> QED
    BY <1>1, <1>2, <1>4, <2>1 DEF IInv, Base, TypeOK, Exclusive, HookStages
<1>6. /\ job'[w].at = at /\ job'[w].todo = job[w].todo \ {c} /\ job'[w].runs = "domains"
      /\ \A v \in Workers \ {w} : job'[v] = job[v] /\ job[v].at \in {"idle", "wait"}
  BY <1>2, <1>3 DEF Goes, IInv, Base, TypeOK
<1>7. Busy("domains")'
  BY <1>2, <1>4, <1>6 DEF Busy
<1>8. Rewriting'
  <2>1. \A x \in Categories \ job[w].todo : conf[x] = ListedIn(x) \/ Pending(x, w)
    BY <1>2 DEF IInv, Rewriting
  <2>2. \A x \in Categories : conf'[x] = IF x = c THEN ListedIn(c) ELSE conf[x]
    BY <1>1 DEF IInv, Base, TypeOK
  <2>3. \A x \in Categories : ListedIn(x)' = ListedIn(x) /\ (Pending(x, w) => Pending(x, w)')
    BY <1>2, <1>6 DEF ListedIn, Pending
  <2> QED
    BY <1>6, <2>1, <2>2, <2>3 DEF Rewriting
<1>9. NetworksLoaded' /\ Loading' /\ Skipping' /\ Outlived'
  BY <1>2, <1>4, <1>6, DomainsKeepSet DEF IInv
<1> QED
  BY <1>5, <1>7, <1>8, <1>9 DEF IInv, Regenerated, Served

LEMMA RestartKeeps ==
  ASSUME IInv, NEW w \in Workers, NEW success \in BOOLEAN, RestartDnsmasq(w, success) PROVE IInv'
<1>1. /\ job[w].runs = "domains" /\ job[w].at = "restart" /\ job[w].todo = {} /\ holder = w
      /\ UNCHANGED <<cats, nets, mode, conf, ipset, timer, beside>>
  BY DEF RestartDnsmasq, lists, outside, IInv, Base, TypeOK, Stages
<1>2. PICK result \in {"ok", "failed"} :
        /\ Ends(w, result)
        /\ result = "ok" => dns' \in {Down, Configured}
        /\ dns' \in {dns, Down, Configured}
  BY DEF RestartDnsmasq, Started
<1>3. requests' \in 0..MaxRequests /\ faults' \in 0..MaxFaults /\ (faults' = 0 => faults = 0)
  BY FaultTyped DEF RestartDnsmasq, Counted, counters, IInv, Base, TypeOK
<1>4. /\ job' \in [Workers -> Jobs] /\ holder' = Nobody /\ Exclusive' /\ Stages'
      /\ last' \in [{"domains", "setup", "teardown"} -> Results]
  BY <1>1, <1>2, EndsBase DEF IInv
<1>5. Base'
  <2>1. dns' \in {Down} \cup SUBSET Domains
    BY <1>2 DEF IInv, Base, TypeOK, Configured
  <2> QED
    BY <1>1, <1>3, <1>4, <2>1 DEF IInv, Base, TypeOK, Exclusive, HookStages
<1>6. /\ last'["domains"] = result /\ last'["setup"] = last["setup"]
      /\ last'["teardown"] = last["teardown"] /\ job'[w] = Idle
      /\ \A v \in Workers \ {w} : job'[v] = job[v] /\ job[v].at \in {"idle", "wait"}
  BY <1>1, <1>2, EndsBase, NotedIs, AfterIs DEF IInv
<1>7. Regenerated' /\ Rewriting' /\ Served'
  <2>1. \A c \in Categories : conf[c] = ListedIn(c) \/ Pending(c, w)
    BY <1>1 DEF IInv, Rewriting
  <2>2. Configured' = Configured /\ \A c \in Categories : ListedIn(c)' = ListedIn(c)
    BY <1>1 DEF Configured, ListedIn
  <2>3. Regenerated'
    BY <1>1, <1>6, <2>1, <2>2 DEF Regenerated, Pending
  <2>4. Rewriting'
    BY <1>6 DEF Rewriting, Idle
  <2>5. Served'
    BY <1>2, <1>6, <2>2 DEF Served
  <2> QED
    BY <2>3, <2>4, <2>5
<1>8. NetworksLoaded' /\ Loading' /\ Skipping' /\ Outlived'
  BY <1>1, <1>3, <1>6, DomainsKeepSet DEF IInv, Idle
<1> QED
  BY <1>5, <1>7, <1>8 DEF IInv

---------------------------------------------------------------------------
(* vpngw-setup-routing.sh and vpngw-teardown-routing.sh                    *)

LEMMA MakeSetKeeps == ASSUME IInv, NEW w \in Workers, MakeSet(w) PROVE IInv'
<1>1. /\ job[w].at = "set" /\ job[w].runs \in Setups /\ job[w].runs # "domains" /\ holder = w
      /\ UNCHANGED <<cats, nets, mode, conf, dns, timer, beside, requests, faults>>
  BY DEF MakeSet, lists, outside, Counted, counters, Setups, IInv, Base, TypeOK, Stages
<1>2. PICK at \in {"load", "restart"} : Goes(w, at, NetFiles) /\ (at = "restart" => NetFiles = {})
  BY DEF MakeSet, Loads, Stage
<1>3. ipset' \in SUBSET (Cidrs \cup Ranges) /\ ipset' # Absent
  BY SetPresent DEF MakeSet, Made, IInv, Base, TypeOK
<1>4. /\ job' \in [Workers -> Jobs] /\ Exclusive' /\ Stages' /\ UNCHANGED <<holder, last>>
      /\ Regenerated' /\ Rewriting' /\ Served'
  <2>1. NetFiles \subseteq Nets /\ NetFiles \in SUBSET (Categories \cup Nets)
    BY DEF NetFiles
  <2> QED
    BY <1>1, <1>2, <2>1, GoesBase, GoesKeepsDomains DEF IInv
<1>5. Base'
  BY <1>1, <1>3, <1>4 DEF IInv, Base, TypeOK, Exclusive, HookStages
<1>6. /\ job'[w].runs = job[w].runs /\ job'[w].todo = NetFiles /\ job'[w].at = at
      /\ \A v \in Workers \ {w} : job'[v] = job[v] /\ job[v].at \in {"idle", "wait"}
  BY <1>1, <1>2 DEF Goes, IInv, Base, TypeOK
<1>7. NetworksLoaded' /\ Loading' /\ Skipping'
  BY <1>1, <1>3, <1>6 DEF NetworksLoaded, Loading, Skipping, NetFiles
<1>8. Outlived'
  <2>1. w \in AboutToMake
    BY <1>1 DEF AboutToMake
  <2> QED
    BY <1>1, <1>4, <1>6, <2>1 DEF IInv, Outlived
<1> QED
  BY <1>4, <1>5, <1>7, <1>8 DEF IInv

LEMMA SkipKeeps == ASSUME IInv, NEW w \in Workers, Skip(w) PROVE IInv'
<1>1. /\ job[w].at = "skip" /\ job[w].runs \in Setups /\ job[w].runs # "domains" /\ holder = w
      /\ Ends(w, "ok")
      /\ UNCHANGED <<cats, nets, mode, conf, dns, ipset, timer, beside, requests, faults>>
  BY DEF Skip, lists, outside, Counted, counters, Setups, IInv, Base, TypeOK, Stages
<1>2. /\ job' \in [Workers -> Jobs] /\ holder' = Nobody /\ Exclusive' /\ Stages'
      /\ last' \in [{"domains", "setup", "teardown"} -> Results]
      /\ Regenerated' /\ Rewriting' /\ Served'
  BY <1>1, EndsBase, EndsKeepsDomains DEF IInv
<1>3. Base'
  BY <1>1, <1>2 DEF IInv, Base, TypeOK, Exclusive, HookStages
<1>4. /\ last'["teardown"] = last["teardown"] /\ job'[w].at \in {"idle", "wait"}
      /\ \A v \in Workers \ {w} : job'[v] = job[v] /\ job[v].at \in {"idle", "wait"}
  BY <1>1, EndsBase, NotedIs, AfterIs DEF IInv
<1>5. NetworksLoaded'
  BY <1>1, <1>4 DEF IInv, Skipping, NetworksLoaded
<1>6. Loading' /\ Skipping'
  BY <1>4 DEF Loading, Skipping
<1>7. Outlived'
  <2>1. AboutToMake' = AboutToMake
    BY <1>1, <1>4 DEF AboutToMake
  <2>2. job[w].runs # "mode"
    BY <1>1 DEF Setups
  <2> QED
    BY <1>1, <1>4, <2>1, <2>2 DEF IInv, Outlived
<1> QED
  BY <1>2, <1>3, <1>5, <1>6, <1>7 DEF IInv

\* A file is added to a set that is there.
LEMMA FilledIs ==
  ASSUME TypeOK, NEW n \in Nets, Filled(n)
  PROVE  /\ ipset' \in {Absent} \cup SUBSET (Cidrs \cup Ranges)
         /\ ipset = Absent <=> ipset' = Absent
         /\ ipset # Absent => ipset \subseteq ipset' /\ (nets[n] # Absent => nets[n] \subseteq ipset')
<1>1. CASE ipset = Absent \/ nets[n] = Absent
  BY <1>1 DEF Filled, TypeOK
<1>2. CASE ipset # Absent /\ nets[n] # Absent
  <2>1. nets[n] \in SUBSET Cidrs /\ ipset \in SUBSET (Cidrs \cup Ranges) /\ ipset' = ipset \cup nets[n]
    BY <1>2 DEF Filled, TypeOK
  <2> QED
    BY <1>2, <2>1, SetPresent
<1> QED
  BY <1>1, <1>2

LEMMA LoadKeeps == ASSUME IInv, NEW w \in Workers, Load(w) PROVE IInv'
<1>1. /\ job[w].at = "load" /\ job[w].runs \in Setups /\ job[w].runs # "domains" /\ holder = w
      /\ UNCHANGED <<cats, nets, mode, conf, dns, timer, beside, requests, faults>>
      /\ job[w].todo \subseteq Nets
  BY DEF Load, lists, outside, Counted, counters, Setups, IInv, Base, TypeOK, Stages
<1>2. PICK n \in job[w].todo : Filled(n) /\ Loads(w, job[w].todo \ {n})
  BY DEF Load
<1> DEFINE left == job[w].todo \ {n}
<1>3. PICK at \in {"load", "restart"} : Goes(w, at, left) /\ (at = "restart" => left = {})
  BY <1>2 DEF Loads, Stage
<1>4. left \in SUBSET (Categories \cup Nets) /\ left \subseteq Nets
  BY <1>1
<1>5. /\ job' \in [Workers -> Jobs] /\ Exclusive' /\ Stages' /\ UNCHANGED <<holder, last>>
      /\ Regenerated' /\ Rewriting' /\ Served'
  BY <1>1, <1>3, <1>4, GoesBase, GoesKeepsDomains DEF IInv
<1>6. /\ n \in Nets
      /\ ipset' \in {Absent} \cup SUBSET (Cidrs \cup Ranges)
      /\ ipset = Absent <=> ipset' = Absent
      /\ ipset # Absent => ipset \subseteq ipset' /\ (nets[n] # Absent => nets[n] \subseteq ipset')
  BY <1>1, <1>2, FilledIs DEF IInv, Base
<1>7. Base'
  BY <1>1, <1>5, <1>6 DEF IInv, Base, TypeOK, Exclusive, HookStages
<1>8. /\ job'[w].runs = job[w].runs /\ job'[w].todo = left /\ job'[w].at = at
      /\ \A v \in Workers \ {w} : job'[v] = job[v] /\ job[v].at \in {"idle", "wait"}
  BY <1>1, <1>3 DEF Goes, IInv, Base, TypeOK
<1>9. NetworksLoaded' /\ Skipping'
  BY <1>1, <1>8 DEF NetworksLoaded, Skipping
<1>10. Loading'
  <2> SUFFICES ASSUME last["setup"] # "torn"
               PROVE  /\ ipset' # Absent
                      /\ mode = "split" /\ Alone(w)' =>
                           \A m \in Nets \ left : nets[m] # Absent => nets[m] \subseteq ipset'
    BY <1>1, <1>5, <1>8 DEF Loading
  <2>1. ipset # Absent
    BY <1>1 DEF IInv, Loading
  <2>2. Alone(w)' => Alone(w)
    BY <1>8 DEF Alone
  <2>3. ASSUME mode = "split", Alone(w), NEW m \in Nets \ left, nets[m] # Absent
        PROVE  nets[m] \subseteq ipset'
    <3>1. CASE m = n
      BY <1>6, <2>1, <2>3, <3>1
    <3>2. CASE m # n
      <4>1. nets[m] \subseteq ipset
        BY <1>1, <2>3, <3>2 DEF IInv, Loading
      <4> QED
        BY <1>6, <2>1, <4>1
    <3> QED
      BY <3>1, <3>2
  <2> QED
    BY <1>6, <2>1, <2>2, <2>3
<1>11. Outlived'
  <2>1. AboutToMake' = AboutToMake
    BY <1>1, <1>8 DEF AboutToMake
  <2> QED
    BY <1>1, <1>5, <1>6, <1>8, <2>1 DEF IInv, Outlived
<1> QED
  BY <1>5, <1>7, <1>9, <1>10, <1>11 DEF IInv

LEMMA AttachKeeps ==
  ASSUME IInv, NEW w \in Workers, NEW success \in BOOLEAN, Attach(w, success) PROVE IInv'
<1>1. /\ job[w].runs \in Setups /\ job[w].runs # "domains" /\ job[w].at = "restart"
      /\ job[w].todo = {} /\ holder = w
      /\ UNCHANGED <<cats, nets, mode, conf, ipset, timer, beside>>
  BY DEF Attach, Setups, lists, outside, IInv, Base, TypeOK, Stages
<1>2. PICK result \in {"ok", "failed"} : Ends(w, result) /\ dns' \in {Down, Configured}
  BY DEF Attach, Started
<1>3. requests' \in 0..MaxRequests /\ faults' \in 0..MaxFaults /\ (faults' = 0 => faults = 0)
  BY FaultTyped DEF Attach, Counted, counters, IInv, Base, TypeOK
<1>4. /\ job' \in [Workers -> Jobs] /\ holder' = Nobody /\ Exclusive' /\ Stages'
      /\ last' \in [{"domains", "setup", "teardown"} -> Results]
      /\ Regenerated' /\ Rewriting' /\ Served'
  BY <1>1, <1>2, EndsBase, EndsKeepsDomains DEF IInv
<1>5. Base'
  <2>1. dns' \in {Down} \cup SUBSET Domains
    BY <1>2 DEF IInv, Base, TypeOK, Configured
  <2> QED
    BY <1>1, <1>3, <1>4, <2>1 DEF IInv, Base, TypeOK, Exclusive, HookStages
<1>6. /\ last'["setup"] = IF last["setup"] = "torn" THEN "torn" ELSE result
      /\ last'["teardown"] = last["teardown"]
      /\ job'[w].at \in {"idle", "wait"}
      /\ \A v \in Workers \ {w} : job'[v] = job[v] /\ job[v].at \in {"idle", "wait"}
  BY <1>1, <1>2, EndsBase, NotedIs, AfterIs DEF IInv
<1>7. NetworksLoaded'
  <2> SUFFICES ASSUME last'["setup"] = "ok", mode = "split",
                      \A v \in Workers : job'[v].runs \notin Setups \cup {"mode"}
               PROVE  ipset # Absent /\ Networks \subseteq ipset
    BY <1>1 DEF NetworksLoaded, Networks
  <2>1. Alone(w)
    BY <1>6 DEF Alone
  <2>2. ipset # Absent /\ \A n \in Nets : nets[n] # Absent => nets[n] \subseteq ipset
    BY <1>1, <1>6, <2>1 DEF IInv, Loading
  <2> QED
    BY <2>2 DEF Networks
<1>8. Loading' /\ Skipping'
  BY <1>6 DEF Loading, Skipping
<1>9. Outlived'
  <2>1. AboutToMake' = AboutToMake
    BY <1>1, <1>6 DEF AboutToMake
  <2>2. job[w].runs # "mode"
    BY <1>1 DEF Setups
  <2> QED
    BY <1>1, <1>3, <1>6, <2>1, <2>2 DEF IInv, Outlived
<1> QED
  BY <1>4, <1>5, <1>7, <1>8, <1>9 DEF IInv

\* What a teardown leaves, whoever runs it.
LEMMA TornIs ==
  ASSUME Base, Loading, Outlived, Destroyed,
         UNCHANGED <<cats, nets, mode, conf, dns, requests, faults>>,
         last'["setup"] = "torn", last'["teardown"] = Apart(AboutToMake), AboutToMake' = AboutToMake
  PROVE  NetworksLoaded' /\ Loading' /\ Outlived'
BY DEF NetworksLoaded, Loading, Outlived, Destroyed, Apart

LEMMA DestroyKeeps == ASSUME IInv, NEW w \in Workers, Destroy(w) PROVE IInv'
<1> DEFINE result == Apart(AboutToMake)
<1>1. /\ job[w].at = "destroy" /\ job[w].runs \in Teardowns /\ job[w].runs # "domains" /\ holder = w
      /\ Ends(w, result) /\ Destroyed
      /\ UNCHANGED <<cats, nets, mode, conf, dns, timer, beside, requests, faults>>
  BY DEF Destroy, Teardowns, lists, outside, Counted, counters, IInv, Base, TypeOK, Stages
<1>2. result \in {"ok", "failed", "beside"}
  BY DEF Apart
<1> HIDE DEF result
<1>3. /\ job' \in [Workers -> Jobs] /\ holder' = Nobody /\ Exclusive' /\ Stages'
      /\ last' \in [{"domains", "setup", "teardown"} -> Results]
      /\ Regenerated' /\ Rewriting' /\ Served'
  BY <1>1, <1>2, EndsBase, EndsKeepsDomains DEF IInv
<1>4. Base'
  BY <1>1, <1>3 DEF IInv, Base, TypeOK, Exclusive, HookStages, Destroyed
<1>5. /\ last'["setup"] = "torn" /\ last'["teardown"] = result /\ job'[w].at \in {"idle", "wait"}
      /\ \A v \in Workers \ {w} : job'[v] = job[v] /\ job[v].at \in {"idle", "wait"}
  BY <1>1, <1>2, EndsBase, NotedIs, AfterIs DEF IInv
<1>6. AboutToMake' = AboutToMake
  BY <1>1, <1>5 DEF AboutToMake
<1>7. NetworksLoaded' /\ Loading' /\ Outlived'
  BY <1>1, <1>5, <1>6, TornIs DEF IInv, result
<1>8. Skipping'
  BY <1>5 DEF Skipping
<1> QED
  BY <1>3, <1>4, <1>7, <1>8 DEF IInv

---------------------------------------------------------------------------
(* Failures, and what takes no lock.                                       *)

LEMMA FailKeeps == ASSUME IInv, NEW w \in Workers, Fail(w) PROVE IInv'
<1>1. /\ holder = w /\ Ends(w, "failed")
      /\ UNCHANGED <<cats, nets, mode, conf, dns, ipset, timer, beside>>
      /\ requests' = requests /\ faults' \in 1..MaxFaults
  BY FaultTyped DEF Fail, lists, outside, IInv, Base, TypeOK
<1>2. /\ job' \in [Workers -> Jobs] /\ holder' = Nobody /\ Exclusive' /\ Stages'
      /\ last' \in [{"domains", "setup", "teardown"} -> Results]
      /\ job[w].runs \in Scripts
  BY <1>1, EndsBase DEF IInv
<1>3. Base'
  BY <1>1, <1>2 DEF IInv, Base, TypeOK, Exclusive, HookStages
<1>4. /\ job'[w].at \in {"idle", "wait"} /\ job'[w].runs \notin {"domains", "mode"}
      /\ \A v \in Workers \ {w} : job'[v] = job[v] /\ job[v].at \in {"idle", "wait"}
      /\ IF job[w].runs = "domains" THEN last'["domains"] = "failed" /\ last'["setup"] = last["setup"]
         ELSE last'["setup"] # "ok"
  BY <1>1, <1>2, EndsBase, NotedIs, AfterIs DEF IInv, Scripts, Setups
<1>5. Regenerated' /\ Rewriting' /\ Served'
  <2>1. CASE job[w].runs = "domains"
    BY <1>4, <2>1 DEF Regenerated, Rewriting, Served
  <2>2. CASE job[w].runs # "domains"
    BY <1>1, <2>2, EndsKeepsDomains DEF IInv
  <2> QED
    BY <2>1, <2>2
<1>6. NetworksLoaded'
  <2>1. CASE job[w].runs = "domains"
    BY <1>1, <1>4, <2>1 DEF IInv, NetworksLoaded, Networks, Setups
  <2>2. CASE job[w].runs # "domains"
    BY <1>4, <2>2 DEF NetworksLoaded
  <2> QED
    BY <2>1, <2>2
<1>7. Loading' /\ Skipping' /\ Outlived'
  BY <1>1, <1>4 DEF Loading, Skipping, Outlived
<1> QED
  BY <1>3, <1>5, <1>6, <1>7 DEF IInv

LEMMA DeathKeeps == ASSUME IInv, ApiDies PROVE IInv'
<1>1. /\ job' = [w \in Workers |-> Idle] /\ holder' = Nobody
      /\ UNCHANGED <<cats, nets, mode, conf, dns, ipset, timer, beside>>
      /\ requests' = requests /\ faults' \in 1..MaxFaults
  BY FaultTyped DEF ApiDies, lists, outside, IInv, Base
<1>2. /\ last' \in [{"domains", "setup", "teardown"} -> Results]
      /\ last'["domains"] = IF \E w \in Workers : job[w].runs = "domains" THEN "failed" ELSE last["domains"]
      /\ last'["setup"] = IF \E w \in Workers : job[w].runs \in Scripts \ {"domains"}
                          THEN "failed" ELSE last["setup"]
  BY DEF ApiDies, Results, Scripts, IInv, Base, TypeOK
<1>3. Base'
  <2>1. job' \in [Workers -> Jobs] /\ Stages' /\ Exclusive'
    BY <1>1, NamesAssumption DEF Jobs, Idle, Stages, Exclusive
  <2> QED
    BY <1>1, <1>2, <2>1 DEF IInv, Base, TypeOK, Exclusive, HookStages
<1>4. Regenerated' /\ Served'
  <2> SUFFICES ASSUME last'["domains"] = "ok" PROVE Regenerated' /\ Served'
    BY DEF Regenerated, Served
  <2>1. last["domains"] = "ok" /\ \A w \in Workers : job[w].runs # "domains" /\ job[w].files = {}
    BY <1>2 DEF IInv, Base, Stages
  <2>2. ~Busy("domains")
    BY <2>1 DEF Busy, IInv, Base, TypeOK
  <2> QED
    BY <1>1, <2>1, <2>2 DEF IInv, Regenerated, Served, Configured, ListedIn
<1>5. NetworksLoaded'
  <2> SUFFICES ASSUME last'["setup"] = "ok" PROVE NetworksLoaded'
    BY DEF NetworksLoaded
  <2>1. last["setup"] = "ok" /\ \A w \in Workers : job[w].runs \notin Setups \cup {"mode"}
    BY <1>2 DEF Scripts, Setups, Teardowns
  <2> QED
    BY <1>1, <2>1 DEF IInv, NetworksLoaded, Networks
<1>6. Rewriting' /\ Loading' /\ Skipping' /\ Outlived'
  BY <1>1 DEF Rewriting, Loading, Skipping, Outlived, Idle
<1> QED
  BY <1>3, <1>4, <1>5, <1>6 DEF IInv

\* A step that leaves lists, generated files, requests and the lock alone.
LEMMA BesideDomains ==
  ASSUME IInv, UNCHANGED <<cats, conf, job, holder>>, dns' \in {dns, Down, Configured},
         last'["domains"] = last["domains"]
  PROVE  Regenerated' /\ Rewriting' /\ Served'
<1>1. Configured' = Configured /\ \A c \in Categories : ListedIn(c)' = ListedIn(c)
  BY DEF Configured, ListedIn
<1> QED
  BY <1>1 DEF IInv, Regenerated, Rewriting, Pending, Served, Busy

LEMMA FlushKeeps == ASSUME IInv, NEW success \in BOOLEAN, FlushDns(success) PROVE IInv'
<1>1. /\ dns' \in {Down, Configured}
      /\ UNCHANGED <<cats, nets, mode, conf, ipset, job, holder, timer, beside, last>>
      /\ requests' \in 0..MaxRequests /\ faults' \in 0..MaxFaults /\ (faults' = 0 => faults = 0)
  BY FaultTyped DEF FlushDns, Started, lists, outside, Counted, counters, IInv, Base, TypeOK
<1>2. Base'
  <2>1. Configured \in SUBSET Domains
    BY DEF IInv, Base, TypeOK, Configured
  <2> QED
    BY <1>1, <2>1 DEF IInv, Base, TypeOK, Stages, HookStages
<1>3. Regenerated' /\ Rewriting' /\ Served'
  BY <1>1, BesideDomains
<1>4. NetworksLoaded' /\ Loading' /\ Skipping' /\ Outlived'
  BY <1>1 DEF IInv, NetworksLoaded, Networks, Loading, Alone, Skipping, Outlived, AboutToMake
<1> QED
  BY <1>2, <1>3, <1>4 DEF IInv

\* A hook's step, but for its teardown.
LEMMA HookKeeps ==
  ASSUME IInv, NEW h \in Hooks, NEW next \in Jobs, HookStep(h, next), UNCHANGED last,
         next.at = "load" => next.todo \subseteq Nets,
         next.at = "set" => mode = "split",
         dns' \in {dns, Down, Configured}, requests' \in 0..MaxRequests, faults' \in 0..MaxFaults,
         faults' = 0 => faults = 0,
         ipset' \in {Absent} \cup SUBSET (Cidrs \cup Ranges),
         ipset # Absent => ipset' # Absent /\ ipset \subseteq ipset',
         ipset = Absent /\ ipset' # Absent => h \in AboutToMake
  PROVE  IInv'
<1>1. /\ beside' = [beside EXCEPT ![h] = next]
      /\ UNCHANGED <<cats, nets, mode, conf, job, holder, timer, last>>
  BY DEF HookStep, lists
<1>2. beside' \in [Hooks -> Jobs] /\ HookStages'
  BY <1>1 DEF IInv, Base, TypeOK, HookStages
<1>3. Base'
  <2>1. dns' \in {Down} \cup SUBSET Domains
    BY DEF IInv, Base, TypeOK, Configured
  <2> QED
    BY <1>1, <1>2, <2>1 DEF IInv, Base, TypeOK, Stages
<1>4. Regenerated' /\ Rewriting' /\ Served'
  BY <1>1, BesideDomains
<1>5. NetworksLoaded' /\ Loading' /\ Skipping'
  BY <1>1 DEF IInv, NetworksLoaded, Networks, Loading, Alone, Skipping
<1>6. Outlived'
  <2> SUFFICES ASSUME faults' = 0, last["teardown"] = "ok", mode # "split",
                      ~\E w \in Workers : job[w].runs = "mode"
               PROVE  ipset' = Absent /\ AboutToMake' = {}
    BY <1>1 DEF Outlived
  <2>1. ipset = Absent /\ AboutToMake = {}
    BY DEF IInv, Outlived
  <2>2. AboutToMake' = {}
    BY <1>1, <2>1 DEF AboutToMake, IInv, Base, TypeOK
  <2> QED
    BY <2>1, <2>2
<1> QED
  BY <1>3, <1>4, <1>5, <1>6 DEF IInv

LEMMA HookDestroysKeeps == ASSUME IInv, NEW h \in Hooks, HookDestroys(h) PROVE IInv'
<1>1. /\ beside[h].at = "destroy" /\ Destroyed /\ Noted("teardown", Apart(AboutToMake))
      /\ beside' = [beside EXCEPT ![h] = Idle]
      /\ UNCHANGED <<cats, nets, mode, conf, dns, job, holder, timer, requests, faults>>
  BY DEF HookDestroys, HookStep, lists, Counted, counters
<1>2. /\ last' \in [{"domains", "setup", "teardown"} -> Results]
      /\ last'["domains"] = last["domains"] /\ last'["setup"] = "torn"
      /\ last'["teardown"] = Apart(AboutToMake)
  <2>1. "teardown" \in Scripts /\ "teardown" \in Teardowns /\ Apart(AboutToMake) \in {"ok", "failed", "beside"}
    BY DEF Scripts, Teardowns, Apart
  <2> QED
    BY <1>1, <2>1, NotedIs DEF IInv
<1>3. Idle \in Jobs
  BY DEF Jobs, Idle
<1>4. Base'
  BY <1>1, <1>2, <1>3 DEF IInv, Base, TypeOK, Stages, HookStages, Destroyed, Idle
<1>5. Regenerated' /\ Rewriting' /\ Served'
  BY <1>1, <1>2, BesideDomains
<1>6. AboutToMake' = AboutToMake
  BY <1>1 DEF AboutToMake, Idle, IInv, Base, TypeOK
<1>7. NetworksLoaded' /\ Loading' /\ Outlived'
  BY <1>1, <1>2, <1>6, TornIs DEF IInv
<1>8. Skipping'
  BY <1>1 DEF IInv, Skipping
<1> QED
  BY <1>4, <1>5, <1>7, <1>8 DEF IInv

LEMMA AnyHookKeeps == ASSUME IInv, NEW h \in Hooks, Hook(h) PROVE IInv'
<1>0. /\ beside[h] \in Jobs /\ Idle \in Jobs /\ Idle.at = "idle"
      /\ requests \in 0..MaxRequests /\ faults \in 0..MaxFaults
      /\ ipset \in {Absent} \cup SUBSET (Cidrs \cup Ranges)
  BY DEF IInv, Base, TypeOK, Jobs, Idle
<1>1. ASSUME NEW script \in {"setup", "teardown"}, HookStarts(h, script) PROVE IInv'
  <2> DEFINE next == [Idle EXCEPT !.runs = script, !.at = First(script)]
  <2>1. First(script) \in {"set", "skip", "destroy"} /\ (First(script) = "set" => mode = "split")
    BY DEF First, Setups, Teardowns
  <2>2. next \in Jobs /\ next.at = First(script)
    BY <1>0, <2>1 DEF Jobs, Idle, Scripts, Setups, Teardowns
  <2>3. /\ HookStep(h, next) /\ UNCHANGED <<dns, ipset, last>>
        /\ requests' \in 0..MaxRequests /\ faults' = faults
    BY <1>1, RequestTyped DEF HookStarts, IInv, Base
  <2> HIDE DEF next
  <2> QED
    BY <1>0, <2>1, <2>2, <2>3, HookKeeps
<1>2. ASSUME HookMakesSet(h) PROVE IInv'
  <2> DEFINE next == [beside[h] EXCEPT !.at = Stage(NetFiles), !.todo = NetFiles]
  <2>1. NetFiles \subseteq Nets /\ Stage(NetFiles) \in {"load", "restart"}
    BY DEF NetFiles, Stage
  <2>2. next \in Jobs /\ next.at = Stage(NetFiles) /\ next.todo = NetFiles
    BY <1>0, <2>1 DEF Jobs
  <2>3. HookStep(h, next) /\ UNCHANGED <<dns, last, requests, faults>> /\ h \in AboutToMake
    BY <1>2 DEF HookMakesSet, HookLoads, AboutToMake, Counted, counters
  <2>4. /\ ipset' \in SUBSET (Cidrs \cup Ranges) /\ ipset' # Absent
        /\ ipset # Absent => ipset' = ipset
    BY <1>2, SetPresent DEF HookMakesSet, Made, IInv, Base, TypeOK
  <2> HIDE DEF next
  <2> QED
    BY <1>0, <2>1, <2>2, <2>3, <2>4, HookKeeps
<1>3. ASSUME HookLoadsFile(h) PROVE IInv'
  <2>1. PICK n \in beside[h].todo : Filled(n) /\ HookLoads(h, beside[h].todo \ {n})
    BY <1>3 DEF HookLoadsFile
  <2> DEFINE left == beside[h].todo \ {n}
             next == [beside[h] EXCEPT !.at = Stage(left), !.todo = left]
  <2>2. n \in Nets /\ left \subseteq Nets /\ Stage(left) \in {"load", "restart"}
    BY <1>3 DEF HookLoadsFile, Stage, IInv, Base, HookStages
  <2>3. next \in Jobs /\ next.at = Stage(left) /\ next.todo = left
    BY <1>0, <2>2 DEF Jobs
  <2>4. HookStep(h, next) /\ UNCHANGED <<dns, last, requests, faults>>
    BY <1>3, <2>1 DEF HookLoadsFile, HookLoads, Counted, counters
  <2>5. /\ ipset' \in {Absent} \cup SUBSET (Cidrs \cup Ranges)
        /\ ipset = Absent <=> ipset' = Absent
        /\ ipset # Absent => ipset \subseteq ipset'
    BY <2>1, <2>2, FilledIs DEF IInv, Base
  <2> HIDE DEF next, left
  <2> QED
    BY <1>0, <2>2, <2>3, <2>4, <2>5, HookKeeps
<1>4. ASSUME NEW success \in BOOLEAN, HookAttaches(h, success) PROVE IInv'
  <2>1. HookStep(h, Idle) /\ UNCHANGED <<ipset, last>> /\ dns' \in {Down, Configured}
    BY <1>4 DEF HookAttaches, Started
  <2>2. requests' \in 0..MaxRequests /\ faults' \in 0..MaxFaults /\ (faults' = 0 => faults = 0)
    BY <1>0, <1>4, FaultTyped DEF HookAttaches, Counted, counters, IInv, Base
  <2> QED
    BY <1>0, <2>1, <2>2, HookKeeps
<1>5. ASSUME HookEnds(h) PROVE IInv'
  <2>1. HookStep(h, Idle) /\ UNCHANGED <<dns, ipset, last>>
    BY <1>5 DEF HookEnds
  <2>2. requests' \in 0..MaxRequests /\ faults' \in 0..MaxFaults /\ (faults' = 0 => faults = 0)
    BY <1>0, <1>5, FaultTyped DEF HookEnds, Counted, counters, IInv, Base
  <2> QED
    BY <1>0, <2>1, <2>2, HookKeeps
<1> QED
  BY <1>1, <1>2, <1>3, <1>4, <1>5, HookDestroysKeeps DEF Hook

LEMMA TimerKeeps ==
  ASSUME IInv, Iplists \/ \E r \in Ranges : SkipRange(r) PROVE IInv'
<1>1. /\ UNCHANGED <<cats, nets, mode, conf, dns, job, holder, beside, last>>
      /\ requests' \in 0..MaxRequests /\ faults' \in 0..MaxFaults /\ (faults' = 0 => faults = 0)
  <2>1. CASE Iplists
    BY <2>1 DEF Iplists, TimerFires, AddRange, lists, outside, Counted, counters, IInv, Base, TypeOK
  <2>2. CASE \E r \in Ranges : SkipRange(r)
    BY <2>2, FaultTyped DEF SkipRange, lists, outside, IInv, Base, TypeOK
  <2> QED
    BY <2>1, <2>2
<1>2. /\ ipset = Absent <=> ipset' = Absent
      /\ ipset # Absent => ipset \subseteq ipset' /\ ipset' \in SUBSET (Cidrs \cup Ranges)
  <2>1. ASSUME NEW r \in Ranges, ipset # Absent, ipset' = ipset \cup {r}
        PROVE  ipset' # Absent /\ ipset \subseteq ipset' /\ ipset' \in SUBSET (Cidrs \cup Ranges)
    BY <2>1, SetPresent DEF IInv, Base, TypeOK
  <2> QED
    BY <2>1 DEF Iplists, TimerFires, AddRange, SkipRange, IInv, Base, TypeOK
<1>3. timer' \in {Absent} \cup SUBSET Ranges
  BY DEF Iplists, TimerFires, AddRange, SkipRange, TimerGoes, IInv, Base, TypeOK
<1>4. Base'
  BY <1>1, <1>2, <1>3 DEF IInv, Base, TypeOK, Stages, HookStages
<1>5. Regenerated' /\ Rewriting' /\ Served'
  BY <1>1, BesideDomains
<1>6. NetworksLoaded' /\ Loading' /\ Skipping' /\ Outlived'
  BY <1>1, <1>2 DEF IInv, NetworksLoaded, Networks, Loading, Alone, Skipping, Outlived, AboutToMake
<1> QED
  BY <1>4, <1>5, <1>6 DEF IInv

LEMMA StutterKeeps == ASSUME IInv, UNCHANGED vars PROVE IInv'
BY DEF vars, lists, outside, counters, IInv, Base, TypeOK, Stages, HookStages, Regenerated, Rewriting, Pending, Served, Busy,
       Configured, ListedIn, NetworksLoaded, Networks, Loading, Alone, Skipping, Outlived,
       AboutToMake

LEMMA Inductive == IInv /\ [Next]_vars => IInv'
<1> SUFFICES ASSUME IInv, [Next]_vars PROVE IInv'
  OBVIOUS
<1>1. ASSUME NEW w \in Workers, Script(w) PROVE IInv'
  BY <1>1, AcquireKeeps, WipeKeeps, WriteKeeps, RestartKeeps, MakeSetKeeps, SkipKeeps, LoadKeeps,
     AttachKeeps, DestroyKeeps DEF Script
<1> QED
  BY <1>1, EditKeeps, FailKeeps, DeathKeeps, FlushKeeps, AnyHookKeeps, TimerKeeps, StutterKeeps DEF Next

LEMMA Invariant == Spec => []IInv
<1> QED
  BY InitHolds, Inductive, PTL DEF Spec

---------------------------------------------------------------------------
(* Lists, jobs, hooks and the lock stay well formed; of the requests only  *)
(* the holder of the lock is at work (script_runner.py:30-46).             *)
THEOREM ListsTyped == Spec => []TypeOK
<1>1. IInv => TypeOK
  BY DEF IInv, Base
<1> QED
  BY <1>1, Invariant, PTL

(* However edits and runs of update-domains interleave, what dnsmasq is    *)
(* configured with differs from the lists only where an edit waits, unless *)
(* the latest run failed (domains.py:28-60, vpngw-update-domains.sh).     *)
THEOREM DomainsRegenerated == Spec => []Regenerated
<1>1. IInv => Regenerated
  BY DEF IInv
<1> QED
  BY <1>1, Invariant, PTL

(* A dnsmasq that runs has read all of it, though it may be restarted at   *)
(* any time without the lock (dns.py:63-68, vpngw-update-domains.sh:111).  *)
THEOREM DomainsServed == Spec => []Served
<1>1. IInv => Served
  BY DEF IInv
<1> QED
  BY <1>1, Invariant, PTL

(* When no setup and no mode change is on its way, all networks listed are *)
(* in the set of the split mode, whatever hooks do beside the lock         *)
(* (networks.py, vpngw-setup-routing.sh:195-219).                          *)
THEOREM NetworksInForce == Spec => []NetworksLoaded
<1>1. IInv => NetworksLoaded
  BY DEF IInv
<1> QED
  BY <1>1, Invariant, PTL

(* There is a set in the split mode and in no other, once all is done,     *)
(* unless a teardown passed a setup that had read the split mode and had   *)
(* yet to make the set, as one outside the lock can                        *)
(* (routing.py:65-80, vpngw-setup-routing.sh:31, vpngw-teardown-routing.sh:95). *)
THEOREM SetOfTheMode == Spec => []SetFollowsMode
<1>1. ASSUME IInv PROVE SetFollowsMode
  <2> SUFFICES ASSUME faults = 0, last["setup"] = "ok", last["teardown"] = "ok",
                      \A w \in Workers : job[w] = Idle
               PROVE  ipset # Absent <=> mode = "split"
    BY DEF SetFollowsMode
  <2>1. \A w \in Workers : job[w].runs = "nothing"
    BY DEF Idle
  <2>2. mode = "split" => ipset # Absent
    BY <1>1, <2>1 DEF IInv, NetworksLoaded, Setups
  <2>3. ipset # Absent => mode = "split"
    BY <1>1, <2>1 DEF IInv, Outlived
  <2> QED
    BY <2>2, <2>3
<1> QED
  BY <1>1, Invariant, PTL

---------------------------------------------------------------------------
(* What the edits are made of.                                             *)

LEMMA LinesAre ==
  /\ Entries \subseteq Lines /\ Comments \subseteq Lines /\ Blank \in Lines
  /\ Blank \notin Entries /\ Blank \notin Comments /\ Entries \cap Comments = {}
BY TextAssumption, EntriesAssumption DEF Lines
LEMMA JoinReads ==
  ASSUME NEW lines \in Seq(Lines)
  PROVE  /\ Join(lines) \in Seq(Lines) /\ Join(lines) # <<>>
         /\ \A kept : Blank \notin kept => Only(Lines, Join(lines), kept) = Only(Lines, lines, kept)
<1>1. CASE lines = <<>>
  <2>1. <<Blank>> \in Seq(Lines) /\ <<Blank>> # <<>>
    BY LinesAre
  <2>2. ASSUME NEW kept, Blank \notin kept PROVE Only(Lines, <<Blank>>, kept) = <<>>
    <3>1. <<Blank>> \in Seq(Lines \ kept)
      BY <2>2, LinesAre
    <3> QED BY <3>1, OnlyNone
  <2> QED BY <1>1, <2>1, <2>2, OnlyStart DEF Join
<1>2. CASE lines # <<>>
  BY <1>2 DEF Join
<1> QED BY <1>1, <1>2

LEMMA TrimmedReads ==
  ASSUME NEW text \in Seq(Lines)
  PROVE  /\ Trimmed(text) \in Seq(Lines) /\ Trimmed(text) # <<>>
         /\ \A kept : Blank \notin kept => Only(Lines, Trimmed(text), kept) = Only(Lines, text, kept)
<1> DEFINE x == Stripped(text, Blank)
<1>1. x \in Seq(Lines) /\ \A kept : Blank \notin kept => Only(Lines, x, kept) = Only(Lines, text, kept)
  BY LinesAre, StrippedIs, OnlyStripped
<1> HIDE DEF x
<1>2. /\ Join(x) \in Seq(Lines) /\ Join(x) # <<>>
      /\ \A kept : Blank \notin kept => Only(Lines, Join(x), kept) = Only(Lines, x, kept)
  BY <1>1, JoinReads
<1>3. Trimmed(text) = Join(x)
  BY DEF Trimmed, x
<1> QED BY <1>1, <1>2, <1>3

LEMMA TextsAre == Texts = {t \in Seq(Lines) : Len(t) \in 1..MaxText}
<1>1. MaxText \in Nat
  BY EntriesAssumption
<1>2. ASSUME NEW t \in Texts PROVE t \in Seq(Lines) /\ Len(t) \in 1..MaxText
  <2>1. PICK n \in 1..MaxText : t \in [1..n -> Lines]
    BY DEF Texts
  <2> QED BY <1>1, <2>1
<1>3. ASSUME NEW t \in Seq(Lines), Len(t) \in 1..MaxText PROVE t \in Texts
  <2>1. t \in [1..Len(t) -> Lines]
    OBVIOUS
  <2> QED BY <1>3, <2>1 DEF Texts
<1> QED BY <1>2, <1>3

LEMMA RequestsAre == Requests \subseteq Seq(Entries)
<1>1. MaxRequest \in Nat
  BY EntriesAssumption
<1> SUFFICES ASSUME NEW t \in Requests PROVE t \in Seq(Entries)
  OBVIOUS
<1>2. PICK n \in 0..MaxRequest : t \in [1..n -> Entries]
  BY DEF Requests
<1> QED BY <1>1, <1>2

LEMMA NewIn ==
  ASSUME NEW text, NEW entries \in Seq(Entries)
  PROVE  New(text, entries) \in Seq(Entries)
<1>1. Entries \subseteq Lines /\ entries \in Seq(Lines)
  BY SeqMonotonic DEF Lines
<1>2. New(text, entries) \in Seq(Lines \cap (Entries \ Range(Listed(text))))
  BY <1>1, OnlyIn DEF New
<1> QED BY <1>2, SeqMonotonic

---------------------------------------------------------------------------
(* Groups.                                                                 *)

Reading(text) == Loop(ReadLine, Ungrouped, text)

LEMMA UngroupedIn == Ungrouped \in Groupings
<1>1. <<>> \in Seq(DomainGroups) /\ <<>> \in Seq(Entries)
  BY EmptySeq
<1> QED BY <1>1 DEF Ungrouped, Groupings

LEMMA PushIn ==
  ASSUME NEW g \in Groupings
  PROVE  Push(g) \in Seq(DomainGroups)
<1>1. g.done \in Seq(DomainGroups) /\ Group(g.name, g.now) \in DomainGroups
  BY DEF Groupings, Group, DomainGroups
<1>2. Append(g.done, Group(g.name, g.now)) \in Seq(DomainGroups)
  BY <1>1, AppendProperties
<1> QED BY <1>1, <1>2 DEF Push

LEMMA ReadLineIn == ReadLine \in Bodies(Groupings, Lines)
<1> DEFINE Read(line, g) ==
             IF line \in Comments THEN [done |-> Push(g), name |-> line, now |-> <<>>]
             ELSE IF line \in Entries THEN [g EXCEPT !.now = Append(@, line)] ELSE g
<1>1. ASSUME NEW line \in Lines, NEW g \in Groupings PROVE Read(line, g) \in Groupings
  <2>1. CASE line \in Comments
    <3>1. Push(g) \in Seq(DomainGroups) /\ <<>> \in Seq(Entries)
      BY PushIn, EmptySeq
    <3> QED BY <2>1, <3>1 DEF Groupings
  <2>2. CASE line \notin Comments /\ line \in Entries
    <3>1. Append(g.now, line) \in Seq(Entries)
      BY <2>2, AppendProperties DEF Groupings
    <3>2. Read(line, g) = [g EXCEPT !.now = Append(g.now, line)]
      BY <2>2
    <3> HIDE DEF Read
    <3> QED BY <3>1, <3>2 DEF Groupings
  <2>3. CASE line \notin Comments /\ line \notin Entries
    BY <2>3
  <2> QED BY <2>1, <2>2, <2>3
<1>2. ReadLine = [line \in Lines |-> [g \in Groupings |-> Read(line, g)]]
  BY Zenon DEF ReadLine
<1> HIDE DEF Read
<1> QED BY <1>1, <1>2 DEF Bodies

LEMMA ReadingStart == Reading(<<>>) = Ungrouped
BY ReadLineIn, UngroupedIn, LoopStart DEF Reading

LEMMA ReadingIn ==
  ASSUME NEW text \in Seq(Lines)
  PROVE  Reading(text) \in Groupings
BY ReadLineIn, UngroupedIn, LoopIn DEF Reading

LEMMA ReadingTurn ==
  ASSUME NEW text \in Seq(Lines), NEW line \in Lines
  PROVE  /\ line \in Comments =>
              Reading(Append(text, line)) = [done |-> Push(Reading(text)), name |-> line, now |-> <<>>]
         /\ line \in Entries =>
              Reading(Append(text, line)) = [Reading(text) EXCEPT !.now = Append(@, line)]
         /\ line \notin Comments \cup Entries => Reading(Append(text, line)) = Reading(text)
<1>1. OneMore(ReadLine, Ungrouped, text, line)
  BY ReadLineIn, UngroupedIn, LoopTurn
<1>2. Reading(Append(text, line)) = ReadLine[line][Reading(text)]
  BY <1>1, Zenon DEF OneMore, Reading
<1>3. Reading(text) \in Groupings
  BY ReadingIn
<1> DEFINE r == Reading(text)
<1>4. ReadLine[line][r] =
        IF line \in Comments THEN [done |-> Push(r), name |-> line, now |-> <<>>]
        ELSE IF line \in Entries THEN [r EXCEPT !.now = Append(@, line)] ELSE r
  <2> HIDE DEF r
  <2> QED BY <1>3 DEF ReadLine, r
<1>5. ~(line \in Comments /\ line \in Entries)
  BY EntriesAssumption
<1> QED BY <1>2, <1>4, <1>5

InGroupsBody == [g \in DomainGroups |-> [all \in Seq(Entries) |-> all \o g.domains]]

LEMMA InGroupsBodyIn == InGroupsBody \in Bodies(Seq(Entries), DomainGroups)
<1>1. ASSUME NEW g \in DomainGroups, NEW all \in Seq(Entries) PROVE all \o g.domains \in Seq(Entries)
  BY ConcatProperties DEF DomainGroups
<1> QED BY <1>1 DEF InGroupsBody, Bodies

LEMMA InGroupsIn ==
  ASSUME NEW groups \in Seq(DomainGroups)
  PROVE  InGroups(groups) \in Seq(Entries)
<1>1. <<>> \in Seq(Entries)
  BY EmptySeq
<1>2. Loop(InGroupsBody, <<>>, groups) \in Seq(Entries)
  BY <1>1, InGroupsBodyIn, LoopIn
<1> QED BY <1>2 DEF InGroups, InGroupsBody

LEMMA InGroupsStart == InGroups(<<>>) = <<>>
<1>1. <<>> \in Seq(Entries)
  BY EmptySeq
<1>2. Loop(InGroupsBody, <<>>, <<>>) = <<>>
  BY <1>1, InGroupsBodyIn, LoopStart
<1> QED BY <1>2 DEF InGroups, InGroupsBody

LEMMA InGroupsTurn ==
  ASSUME NEW groups \in Seq(DomainGroups), NEW g \in DomainGroups
  PROVE  InGroups(Append(groups, g)) = InGroups(groups) \o g.domains
<1>1. <<>> \in Seq(Entries)
  BY EmptySeq
<1>2. OneMore(InGroupsBody, <<>>, groups, g)
  BY <1>1, InGroupsBodyIn, LoopTurn
<1>3. \A t : InGroups(t) = Loop(InGroupsBody, <<>>, t)
  BY DEF InGroups, InGroupsBody
<1>4. InGroups(Append(groups, g)) = InGroupsBody[g][InGroups(groups)]
  BY <1>2, <1>3, Zenon DEF OneMore
<1>5. InGroups(groups) \in Seq(Entries)
  BY InGroupsIn
<1> QED BY <1>4, <1>5 DEF InGroupsBody

\* What the loop has read so far: the groups that are done and the present one.
ReadSoFar(g) == InGroups(g.done) \o g.now

LEMMA PushReads ==
  ASSUME NEW g \in Groupings
  PROVE  InGroups(Push(g)) = ReadSoFar(g)
<1>1. g.done \in Seq(DomainGroups) /\ g.now \in Seq(Entries) /\ Group(g.name, g.now) \in DomainGroups
  BY DEF Groupings, Group, DomainGroups
<1>2. CASE g.now = <<>>
  <2>1. InGroups(g.done) \o <<>> = InGroups(g.done)
    BY <1>1, InGroupsIn, ConcatEmptySeq
  <2> QED BY <1>2, <2>1 DEF Push, ReadSoFar
<1>3. CASE g.now # <<>>
  <2>1. InGroups(Append(g.done, Group(g.name, g.now))) = InGroups(g.done) \o Group(g.name, g.now).domains
    BY <1>1, InGroupsTurn
  <2>2. Group(g.name, g.now).domains = g.now
    BY DEF Group
  <2> QED BY <1>3, <2>1, <2>2 DEF Push, ReadSoFar
<1> QED BY <1>2, <1>3

LEMMA ListedTurn ==
  ASSUME NEW text \in Seq(Lines), NEW line \in Lines
  PROVE  Listed(Append(text, line)) = IF line \in Entries THEN Append(Listed(text), line) ELSE Listed(text)
BY OnlyTurn DEF Listed

LEMMA ReadingReads ==
  ASSUME NEW text \in Seq(Lines)
  PROVE  ReadSoFar(Reading(text)) = Listed(text)
<1> DEFINE P == {t \in Seq(Lines) : ReadSoFar(Reading(t)) = Listed(t)}
<1>1. <<>> \in P
  <2>1. InGroups(<<>>) \o <<>> = <<>>
    BY InGroupsStart, EmptySeq, ConcatEmptySeq
  <2>2. ReadSoFar(Ungrouped) = <<>>
    BY <2>1 DEF ReadSoFar, Ungrouped
  <2> QED BY <2>2, ReadingStart, OnlyStart, EmptySeq DEF Listed
<1>2. ASSUME NEW t \in Seq(Lines), NEW line \in Lines, t \in P PROVE Append(t, line) \in P
  <2> DEFINE g == Reading(t)
             h == Reading(Append(t, line))
  <2>1. Append(t, line) \in Seq(Lines) /\ g \in Groupings
    BY AppendProperties, ReadingIn
  <2>2. g.done \in Seq(DomainGroups) /\ g.now \in Seq(Entries) /\ InGroups(g.done) \in Seq(Entries)
    BY <2>1, InGroupsIn DEF Groupings
  <2>3. ReadSoFar(h) = Listed(Append(t, line))
    <3>1. CASE line \in Comments
      <4>1. h = [done |-> Push(g), name |-> line, now |-> <<>>]
        BY <3>1, ReadingTurn
      <4>2. InGroups(Push(g)) \o <<>> = ReadSoFar(g)
        BY <2>1, PushReads, PushIn, InGroupsIn, ConcatEmptySeq
      <4>3. ReadSoFar(h) = InGroups(Push(g)) \o <<>>
        <5> HIDE DEF h, g
        <5> QED BY <4>1 DEF ReadSoFar
      <4>4. line \notin Entries
        BY <3>1, EntriesAssumption
      <4> QED BY <1>2, <4>2, <4>3, <4>4, ListedTurn
    <3>2. CASE line \in Entries
      <4>1. h = [g EXCEPT !.now = Append(@, line)]
        BY <3>2, ReadingTurn
      <4>2. ReadSoFar(h) = InGroups(g.done) \o Append(g.now, line)
        <5> HIDE DEF h, g
        <5> QED BY <2>1, <4>1 DEF ReadSoFar, Groupings
      <4>3. InGroups(g.done) \o Append(g.now, line) = Append(ReadSoFar(g), line)
        <5> DEFINE a == InGroups(g.done)
                   b == g.now
        <5>1. a \in Seq(Entries) /\ b \in Seq(Entries)
          BY <2>2
        <5>2. ReadSoFar(g) = a \o b
          BY DEF ReadSoFar
        <5> HIDE DEF a, b
        <5>3. a \o Append(b, line) = Append(a \o b, line)
          BY <3>2, <5>1, AppendConcat
        <5> QED BY <5>2, <5>3 DEF a, b
      <4> QED BY <1>2, <3>2, <4>2, <4>3, ListedTurn
    <3>3. CASE line \notin Comments \cup Entries
      BY <1>2, <3>3, ReadingTurn, ListedTurn
    <3> QED BY <3>1, <3>2, <3>3
  <2> QED BY <2>1, <2>3
<1>3. Seq(Lines) \subseteq P
  <2> HIDE DEF P
  <2> QED BY <1>1, <1>2, Growing
<1> QED BY <1>3

\* Grouping loses no domain and invents none, whatever the text.
LEMMA GroupsAreWhole == GroupsWhole
<1> SUFFICES ASSUME NEW text \in Texts PROVE InGroups(Groups(text)) = Listed(text)
  BY DEF GroupsWhole
<1>1. text \in Seq(Lines)
  BY TextsAre
<1>2. Groups(text) = Push(Reading(text)) /\ Reading(text) \in Groupings
  BY <1>1, ReadingIn DEF Groups, Reading
<1> QED BY <1>1, <1>2, PushReads, ReadingReads

---------------------------------------------------------------------------
(* Additions.                                                              *)

\* A group of its own: an empty line, a comment and the entries.
LEMMA ReadingGroup ==
  ASSUME NEW text \in Seq(Lines), NEW name \in Comments, NEW entries \in Seq(Entries)
  PROVE  Reading((text \o <<Blank, name>>) \o entries)
           = [done |-> Push(Reading(text)), name |-> name, now |-> entries]
<1> DEFINE head == text \o <<Blank, name>>
           Read(es) == [done |-> Push(Reading(text)), name |-> name, now |-> es]
           P == {es \in Seq(Entries) : Reading(head \o es) = Read(es)}
<1>1. head = Append(Append(text, Blank), name) /\ Append(text, Blank) \in Seq(Lines) /\ name \in Lines
  <2>1. text \o <<Blank, name>> = Append(Append(text, Blank), name)
    OBVIOUS
  <2>2. Append(text, Blank) \in Seq(Lines) /\ name \in Lines
    BY LinesAre, AppendProperties
  <2> QED BY <2>1, <2>2
<1>2. head \in Seq(Lines)
  BY <1>1, AppendProperties
<1>3. Reading(head) = Read(<<>>)
  <2>1. Reading(Append(text, Blank)) = Reading(text)
    BY LinesAre, ReadingTurn
  <2>2. Reading(Append(Append(text, Blank), name)) = [done |-> Push(Reading(Append(text, Blank))), name |-> name, now |-> <<>>]
    BY <1>1, ReadingTurn
  <2> QED BY <1>1, <2>1, <2>2
<1> HIDE DEF head
<1>4. <<>> \in P
  BY <1>2, <1>3, EmptySeq, ConcatEmptySeq
<1>5. ASSUME NEW es \in Seq(Entries), NEW e \in Entries, es \in P PROVE Append(es, e) \in P
  <2>1. Append(es, e) \in Seq(Entries) /\ es \in Seq(Lines) /\ e \in Lines /\ head \o es \in Seq(Lines)
    BY <1>2, LinesAre, AppendProperties, SeqMonotonic, ConcatProperties
  <2>2. head \o Append(es, e) = Append(head \o es, e)
    BY <1>2, <2>1, AppendConcat
  <2>3. Reading(Append(head \o es, e)) = [Reading(head \o es) EXCEPT !.now = Append(@, e)]
    BY <2>1, ReadingTurn
  <2>4. [Read(es) EXCEPT !.now = Append(@, e)] = Read(Append(es, e))
    <3> DEFINE more == Append(es, e)
    <3>1. Read(es).now = es
      OBVIOUS
    <3>2. [Read(es) EXCEPT !.now = more] = Read(more)
      <4> HIDE DEF more
      <4> QED OBVIOUS
    <3> QED BY <3>1, <3>2
  <2>5. Reading(head \o es) = Read(es)
    BY <1>5
  <2> HIDE DEF Read
  <2> QED BY <2>1, <2>2, <2>3, <2>4, <2>5
<1>6. Seq(Entries) \subseteq P
  <2> HIDE DEF P
  <2> QED BY <1>4, <1>5, Growing
<1> QED BY <1>6 DEF head

LEMMA AddedReads ==
  ASSUME NEW text \in Seq(Lines), text # <<>>, NEW entries \in Seq(Entries),
         NEW group \in Comments \cup {Blank}
  PROVE  /\ Listed(Added(text, entries, group)) = Listed(text) \o New(text, entries)
         /\ New(text, entries) # <<>> /\ group # Blank =>
              Last(Groups(Added(text, entries, group))) = Group(group, New(text, entries))
<1> DEFINE new == New(text, entries)
           lead == IF group = Blank THEN <<>> ELSE <<Blank, group>>
           begun == Trimmed(text) \o lead
<1>1. new \in Seq(Entries) /\ new \in Seq(Lines)
  BY NewIn, LinesAre, SeqMonotonic
<1>2. lead \in Seq(Lines) /\ Only(Lines, lead, Entries) = <<>>
  <2>1. CASE group = Blank
    BY <2>1, EmptySeq, OnlyStart
  <2>2. CASE group # Blank
    <3>1. Blank \in Lines \ Entries /\ group \in Lines \ Entries
      BY <2>2, LinesAre
    <3>2. <<Blank, group>> \in Seq(Lines \ Entries) /\ <<Blank, group>> \in Seq(Lines)
      BY <3>1
    <3> QED BY <2>2, <3>2, OnlyNone
  <2> QED BY <2>1, <2>2
<1>3. Trimmed(text) \in Seq(Lines) /\ Only(Lines, Trimmed(text), Entries) = Listed(text)
  BY LinesAre, TrimmedReads DEF Listed
<1> HIDE DEF lead
<1>4. begun \in Seq(Lines) /\ Only(Lines, begun, Entries) = Listed(text)
  <2>1. begun \in Seq(Lines)
    BY <1>2, <1>3, ConcatProperties
  <2>2. Only(Lines, begun, Entries) = Only(Lines, Trimmed(text), Entries) \o Only(Lines, lead, Entries)
    BY <1>2, <1>3, OnlyConcat
  <2>3. Listed(text) \o <<>> = Listed(text)
    BY OnlyLines, ConcatEmptySeq DEF Listed
  <2> QED BY <1>2, <1>3, <2>1, <2>2, <2>3
<1>5. Added(text, entries, group) = (begun \o new) \o <<Blank>>
  BY DEF Added, lead
<1> HIDE DEF begun, new
<1>6. begun \o new \in Seq(Lines)
  BY <1>1, <1>4, ConcatProperties
<1>7. Listed(Added(text, entries, group)) = Listed(text) \o new
  <2>1. Only(Lines, begun \o new, Entries) = Only(Lines, begun, Entries) \o Only(Lines, new, Entries)
    BY <1>1, <1>4, OnlyConcat
  <2>2. Only(Lines, new, Entries) = new
    <3>1. new \in Seq(Lines \cap Entries)
      BY <1>1, LinesAre, SeqMonotonic
    <3> QED BY <3>1, OnlyAll
  <2>3. Only(Lines, (begun \o new) \o <<Blank>>, Entries) = Only(Lines, begun \o new, Entries)
    BY <1>6, LinesAre, OnlyEnd
  <2> QED BY <1>4, <1>5, <2>1, <2>2, <2>3 DEF Listed
<1>8. ASSUME new # <<>>, group # Blank
      PROVE  Last(Groups(Added(text, entries, group))) = Group(group, new)
  <2> DEFINE g == [done |-> Push(Reading(Trimmed(text))), name |-> group, now |-> new]
  <2>1. Reading(begun \o new) = g
    BY <1>1, <1>3, <1>8, ReadingGroup DEF begun, lead
  <2>2. Reading(Added(text, entries, group)) = g
    <3>1. (begun \o new) \o <<Blank>> = Append(begun \o new, Blank)
      BY <1>6, LinesAre, AppendIsConcat
    <3>2. Reading(Append(begun \o new, Blank)) = Reading(begun \o new)
      BY <1>6, LinesAre, ReadingTurn
    <3> QED BY <1>5, <2>1, <3>1, <3>2
  <2>3. Groups(Added(text, entries, group)) = Push(g)
    BY <2>2 DEF Groups, Reading
  <2>4. Push(g) = Append(g.done, Group(group, new))
    BY <1>8 DEF Push
  <2>5. g.done \in Seq(DomainGroups) /\ Group(group, new) \in DomainGroups
    <3>1. g.done = Push(Reading(Trimmed(text)))
      OBVIOUS
    <3>2. Push(Reading(Trimmed(text))) \in Seq(DomainGroups)
      BY <1>3, ReadingIn, PushIn
    <3>3. group \in Comments
      BY <1>8
    <3>4. Group(group, new) \in DomainGroups
      BY <1>1, <3>3 DEF Group, DomainGroups
    <3> QED BY <3>1, <3>2, <3>4
  <2> HIDE DEF g
  <2>6. Last(Append(g.done, Group(group, new))) = Group(group, new)
    BY <2>5, AppendProperties DEF Last
  <2> QED BY <2>3, <2>4, <2>6
<1> QED BY <1>7, <1>8 DEF new

\* What is added is read, after what was there and in the group asked for.
LEMMA AddsAreExact == AddExact
<1> SUFFICES ASSUME NEW text \in Texts, NEW entries \in Requests, NEW group \in Comments \cup {Blank},
                    New(text, entries) # <<>>
             PROVE  /\ ReadByDomains(Added(text, entries, group)) = Listed(text) \o New(text, entries)
                    /\ group # Blank =>
                         Last(Groups(Added(text, entries, group))) = Group(group, New(text, entries))
  BY Zenon DEF AddExact
<1>1. text \in Seq(Lines) /\ text # <<>> /\ entries \in Seq(Entries)
  BY TextsAre, RequestsAre, EmptySeq
<1> QED BY <1>1, AddedReads DEF ReadByDomains

---------------------------------------------------------------------------
(* Deletions.                                                              *)

Drops == [lines : Seq(Lines), left : SUBSET Entries]
NothingYet(gone) == [lines |-> <<>>, left |-> gone]
Dropping(text, gone) == Loop(DropLine, NothingYet(gone), text)

LEMMA DropLineIn == DropLine \in Bodies(Drops, Lines)
<1> DEFINE Drop(line, d) == IF line \in d.left THEN [d EXCEPT !.left = @ \ {line}]
                            ELSE [d EXCEPT !.lines = Append(@, line)]
<1>1. ASSUME NEW line \in Lines, NEW d \in Drops PROVE Drop(line, d) \in Drops
  <2>1. Append(d.lines, line) \in Seq(Lines)
    BY AppendProperties DEF Drops
  <2>2. Drop(line, d) = IF line \in d.left THEN [d EXCEPT !.left = d.left \ {line}]
                        ELSE [d EXCEPT !.lines = Append(d.lines, line)]
    OBVIOUS
  <2> HIDE DEF Drop
  <2> QED BY <2>1, <2>2 DEF Drops
<1>2. DropLine = [line \in Lines |-> [d \in Drops |-> Drop(line, d)]]
  BY Zenon DEF DropLine, Drops
<1> HIDE DEF Drop
<1> QED BY <1>1, <1>2 DEF Bodies

LEMMA NothingYetIn ==
  ASSUME NEW gone \in SUBSET Entries
  PROVE  NothingYet(gone) \in Drops
<1>1. <<>> \in Seq(Lines)
  BY EmptySeq
<1> QED BY <1>1 DEF NothingYet, Drops

LEMMA DroppingIn ==
  ASSUME NEW gone \in SUBSET Entries, NEW text \in Seq(Lines)
  PROVE  Dropping(text, gone) \in Drops
BY DropLineIn, NothingYetIn, LoopIn DEF Dropping

LEMMA DroppingStart ==
  ASSUME NEW gone \in SUBSET Entries
  PROVE  Dropping(<<>>, gone) = NothingYet(gone)
BY DropLineIn, NothingYetIn, LoopStart DEF Dropping

LEMMA DroppingTurn ==
  ASSUME NEW gone \in SUBSET Entries, NEW text \in Seq(Lines), NEW line \in Lines
  PROVE  LET d == Dropping(text, gone)
             more == Dropping(Append(text, line), gone)
         IN  /\ line \in d.left => more.lines = d.lines /\ more.left = d.left \ {line}
             /\ line \notin d.left => more.lines = Append(d.lines, line) /\ more.left = d.left
<1> DEFINE d == Dropping(text, gone)
<1>1. OneMore(DropLine, NothingYet(gone), text, line)
  BY DropLineIn, NothingYetIn, LoopTurn
<1>2. Dropping(Append(text, line), gone) = DropLine[line][d]
  BY <1>1, Zenon DEF OneMore, Dropping
<1>3. d \in Drops
  BY DroppingIn
<1> HIDE DEF d
<1>4. DropLine[line][d] = IF line \in d.left THEN [d EXCEPT !.left = d.left \ {line}]
                          ELSE [d EXCEPT !.lines = Append(d.lines, line)]
  BY <1>3 DEF DropLine, Drops
<1>5. /\ line \in d.left => DropLine[line][d].lines = d.lines /\ DropLine[line][d].left = d.left \ {line}
      /\ line \notin d.left => DropLine[line][d].lines = Append(d.lines, line) /\ DropLine[line][d].left = d.left
  BY <1>3, <1>4 DEF Drops
<1> QED BY <1>2, <1>5 DEF d

\* One copy of what is to go has gone, if there was any; all else is there.
Fewer(text, lines, e) == Count(Lines, lines, e) = IF Count(Lines, text, e) = 0 THEN 0 ELSE Count(Lines, text, e) - 1
Kept(gone) == Comments \cup (Entries \ gone)
DroppedOnce(text, gone) ==
  LET d == Dropping(text, gone)
  IN  /\ d.left \subseteq gone
      /\ \A e \in gone : (e \in d.left <=> Count(Lines, text, e) = 0) /\ Fewer(text, d.lines, e)
      /\ Only(Lines, d.lines, Kept(gone)) = Only(Lines, text, Kept(gone))

LEMMA DropsOnce ==
  ASSUME NEW gone \in SUBSET Entries, NEW text \in Seq(Lines)
  PROVE  DroppedOnce(text, gone)
<1> DEFINE P == {t \in Seq(Lines) : DroppedOnce(t, gone)}
<1>1. <<>> \in P
  <2>1. Dropping(<<>>, gone).lines = <<>> /\ Dropping(<<>>, gone).left = gone
    BY DroppingStart DEF NothingYet
  <2>2. \A e : Count(Lines, <<>>, e) = 0
    BY OnlyStart, EmptySeq DEF Count
  <2> QED BY <2>1, <2>2, EmptySeq DEF DroppedOnce, Fewer
<1>2. ASSUME NEW t \in Seq(Lines), NEW line \in Lines, t \in P PROVE Append(t, line) \in P
  <2> DEFINE more == Append(t, line)
             d == Dropping(t, gone)
             h == Dropping(more, gone)
  <2>1. more \in Seq(Lines) /\ d.lines \in Seq(Lines)
    BY AppendProperties, DroppingIn DEF Drops
  <2>2. /\ d.left \subseteq gone
        /\ \A e \in gone : (e \in d.left <=> Count(Lines, t, e) = 0) /\ Fewer(t, d.lines, e)
        /\ Only(Lines, d.lines, Kept(gone)) = Only(Lines, t, Kept(gone))
    BY <1>2 DEF DroppedOnce
  <2>3. /\ line \in d.left => h.lines = d.lines /\ h.left = d.left \ {line}
        /\ line \notin d.left => h.lines = Append(d.lines, line) /\ h.left = d.left
    BY DroppingTurn
  <2>4. \A e : Count(Lines, more, e) = IF line = e THEN Count(Lines, t, e) + 1 ELSE Count(Lines, t, e)
    BY CountTurn
  <2>5. \A e : Count(Lines, Append(d.lines, line), e) = IF line = e THEN Count(Lines, d.lines, e) + 1 ELSE Count(Lines, d.lines, e)
    BY <2>1, CountTurn
  <2>6. \A e : Count(Lines, t, e) \in Nat
    BY CountIn
  <2>7. Only(Lines, more, Kept(gone)) = IF line \in Kept(gone) THEN Append(Only(Lines, t, Kept(gone)), line) ELSE Only(Lines, t, Kept(gone))
    BY OnlyTurn
  <2>8. Only(Lines, Append(d.lines, line), Kept(gone))
          = IF line \in Kept(gone) THEN Append(Only(Lines, d.lines, Kept(gone)), line) ELSE Only(Lines, d.lines, Kept(gone))
    <3> DEFINE lines == d.lines
               kept == Kept(gone)
    <3>1. lines \in Seq(Lines)
      BY <2>1
    <3> HIDE DEF lines, kept
    <3>2. Only(Lines, Append(lines, line), kept)
            = IF line \in kept THEN Append(Only(Lines, lines, kept), line) ELSE Only(Lines, lines, kept)
      BY <3>1, OnlyTurn
    <3> QED BY <3>2 DEF lines, kept
  <2> HIDE DEF more, d, h
  <2>9. CASE line \in d.left
    <3>1. line \notin Kept(gone) /\ line \in gone
      BY <2>2, <2>9, LinesAre DEF Kept
    <3>2. Only(Lines, h.lines, Kept(gone)) = Only(Lines, more, Kept(gone))
      BY <2>2, <2>3, <2>7, <2>9, <3>1
    <3>3. ASSUME NEW e \in gone
          PROVE  (e \in h.left <=> Count(Lines, more, e) = 0) /\ Fewer(more, h.lines, e)
      <4>1. CASE e = line
        <5>1. Count(Lines, t, e) = 0 /\ Count(Lines, more, e) = 1 /\ Count(Lines, d.lines, e) = 0
          BY <2>2, <2>4, <2>9, <4>1 DEF Fewer
        <5> QED BY <2>3, <2>9, <4>1, <5>1 DEF Fewer
      <4>2. CASE e # line
        <5>1. Count(Lines, more, e) = Count(Lines, t, e)
          BY <2>4, <4>2
        <5> QED BY <2>2, <2>3, <2>9, <4>2, <5>1 DEF Fewer
      <4> QED BY <4>1, <4>2
    <3> QED BY <2>1, <2>2, <2>3, <2>9, <3>2, <3>3 DEF DroppedOnce, more, h
  <2>10. CASE line \notin d.left
    <3>1. Only(Lines, h.lines, Kept(gone)) = Only(Lines, more, Kept(gone))
      <4>1. h.lines = Append(d.lines, line) /\ Only(Lines, d.lines, Kept(gone)) = Only(Lines, t, Kept(gone))
        BY <2>2, <2>3, <2>10
      <4>2. CASE line \in Kept(gone)
        BY <2>7, <2>8, <4>1, <4>2
      <4>3. CASE line \notin Kept(gone)
        BY <2>7, <2>8, <4>1, <4>3
      <4> QED BY <4>2, <4>3
    <3>2. ASSUME NEW e \in gone
          PROVE  (e \in h.left <=> Count(Lines, more, e) = 0) /\ Fewer(more, h.lines, e)
      <4>1. CASE e = line
        <5>1. Count(Lines, t, e) # 0 /\ Count(Lines, d.lines, e) = Count(Lines, t, e) - 1
          BY <2>2, <2>10, <4>1 DEF Fewer
        <5>2. Count(Lines, more, e) = Count(Lines, t, e) + 1 /\ Count(Lines, h.lines, e) = Count(Lines, d.lines, e) + 1
          BY <2>3, <2>4, <2>5, <2>10, <4>1
        <5>3. Count(Lines, more, e) # 0 /\ Count(Lines, h.lines, e) = Count(Lines, more, e) - 1
          BY <2>6, <5>1, <5>2
        <5> QED BY <2>3, <2>10, <4>1, <5>3 DEF Fewer
      <4>2. CASE e # line
        <5>1. Count(Lines, more, e) = Count(Lines, t, e) /\ Count(Lines, h.lines, e) = Count(Lines, d.lines, e)
          BY <2>3, <2>4, <2>5, <2>10, <4>2
        <5> QED BY <2>2, <2>3, <2>10, <5>1 DEF Fewer
      <4> QED BY <4>1, <4>2
    <3> QED BY <2>1, <2>2, <2>3, <2>10, <3>1, <3>2 DEF DroppedOnce, more, h
  <2> QED BY <2>9, <2>10
<1>3. Seq(Lines) \subseteq P
  <2> HIDE DEF P
  <2> QED BY <1>1, <1>2, Growing
<1> QED BY <1>3

LEMMA DeletedReads ==
  ASSUME NEW gone \in SUBSET Entries, NEW text \in Seq(Lines)
  PROVE  /\ \A e \in gone : Fewer(text, Deleted(text, gone), e)
         /\ Only(Lines, Deleted(text, gone), Kept(gone)) = Only(Lines, text, Kept(gone))
<1> DEFINE d == Dropping(text, gone)
           rest == Join(d.lines)
           after == Deleted(text, gone)
<1>1. DroppedOnce(text, gone) /\ d.lines \in Seq(Lines)
  BY DropsOnce, DroppingIn DEF Drops
<1>2. after = IF d.left = gone THEN text ELSE IF Ended(rest) THEN rest ELSE Append(rest, Blank)
  BY Zenon DEF Deleted, Dropping, NothingYet
<1> HIDE DEF after
<1>3. CASE d.left = gone
  <2>1. after = text
    BY <1>2, <1>3
  <2>2. \A e \in gone : Count(Lines, text, e) = 0
    BY <1>1, <1>3 DEF DroppedOnce
  <2> QED BY <2>1, <2>2 DEF Fewer, after
<1>4. CASE d.left # gone
  <2>1. rest \in Seq(Lines) /\ \A kept : Blank \notin kept => Only(Lines, rest, kept) = Only(Lines, d.lines, kept)
    BY <1>1, JoinReads
  <2>2. after = rest \/ after = Append(rest, Blank)
    BY <1>2, <1>4
  <2>3. ASSUME NEW kept, Blank \notin kept PROVE Only(Lines, Append(rest, Blank), kept) = Only(Lines, rest, kept)
    BY <2>1, <2>3, LinesAre, OnlyTurn
  <2> HIDE DEF rest
  <2>4. \A kept : Blank \notin kept => Only(Lines, after, kept) = Only(Lines, d.lines, kept)
    BY <2>1, <2>2, <2>3
  <2>5. Blank \notin Kept(gone) /\ \A e \in gone : Blank \notin {e}
    BY LinesAre DEF Kept
  <2>6. Only(Lines, after, Kept(gone)) = Only(Lines, d.lines, Kept(gone)) /\ \A e \in gone : Count(Lines, after, e) = Count(Lines, d.lines, e)
    BY <2>4, <2>5 DEF Count
  <2> QED BY <1>1, <2>6 DEF DroppedOnce, Fewer, after
<1> QED BY <1>3, <1>4

\* Of what is deleted a file loses one copy, and nothing else goes with it.
LEMMA DeletesAreExact == DeleteExact
<1> SUFFICES ASSUME NEW text \in Texts, NEW gone \in SUBSET Entries
             PROVE  /\ \A e \in gone : Count(Lines, Deleted(text, gone), e) = IF Count(Lines, text, e) = 0 THEN 0 ELSE Count(Lines, text, e) - 1
                    /\ Only(Lines, Deleted(text, gone), Comments \cup (Entries \ gone)) = Only(Lines, text, Comments \cup (Entries \ gone))
  BY Zenon DEF DeleteExact
<1>1. text \in Seq(Lines)
  BY TextsAre
<1> QED BY <1>1, DeletedReads DEF Fewer, Kept

---------------------------------------------------------------------------
(* Network files.                                                          *)

\* The routing script drops the last line, which a newline before the end of
\* the file makes blank.
LEMMA RoutingReads ==
  ASSUME NEW lines \in Seq(Lines)
  PROVE  ReadByRouting(lines \o <<Blank>>) = Listed(lines)
<1>1. Blank \in Lines
  BY LinesAre
<1>2. Front(lines \o <<Blank>>) = lines
  <2>1. Front(Append(lines, Blank)) = lines
    BY <1>1 DEF Front
  <2> QED BY <1>1, <2>1, AppendIsConcat
<1> QED BY <1>2 DEF ReadByRouting

LEMMA ListedEnd ==
  ASSUME NEW lines \in Seq(Lines)
  PROVE  Listed(lines \o <<Blank>>) = Listed(lines)
BY OnlyEnd, LinesAre DEF Listed

\* A description is all a file has of comments, and entries come after it.
LEMMA HeadReads ==
  ASSUME NEW description \in Comments \cup {Blank}
  PROVE  LET head == IF description = Blank THEN <<>> ELSE <<description>>
         IN  /\ head \in Seq(Lines) /\ head \in Seq(Lines \ Entries) /\ head \in Seq(Lines \cap Comments)
             /\ (IF head = <<>> THEN Blank ELSE Head(head)) = description
<1>1. CASE description = Blank
  BY <1>1, EmptySeq
<1>2. CASE description # Blank
  <2>1. description \in Lines \cap Comments /\ description \in Lines \ Entries
    BY <1>2, LinesAre
  <2> QED BY <1>2, <2>1
<1> QED BY <1>1, <1>2

LEMMA DeletedEnd ==
  ASSUME NEW gone \in SUBSET Entries, NEW lines \in Seq(Lines)
  PROVE  /\ Only(Lines, lines, Lines \ gone) \in Seq(Lines)
         /\ DeletedCidrs(lines \o <<Blank>>, gone) = Only(Lines, lines, Lines \ gone) \o <<Blank>>
<1> DEFINE rest == Only(Lines, lines, Lines \ gone)
<1>1. rest \in Seq(Lines) /\ Blank \in Lines /\ Blank \in Lines \ gone
  BY OnlyLines, LinesAre
<1>2. Only(Lines, lines \o <<Blank>>, Lines \ gone) = rest \o <<Blank>>
  <2>1. Only(Lines, Append(lines, Blank), Lines \ gone) = Append(rest, Blank)
    BY <1>1, OnlyTurn
  <2> HIDE DEF rest
  <2>2. Append(lines, Blank) = lines \o <<Blank>> /\ Append(rest, Blank) = rest \o <<Blank>>
    BY <1>1, AppendIsConcat
  <2> QED BY <2>1, <2>2
<1> HIDE DEF rest
<1>3. rest \o <<Blank>> # <<>>
  BY <1>1
<1>4. Join(rest \o <<Blank>>) = rest \o <<Blank>>
  BY <1>3 DEF Join
<1> QED BY <1>1, <1>2, <1>4 DEF DeletedCidrs, rest

LEMMA NetworksAreWhole == NetworksWhole
<1> SUFFICES ASSUME NEW description \in Comments \cup {Blank}, NEW first \in Requests,
                    NEW more \in Requests, NEW gone \in SUBSET Entries
             PROVE  LET made == Created(description, first)
                        after == DeletedCidrs(AddedCidrs(made, more), gone)
                    IN  /\ ReadByRouting(made) = first
                        /\ ReadByRouting(DeletedCidrs(made, gone)) = Listed(DeletedCidrs(made, gone))
                        /\ ReadByRouting(after) = Only(Lines, first \o New(made, more), Entries \ gone)
                        /\ Description(after) = description
  BY Zenon DEF NetworksWhole
<1> DEFINE head == IF description = Blank THEN <<>> ELSE <<description>>
           made == Created(description, first)
           x == head \o Join(first)
           new == New(made, more)
           y == Trimmed(made) \o new
           after == DeletedCidrs(AddedCidrs(made, more), gone)
<1>1. first \in Seq(Entries) /\ more \in Seq(Entries) /\ first \in Seq(Lines)
  <2>1. first \in Seq(Entries) /\ more \in Seq(Entries)
    BY RequestsAre
  <2>2. Entries \subseteq Lines
    BY LinesAre
  <2> QED BY <2>1, <2>2, SeqMonotonic
<1>2. /\ head \in Seq(Lines) /\ head \in Seq(Lines \ Entries) /\ head \in Seq(Lines \cap Comments)
      /\ (IF head = <<>> THEN Blank ELSE Head(head)) = description
  BY HeadReads
<1>3. Join(first) \in Seq(Lines) /\ \A kept : Blank \notin kept => Only(Lines, Join(first), kept) = Only(Lines, first, kept)
  BY <1>1, JoinReads
<1> HIDE DEF head
<1>4. x \in Seq(Lines) /\ x \o <<Blank>> \in Seq(Lines) /\ x \o <<Blank>> # <<>>
  <2>1. x \in Seq(Lines)
    BY <1>2, <1>3, ConcatProperties
  <2> HIDE DEF x
  <2>2. Blank \in Lines
    BY LinesAre
  <2> QED BY <2>1, <2>2
<1>5. made = x \o <<Blank>>
  BY Zenon DEF Created, head
<1> HIDE DEF made
<1>6. \A kept : Blank \notin kept => Only(Lines, made, kept) = Only(Lines, head, kept) \o Only(Lines, first, kept)
  <2> SUFFICES ASSUME NEW kept, Blank \notin kept PROVE Only(Lines, made, kept) = Only(Lines, head, kept) \o Only(Lines, first, kept)
    OBVIOUS
  <2>1. Only(Lines, x, kept) = Only(Lines, head, kept) \o Only(Lines, Join(first), kept)
    BY <1>2, <1>3, OnlyConcat
  <2>2. Only(Lines, Join(first), kept) = Only(Lines, first, kept)
    BY <1>3
  <2> HIDE DEF x
  <2>3. Only(Lines, made, kept) = Only(Lines, x, kept)
    BY <1>4, <1>5, OnlyEnd
  <2> QED BY <2>1, <2>2, <2>3
<1>7. Blank \notin Entries /\ Blank \notin Comments /\ Entries \cap Comments = {} /\ Entries \subseteq Lines
  BY LinesAre
<1>8. \A kept : kept \subseteq Entries => Only(Lines, head, kept) = <<>>
  <2> SUFFICES ASSUME NEW kept, kept \subseteq Entries PROVE Only(Lines, head, kept) = <<>>
    OBVIOUS
  <2>1. head \in Seq(Lines \ kept)
    <3>1. Lines \ Entries \subseteq Lines \ kept
      OBVIOUS
    <3> QED BY <1>2, <3>1, SeqMonotonic
  <2> QED BY <2>1, OnlyNone
<1>9. Only(Lines, head, Comments) = head
  BY <1>2, OnlyAll
<1>10. \A kept : kept \subseteq Entries => Only(Lines, made, kept) = Only(Lines, first, kept)
  <2> SUFFICES ASSUME NEW kept, kept \subseteq Entries PROVE Only(Lines, made, kept) = Only(Lines, first, kept)
    OBVIOUS
  <2>1. Only(Lines, made, kept) = Only(Lines, head, kept) \o Only(Lines, first, kept)
    BY <1>6, <1>7
  <2>2. Only(Lines, first, kept) \in Seq(Lines) /\ Only(Lines, head, kept) = <<>>
    BY <1>1, <1>8, OnlyLines
  <2> QED BY <2>1, <2>2, ConcatEmptySeq
<1>11. Only(Lines, first, Entries) = first /\ Only(Lines, first, Comments) = <<>>
  <2>1. first \in Seq(Lines \cap Entries) /\ first \in Seq(Lines \ Comments)
    <3>1. Entries \subseteq Lines \cap Entries /\ Entries \subseteq Lines \ Comments
      BY <1>7
    <3> QED BY <1>1, <3>1, SeqMonotonic
  <2> QED BY <2>1, OnlyAll, OnlyNone
<1>12. new \in Seq(Lines) /\ Only(Lines, new, Comments) = <<>>
  <2>1. new \in Seq(Entries)
    BY <1>1, NewIn
  <2> HIDE DEF new
  <2>2. new \in Seq(Lines) /\ new \in Seq(Lines \ Comments)
    <3>1. Entries \subseteq Lines /\ Entries \subseteq Lines \ Comments
      BY <1>7
    <3> QED BY <2>1, <3>1, SeqMonotonic
  <2> QED BY <2>2, OnlyNone
<1>13. AddedCidrs(made, more) = y \o <<Blank>>
  BY Zenon DEF AddedCidrs
<1> HIDE DEF new
<1>14. y \in Seq(Lines) /\ \A kept : Blank \notin kept => Only(Lines, y, kept) = Only(Lines, made, kept) \o Only(Lines, new, kept)
  <2>1. made \in Seq(Lines) /\ made # <<>>
    BY <1>4, <1>5
  <2>2. Trimmed(made) \in Seq(Lines) /\ \A kept : Blank \notin kept => Only(Lines, Trimmed(made), kept) = Only(Lines, made, kept)
    BY <2>1, TrimmedReads
  <2>3. y \in Seq(Lines)
    BY <1>12, <2>2, ConcatProperties
  <2>4. \A kept : Only(Lines, y, kept) = Only(Lines, Trimmed(made), kept) \o Only(Lines, new, kept)
    BY <1>12, <2>2, OnlyConcat
  <2> HIDE DEF y
  <2> QED BY <2>2, <2>3, <2>4
<1> HIDE DEF x, y
<1>15. ReadByRouting(made) = first
  <2>1. ReadByRouting(made) = Listed(x)
    BY <1>4, <1>5, RoutingReads
  <2>2. Listed(x) = Listed(made)
    BY <1>4, <1>5, ListedEnd
  <2>3. Listed(made) = first
    BY <1>10, <1>11 DEF Listed
  <2> QED BY <2>1, <2>2, <2>3
<1>16. ReadByRouting(DeletedCidrs(made, gone)) = Listed(DeletedCidrs(made, gone))
  <2> DEFINE w == Only(Lines, x, Lines \ gone)
  <2>1. w \in Seq(Lines) /\ DeletedCidrs(made, gone) = w \o <<Blank>>
    BY <1>4, <1>5, DeletedEnd
  <2> HIDE DEF w
  <2>2. ReadByRouting(w \o <<Blank>>) = Listed(w) /\ Listed(w \o <<Blank>>) = Listed(w)
    BY <2>1, RoutingReads, ListedEnd
  <2> QED BY <2>1, <2>2
<1> DEFINE z == Only(Lines, y, Lines \ gone)
<1>17. z \in Seq(Lines) /\ after = z \o <<Blank>>
  BY <1>13, <1>14, DeletedEnd
<1>18. Only(Lines, z, Entries) = Only(Lines, y, Entries \ gone) /\ Only(Lines, z, Comments) = Only(Lines, y, Comments)
  <2>1. (Lines \ gone) \cap Entries = Entries \ gone /\ (Lines \ gone) \cap Comments = Comments
    BY LinesAre
  <2>2. Only(Lines, z, Entries) = Only(Lines, y, (Lines \ gone) \cap Entries)
    BY <1>14, OnlyTwice
  <2>3. Only(Lines, z, Comments) = Only(Lines, y, (Lines \ gone) \cap Comments)
    BY <1>14, OnlyTwice
  <2> QED BY <2>1, <2>2, <2>3
<1> HIDE DEF z, after
<1>19. ReadByRouting(after) = Only(Lines, first \o new, Entries \ gone)
  <2>1. ReadByRouting(after) = Only(Lines, y, Entries \ gone)
    BY <1>17, <1>18, RoutingReads DEF Listed
  <2>2. Only(Lines, y, Entries \ gone) = Only(Lines, made, Entries \ gone) \o Only(Lines, new, Entries \ gone)
    BY <1>7, <1>14
  <2>3. Only(Lines, made, Entries \ gone) = Only(Lines, first, Entries \ gone)
    BY <1>10
  <2>4. Only(Lines, first \o new, Entries \ gone) = Only(Lines, first, Entries \ gone) \o Only(Lines, new, Entries \ gone)
    BY <1>1, <1>12, OnlyConcat
  <2> QED BY <2>1, <2>2, <2>3, <2>4
<1>20. Description(after) = description
  <2>1. Only(Lines, after, Comments) = Only(Lines, z, Comments)
    BY <1>7, <1>17, LinesAre, OnlyEnd
  <2>2. Only(Lines, y, Comments) = (Only(Lines, head, Comments) \o Only(Lines, first, Comments)) \o Only(Lines, new, Comments)
    BY <1>6, <1>7, <1>14
  <2>3. (head \o <<>>) \o <<>> = head
    BY <1>2, ConcatEmptySeq
  <2>4. Only(Lines, after, Comments) = head
    BY <1>9, <1>11, <1>12, <1>18, <2>1, <2>2, <2>3
  <2> QED BY <1>2, <2>4, Zenon DEF Description
<1> QED BY <1>15, <1>16, <1>19, <1>20 DEF made, new, after

(* However long the file and the request: what is added is read, after     *)
(* what was there and in its group, grouping loses no domain, of what is   *)
(* deleted one copy goes and nothing else, and the routing script reads a  *)
(* network file whole (file_manager.py:76-315, vpngw-setup-routing.sh).    *)
THEOREM TextsExact == Spec => []ListTextExact
<1>1. ListTextExact
  BY GroupsAreWhole, AddsAreExact, DeletesAreExact, NetworksAreWhole DEF ListTextExact
<1> QED
  BY <1>1, PTL
=============================================================================
