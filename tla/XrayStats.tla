----------------------------- MODULE XrayStats -----------------------------
(***************************************************************************)
(* The clients of the inbound XRay and their byte counters.  XRay counts   *)
(* in memory; vpngw-xray-stats-snapshot.py adds what is new to the totals  *)
(* in stats.json.  A snapshot runs every minute, at every status poll and  *)
(* inside the scripts that add and remove a client, which then restart     *)
(* XRay: any number of snapshots overlap.  Additions and removals are      *)
(* taken one at a time, as one operator makes them.                        *)
(***************************************************************************)
EXTENDS Naturals

CONSTANTS
  Users,
  Runners,     \* scripts that can be in flight at once
  Timer,       \* the runner of vpngw-xray-stats-snapshot.timer
  MaxBytes, MaxEdits, MaxStops, MaxKills

ASSUME TimerAssumption == Timer \in Runners
ASSUME BoundsAssumption == {MaxBytes, MaxEdits, MaxStops, MaxKills} \subseteq Nat

VARIABLES
  clients,            \* names in clients.json
  stats,              \* stats.json
  tmp, tmpExists,     \* stats.json.tmp, one name for every snapshot
  up, live, cnt,      \* XRay: running, its users, its counters
  base,               \* history: what each user sent before XRay last started
  job, pc,            \* what each runner does, and its next step
  seen, sample,       \* what it read from stats.json and from XRay
  inode,              \* where the file it has open is now
  overlapped,         \* history: two runners have been busy at once
  budget

local == <<job, pc, seen, sample, inode>>
vars == <<clients, stats, tmp, tmpExists, up, live, cnt, base, local, overlapped, budget>>

\* base is history: the user's traffic up to the start of the XRay whose
\* counter stood at last.  An entry of a file that cannot be parsed, or of a
\* user without one, reads as Nothing.
Entry == [total : Nat, last : Nat, base : Nat]
Content == [Users -> Entry]
Nothing == [total |-> 0, last |-> 0, base |-> 0]
Empty == [u \in Users |-> Nothing]
\* named: the counter is in XRay's answer.
Counter == [named : BOOLEAN, value : Nat, base : Nat]
Sample == [Users -> Counter]
NoSample == [u \in Users |-> [named |-> FALSE, value |-> 0, base |-> 0]]

Bounded == {"bytes", "edits", "stops", "kills"}

TypeOK ==
  /\ clients \subseteq Users /\ live \subseteq Users
  /\ stats \in Content /\ tmp \in Content
  /\ {up, tmpExists, overlapped} \subseteq BOOLEAN
  /\ cnt \in [Users -> Nat] /\ base \in [Users -> Nat]
  /\ job \in [Runners -> {"idle", "snapshot", "add", "remove"}]
  /\ pc \in [Runners -> {"idle", "load", "fetch", "merge", "open", "fill",
                         "replace", "restart"}]
  /\ \A r \in Runners : job[r] = "idle" <=> pc[r] = "idle"
  /\ seen \in [Runners -> Content] /\ sample \in [Runners -> Sample]
  /\ inode \in [Runners -> {"none", "tmp", "stats", "gone"}]
  /\ budget \in [Bounded -> Nat]

Idle(r) == pc[r] = "idle"
AllIdle == \A r \in Runners : Idle(r)

Spend(kind) == budget[kind] > 0 /\ budget' = [budget EXCEPT ![kind] = @ - 1]

Goto(r, step) == pc' = [pc EXCEPT ![r] = step]

\* A runner that ends forgets what it had read.
End(r) ==
  /\ Goto(r, "idle")
  /\ job' = [job EXCEPT ![r] = "idle"]
  /\ seen' = [seen EXCEPT ![r] = Empty]
  /\ sample' = [sample EXCEPT ![r] = NoSample]
  /\ inode' = [inode EXCEPT ![r] = "none"]

---------------------------------------------------------------------------
(* XRay.                                                                   *)

\* A start renders clients.json; the counters start at zero.
StartXray ==
  /\ live' = clients
  /\ base' = [u \in Users |-> base[u] + cnt[u]]
  /\ cnt' = [u \in Users |-> 0]

Traffic(u) ==
  /\ up /\ u \in live
  /\ Spend("bytes")
  /\ cnt' = [cnt EXCEPT ![u] = @ + 1]
  /\ UNCHANGED <<clients, stats, tmp, tmpExists, up, live, base, local, overlapped>>

\* XRay crashes, or the operator stops it.
XrayStops ==
  /\ up /\ Spend("stops")
  /\ up' = FALSE
  /\ UNCHANGED <<clients, stats, tmp, tmpExists, live, cnt, base, local, overlapped>>

XrayStarts ==
  /\ ~up
  /\ up' = TRUE /\ StartXray
  /\ UNCHANGED <<clients, stats, tmp, tmpExists, local, overlapped, budget>>

---------------------------------------------------------------------------
(* The scripts.                                                            *)

Begin(r, what) ==
  /\ Idle(r)
  /\ Goto(r, "load")
  /\ job' = [job EXCEPT ![r] = what]
  /\ overlapped' = (overlapped \/ ~AllIdle)
  /\ UNCHANGED <<stats, tmp, tmpExists, up, live, cnt, base, seen, sample, inode>>

BeginSnapshot(r) == Begin(r, "snapshot") /\ UNCHANGED <<clients, budget>>

\* An edit reads and rewrites clients.json, renders XRay's configuration and
\* takes a snapshot.
BeginEdit(r, what) ==
  /\ r # Timer
  /\ \A x \in Runners : job[x] \notin {"add", "remove"}
  /\ Spend("edits")
  /\ Begin(r, what)

AddClient(r, u) ==
  /\ u \notin clients /\ clients' = clients \cup {u}
  /\ BeginEdit(r, "add")

RemoveClient(r, u) ==
  /\ u \in clients /\ clients' = clients \ {u}
  /\ BeginEdit(r, "remove")

Load(r) ==
  /\ pc[r] = "load"
  /\ seen' = [seen EXCEPT ![r] = stats]
  /\ Goto(r, "fetch")
  /\ UNCHANGED <<clients, stats, tmp, tmpExists, up, live, cnt, base, job, sample, inode,
                 overlapped, budget>>

\* XRay may name a counter that is still zero.
Answers ==
  {[u \in Users |-> [named |-> cnt[u] > 0 \/ u \in zeros, value |-> cnt[u], base |-> base[u]]] :
     zeros \in SUBSET live}

\* No answer, no sample.
Fetch(r) ==
  /\ pc[r] = "fetch"
  /\ \/ up /\ \E answer \in Answers : sample' = [sample EXCEPT ![r] = answer]
     \/ UNCHANGED sample
  /\ Goto(r, "merge")
  /\ UNCHANGED <<clients, stats, tmp, tmpExists, up, live, cnt, base, job, seen, inode,
                 overlapped, budget>>

\* Mutant: a counter that went down is taken for the new total.
MergedResets(e, s) ==
  IF ~s.named THEN e
  ELSE [total |-> IF s.value >= e.last THEN e.total + (s.value - e.last) ELSE s.value,
        last |-> s.value, base |-> s.base]

\* A counter lower than the last one seen has started again from zero.
Merged(e, s) ==
  IF ~s.named THEN e
  ELSE [total |-> e.total + (IF s.value >= e.last THEN s.value - e.last ELSE s.value),
        last |-> s.value, base |-> s.base]

\* Mutant: the totals are read again, after the counters.
MergeLate(r) ==
  /\ pc[r] = "merge"
  /\ seen' = [seen EXCEPT ![r] =
       [u \in Users |-> IF u \in clients THEN Merged(stats[u], sample[r][u]) ELSE Nothing]]
  /\ sample' = [sample EXCEPT ![r] = NoSample]
  /\ Goto(r, "open")
  /\ UNCHANGED <<clients, stats, tmp, tmpExists, up, live, cnt, base, job, inode,
                 overlapped, budget>>

\* Mutant: entries of revoked users are kept.
MergeKeeps(r) ==
  /\ pc[r] = "merge"
  /\ seen' = [seen EXCEPT ![r] = [u \in Users |-> Merged(seen[r][u], sample[r][u])]]
  /\ sample' = [sample EXCEPT ![r] = NoSample]
  /\ Goto(r, "open")
  /\ UNCHANGED <<clients, stats, tmp, tmpExists, up, live, cnt, base, job, inode,
                 overlapped, budget>>

\* The names are read last; who is not among them loses the entry.
Merge(r) ==
  /\ pc[r] = "merge"
  /\ seen' = [seen EXCEPT ![r] =
       [u \in Users |-> IF u \in clients THEN Merged(seen[r][u], sample[r][u]) ELSE Nothing]]
  /\ sample' = [sample EXCEPT ![r] = NoSample]
  /\ Goto(r, "open")
  /\ UNCHANGED <<clients, stats, tmp, tmpExists, up, live, cnt, base, job, inode,
                 overlapped, budget>>

\* Opening truncates, whoever else has the file open.
OpenTmp(r) ==
  /\ pc[r] = "open"
  /\ tmp' = Empty /\ tmpExists' = TRUE
  /\ inode' = [inode EXCEPT ![r] = "tmp"]
  /\ Goto(r, "fill")
  /\ UNCHANGED <<clients, stats, up, live, cnt, base, job, seen, sample, overlapped, budget>>

\* Two writers of one file may leave what no parser accepts.
Written(r) ==
  {seen[r]} \cup (IF \E x \in Runners \ {r} : inode[x] = inode[r] THEN {Empty} ELSE {})

\* The file may have been renamed, or replaced, under the writer.
Fill(r) ==
  /\ pc[r] = "fill"
  /\ \E c \in Written(r) :
       /\ tmp' = IF inode[r] = "tmp" THEN c ELSE tmp
       /\ stats' = IF inode[r] = "stats" THEN c ELSE stats
  /\ Goto(r, "replace")
  /\ UNCHANGED <<clients, tmpExists, up, live, cnt, base, job, seen, sample, inode,
                 overlapped, budget>>

\* Where open files are after a rename of the temporary file.
Renamed(x) ==
  CASE inode[x] = "tmp" -> "stats" [] inode[x] = "stats" -> "gone" [] OTHER -> inode[x]

\* Mutant: an edit ends when its snapshot fails.
ReplaceChecked(r) ==
  /\ pc[r] = "replace"
  /\ IF tmpExists
       THEN /\ stats' = tmp /\ tmp' = Empty /\ tmpExists' = FALSE
            /\ inode' = [x \in Runners |-> IF x = r THEN "none" ELSE Renamed(x)]
       ELSE /\ UNCHANGED <<stats, tmp, tmpExists>>
            /\ inode' = [inode EXCEPT ![r] = "none"]
  /\ seen' = [seen EXCEPT ![r] = Empty]
  /\ IF job[r] = "snapshot" \/ ~tmpExists
       THEN Goto(r, "idle") /\ job' = [job EXCEPT ![r] = "idle"]
       ELSE Goto(r, "restart") /\ UNCHANGED job
  /\ UNCHANGED <<clients, up, live, cnt, base, sample, overlapped, budget>>

\* chmod and rename fail if another snapshot has renamed the file.
Replace(r) ==
  /\ pc[r] = "replace"
  /\ IF tmpExists
       THEN /\ stats' = tmp /\ tmp' = Empty /\ tmpExists' = FALSE
            /\ inode' = [x \in Runners |-> IF x = r THEN "none" ELSE Renamed(x)]
       ELSE /\ UNCHANGED <<stats, tmp, tmpExists>>
            /\ inode' = [inode EXCEPT ![r] = "none"]
  /\ seen' = [seen EXCEPT ![r] = Empty]
  /\ IF job[r] = "snapshot"
       THEN Goto(r, "idle") /\ job' = [job EXCEPT ![r] = "idle"]
       ELSE Goto(r, "restart") /\ UNCHANGED job
  /\ UNCHANGED <<clients, up, live, cnt, base, sample, overlapped, budget>>

\* try-restart.
Restart(r) ==
  /\ pc[r] = "restart"
  /\ IF up THEN StartXray ELSE UNCHANGED <<live, cnt, base>>
  /\ End(r)
  /\ UNCHANGED <<clients, stats, tmp, tmpExists, up, overlapped, budget>>

\* The API's unit takes its children with it when it stops.  An edit that the
\* API kills after 30 seconds leaves its snapshot behind, which goes on alone.
Killed(r) ==
  /\ r # Timer /\ ~Idle(r) /\ Spend("kills")
  /\ \/ End(r)
     \/ /\ job[r] # "snapshot" /\ pc[r] # "restart"
        /\ job' = [job EXCEPT ![r] = "snapshot"]
        /\ UNCHANGED <<pc, seen, sample, inode>>
  /\ UNCHANGED <<clients, stats, tmp, tmpExists, up, live, cnt, base, overlapped>>

Init ==
  /\ clients \in SUBSET Users /\ live = {} /\ up = FALSE
  /\ stats = Empty /\ tmp = Empty /\ tmpExists = FALSE
  /\ cnt = [u \in Users |-> 0] /\ base = [u \in Users |-> 0]
  /\ job = [r \in Runners |-> "idle"] /\ pc = [r \in Runners |-> "idle"]
  /\ seen = [r \in Runners |-> Empty] /\ sample = [r \in Runners |-> NoSample]
  /\ inode = [r \in Runners |-> "none"]
  /\ overlapped = FALSE
  /\ budget = [kind \in Bounded |->
       CASE kind = "bytes" -> MaxBytes [] kind = "edits" -> MaxEdits
         [] kind = "stops" -> MaxStops [] kind = "kills" -> MaxKills]

Step(r) ==
  \/ Load(r) \/ Fetch(r) \/ Merge(r)
  \/ OpenTmp(r) \/ Fill(r) \/ Replace(r) \/ Restart(r)

Next ==
  \/ \E u \in Users : Traffic(u)
  \/ XrayStops \/ XrayStarts
  \/ \E r \in Runners : BeginSnapshot(r)
  \/ \E r \in Runners, u \in Users : AddClient(r, u) \/ RemoveClient(r, u)
  \/ \E r \in Runners : Step(r) \/ Killed(r)

Spec == Init /\ [][Next]_vars

\* Scripts end, and the timer fires again after each of its snapshots.
FairSpec ==
  /\ Spec
  /\ \A r \in Runners : WF_vars(Step(r))
  /\ WF_vars(BeginSnapshot(Timer))

---------------------------------------------------------------------------
(* Properties.                                                             *)

\* No byte is counted twice, however snapshots overlap and whenever XRay
\* starts again between two steps of one.
NeverOvercounts == \A u \in Users : stats[u].total <= base[u] + cnt[u]

\* As long as snapshots have not overlapped, the total of a client that is
\* not revoked never falls, across restarts, lost samples and killed scripts.
TotalsKept ==
  [][~overlapped' => \A u \in clients \cap clients' : stats'[u].total >= stats[u].total]_vars

\* When no script runs and none was killed, XRay serves exactly the clients of
\* the file: a revoked one is out, a new one is in.
InForce == AllIdle /\ up /\ budget["kills"] = MaxKills => live = clients

\* The totals of a client that stays revoked go ("we don't keep ghosts").
GhostsGo == \A u \in Users : <>[](u \notin clients) => <>[](stats[u] = Nothing)
===========================================================================
