------------------------- MODULE AwgConfigs_proof -------------------------
(***************************************************************************)
(* Proofs about AwgConfigs and the lookups of ExitAddress beside it.  An   *)
(* address is never younger in the cache than its probe.  A switch finds   *)
(* its config whole as long as nobody edits it, and as long as there is    *)
(* one switch, what it has installed, marked and started by now is known   *)
(* from the command it has come to.                                        *)
(*                                                                         *)
(* The last part is about AwgText, for texts of any length.  A reader of   *)
(* an adapted text keeps in step with the adaptation that wrote it, line   *)
(* by line (Follows), so the text has the provider's settings and every    *)
(* hook.  Adapting it again changes nothing, because what has been written *)
(* at each line takes the adaptation to where it was (Settles).            *)
(***************************************************************************)
EXTENDS AwgConfigs, Loops_proof

\* An entry counts from before its probe.
Dated ==
  /\ cache.old <= cache.age
  /\ \A v \in Viewers : look[v].old <= look[v].age

\* What a job is at goes with what it holds.
Jobbed ==
  \A w \in Workers :
    /\ job[w].at = "idle" => job[w] = Idle
    /\ job[w].at \notin {"idle", "select"} => job[w].name \in Names
    /\ job[w].at = "write" => job[w].content \in Contents
    /\ job[w].at \in {"truncate", "mark", "start", "finish"} => dst # Absent

\* A file is empty exactly while somebody writes it, one at a time.
Whole ==
  /\ \A n \in Names : files[n] = None => \E w \in Workers : job[w].at = "write" /\ job[w].name = n
  /\ \A w \in Workers : job[w].at = "write" => files[job[w].name] = None
  /\ \A w, x \in Workers : job[w].at = "write" /\ job[x].at = "write" => w = x

\* The config of a switch is there and whole unless it was edited.
Sound == "edit" \notin upset => \A w \in Switching : files[job[w].name] \in Contents

Single == "overlap" \notin upset => \A w, x \in Switching : w = x

InstalledBy(w) ==
  /\ job[w].at \in {"check", "record", "stop", "install"} /\ marker # Absent => dst = files[marker]
  /\ job[w].at \in {"truncate", "mark", "start", "finish"} => dst = files[job[w].name]
  /\ job[w].at = "mark" => marker = Absent
  /\ job[w].at \in {"start", "finish"} => marker = job[w].name

Installing == upset = {} => \A w \in Switching : InstalledBy(w)

\* How far a switch has come that no request has disturbed.
DoneBy(w) ==
  /\ \A x \in Workers \ {w} : job[x] = Idle
  /\ files[job[w].name] \in Contents
  /\ job[w].at \notin {"check", "record"} => choice = "amnezia"
  /\ job[w].at \in {"install", "truncate", "mark", "start"} => ends = [t \in Tunnels |-> Down]
  /\ job[w].at \in {"truncate", "mark", "start", "finish"} => dst = files[job[w].name]
  /\ job[w].at \in {"start", "finish"} => marker = job[w].name
  /\ job[w].at = "finish" => ends = [amnezia |-> dst, xray |-> Down]

Undisturbed == \A w \in Switching : job[w].alone => DoneBy(w)

\* The types of what the tunnels and the library keep.
Typed ==
  /\ choice \in Tunnels \cup {"none"}
  /\ ends \in [Tunnels -> Addresses \cup {None, Down}]
  /\ files \in [Names -> Contents \cup {None, Absent}]
  /\ marker \in Names \cup {Absent}
  /\ dst \in Contents \cup {None, Absent}
  /\ job \in [Workers -> Jobs]
  /\ upset \in SUBSET {"edit", "overlap", "kill"}
  /\ requests \in 0..MaxRequests /\ kills \in 0..MaxKills

\* What holds of the library.
Safe ==
  /\ Sound /\ ActiveThere
  /\ Single /\ Installing /\ ActiveIsInstalled
  /\ Undisturbed

LibInv == Typed /\ Jobbed /\ Whole /\ Safe

---------------------------------------------------------------------------
(* Lookups, whatever the tunnels around them do.                           *)

ExitInv == ExitTypeOK /\ Dated

LEMMA ExitInitHolds == ExitInit => ExitInv
BY AddressAssumption, TimeAssumption DEF ExitInit, ExitInv, ExitTypeOK, Dated, Empty, Unasked

Looks ==
  [step : {"idle", "linked", "probing", "locating"}, force : BOOLEAN, links : SUBSET Tunnels,
   age : 0..Slow, ip : Addresses \cup {None}, old : 0..Slow]

Entries == [ip : Addresses \cup {None}, age : 0..TTL, old : 0..TTL]

\* An entry and a lookup grow older.
LEMMA EntryAges ==
  ASSUME NEW e \in Entries, e.old <= e.age
  PROVE  LET new == [e EXCEPT !.age = Older(@), !.old = Older(@)]
         IN  new \in Entries /\ new.old <= new.age
<1>1. /\ Older(e.age) \in 0..TTL /\ Older(e.old) \in 0..TTL /\ Older(e.old) <= Older(e.age)
  BY TimeAssumption DEF Entries, Older
<1> QED
  BY <1>1 DEF Entries

LEMMA LookAges ==
  ASSUME NEW l \in Looks, l.old <= l.age, l.age < Slow,
         NEW new \in {[l EXCEPT !.age = @ + 1], [l EXCEPT !.age = @ + 1, !.old = @ + 1]}
  PROVE  new \in Looks /\ new.old <= new.age
<1>1. l.age + 1 \in 0..Slow /\ l.old + 1 \in 0..Slow /\ l.old + 1 <= l.age + 1 /\ l.old <= l.age + 1
  BY TimeAssumption DEF Looks
<1> QED
  BY <1>1 DEF Looks

LEMMA LookAsks ==
  ASSUME NEW l \in Looks, l = Unasked, NEW force, NEW links
  PROVE  /\ \A new \in {[l EXCEPT !.step = "linked", !.force = force, !.links = links]} :
              new = [step |-> "linked", force |-> force, links |-> links,
                     age |-> 0, ip |-> None, old |-> 0]
         /\ \A new \in {[l EXCEPT !.step = "probing"]} :
              new = [step |-> "probing", force |-> FALSE, links |-> {},
                     age |-> 0, ip |-> None, old |-> 0]
<1>1. l.force = FALSE /\ l.links = {} /\ l.age = 0 /\ l.ip = None /\ l.old = 0
  BY DEF Unasked
<1>2. ASSUME NEW new \in {[l EXCEPT !.step = "linked", !.force = force, !.links = links]}
      PROVE  new = [step |-> "linked", force |-> force, links |-> links,
                    age |-> l.age, ip |-> l.ip, old |-> l.old]
  BY DEF Looks
<1>3. ASSUME NEW new \in {[l EXCEPT !.step = "probing"]}
      PROVE  new = [step |-> "probing", force |-> l.force, links |-> l.links,
                    age |-> l.age, ip |-> l.ip, old |-> l.old]
  BY DEF Looks
<1> QED
  BY <1>1, <1>2, <1>3

LEMMA AskLook ==
  ASSUME NEW v \in Viewers, NEW force, look[v] \in Looks, look \in [Viewers -> Looks], Ask(v, force)
  PROVE  look' = [look EXCEPT ![v] = [step |-> "linked", force |-> force, links |-> LinksUp,
                                      age |-> 0, ip |-> None, old |-> 0]]
<1>1. look[v] = Unasked
  BY DEF Ask
<1>2. PICK new \in {[look[v] EXCEPT !.step = "linked", !.force = force, !.links = LinksUp]} :
        look' = [look EXCEPT ![v] = new]
  BY DEF Ask
<1>3. new = [step |-> "linked", force |-> force, links |-> LinksUp,
             age |-> 0, ip |-> None, old |-> 0]
  BY <1>1, LookAsks, ZenonT(40)
<1> QED
  BY <1>2, <1>3

LEMMA LookupKeeps == ASSUME ExitInv, Lookup PROVE ExitInv'
<1> SUFFICES ASSUME NEW v \in Viewers,
                    \/ \E force \in BOOLEAN : Ask(v, force)
                    \/ SayDown(v) \/ SayCached(v) \/ Begin(v) \/ Store(v)
                    \/ \E ip \in Addresses \cup {None} : Probe(v, ip)
             PROVE  ExitInv'
  BY DEF Lookup
<1>1. look[v] \in Looks /\ look[v].old <= look[v].age /\ Unasked \in Looks
  BY TimeAssumption DEF ExitInv, ExitTypeOK, Dated, Looks, Unasked
<1>2. ASSUME NEW new \in Looks, new.old <= new.age, look' = [look EXCEPT ![v] = new], UNCHANGED cache
      PROVE  ExitInv'
  BY <1>2 DEF ExitInv, ExitTypeOK, Dated, Looks
<1>3. ASSUME NEW force \in BOOLEAN, Ask(v, force) PROVE ExitInv'
  <2> DEFINE new == [step |-> "linked", force |-> force, links |-> LinksUp,
                     age |-> 0, ip |-> None, old |-> 0]
  <2>1. LinksUp \in SUBSET Tunnels
    BY DEF LinksUp
  <2>2. new \in Looks /\ new.old <= new.age
    BY <2>1, TimeAssumption DEF Looks
  <2>3. look' = [look EXCEPT ![v] = new]
    BY <1>1, <1>3, AskLook DEF ExitInv, ExitTypeOK, Looks
  <2>4. UNCHANGED cache
    BY <1>3 DEF Ask
  <2> QED
    BY <1>2, <2>2, <2>3, <2>4
<1>4. CASE SayDown(v) \/ SayCached(v)
  <2>1. Unasked.old <= Unasked.age
    BY DEF Unasked
  <2> QED
    BY <1>1, <1>2, <1>4, <2>1 DEF SayDown, SayCached
<1>5. CASE Begin(v)
  <2> DEFINE new == [step |-> "probing", force |-> FALSE, links |-> {},
                     age |-> 0, ip |-> None, old |-> 0]
  <2>1. new \in Looks /\ new.old <= new.age
    BY TimeAssumption DEF Looks
  <2>2. [Unasked EXCEPT !.step = "probing"] = new
    BY <1>1, LookAsks, ZenonT(40)
  <2> QED
    BY <1>2, <1>5, <2>1, <2>2 DEF Begin
<1>6. ASSUME NEW ip \in Addresses \cup {None}, Probe(v, ip) PROVE ExitInv'
  <2> DEFINE new == [look[v] EXCEPT !.step = "locating", !.ip = ip]
  <2>1. new \in Looks /\ new.old <= new.age
    BY <1>1 DEF Looks
  <2>2. look' = [look EXCEPT ![v] = new] /\ UNCHANGED cache
    BY <1>6 DEF Probe, ExitInv, ExitTypeOK
  <2> QED
    BY <1>2, <2>1, <2>2
<1>7. CASE Store(v)
  <2>1. cache' \in Entries /\ cache'.old <= cache'.age
    BY <1>1, <1>7, TimeAssumption DEF Store, Fill, Looks, Entries, Empty
  <2>2. look' = [look EXCEPT ![v] = Unasked]
    BY <1>7 DEF Store
  <2> QED
    BY <1>1, <2>1, <2>2 DEF ExitInv, ExitTypeOK, Dated, Looks, Entries, Unasked
<1> QED
  BY <1>3, <1>4, <1>5, <1>6, <1>7

LEMMA TickKeeps == ASSUME ExitInv, Tick PROVE ExitInv'
<1>1. cache' \in Entries /\ cache'.old <= cache'.age
  BY EntryAges DEF Tick, Entries, ExitInv, ExitTypeOK, Dated
<1>2. ASSUME NEW v \in Viewers PROVE look'[v] \in Looks /\ look'[v].old <= look'[v].age
  <2>1. look[v] \in Looks /\ look[v].old <= look[v].age /\ look[v].age < Slow
    BY DEF Tick, ExitInv, ExitTypeOK, Dated, Looks
  <2>2. CASE look[v].step = "probing"
    <3>1. look'[v] = [look[v] EXCEPT !.age = @ + 1]
      BY <2>2 DEF Tick
    <3> QED
      BY <2>1, <3>1, LookAges
  <2>3. CASE look[v].step = "locating"
    <3>1. look'[v] = [look[v] EXCEPT !.age = @ + 1, !.old = @ + 1]
      BY <2>3 DEF Tick
    <3> QED
      BY <2>1, <3>1, LookAges
  <2>4. CASE look[v].step \notin {"probing", "locating"}
    BY <2>1, <2>4 DEF Tick
  <2> QED
    BY <2>2, <2>3, <2>4
<1>3. look' = [v \in Viewers |-> look'[v]]
  BY DEF Tick
<1> QED
  BY <1>1, <1>2, <1>3 DEF ExitInv, ExitTypeOK, Dated, Looks, Entries

LEMMA MoveKeeps ==
  ASSUME ExitInv, UNCHANGED look, Invalidate \/ UNCHANGED cache PROVE ExitInv'
BY TimeAssumption DEF Invalidate, Empty, ExitInv, ExitTypeOK, Dated

(* Whatever moves the tunnels, the cache serves no address longer than its *)
(* time to live after the probe it comes from (system_commands.py:428-557). *)
THEOREM ExitServedRecent == ExitSpec => []ServedRecent
<1>1. ExitInv /\ [Lookup \/ Tick \/ Move]_exitVars => ExitInv'
  BY LookupKeeps, TickKeeps, MoveKeeps DEF Move, exitVars
<1>2. ExitInv => ServedRecent
  BY TimeAssumption DEF ExitInv, ExitTypeOK, Dated, ServedRecent, Fresh
<1> QED
  BY ExitInitHolds, <1>1, <1>2, PTL DEF ExitSpec

---------------------------------------------------------------------------
(* The library moves the tunnels, and nothing else of what lookups see.    *)

\* What the actions of the library do to a job.
LEMMA GotoJob ==
  ASSUME job \in [Workers -> Jobs], NEW w \in Workers, NEW at \in Commands, Goto(w, at)
  PROVE  /\ job' \in [Workers -> Jobs]
         /\ job'[w].at = at /\ job'[w].name = job[w].name
         /\ job'[w].content = job[w].content /\ job'[w].alone = job[w].alone
         /\ \A x \in Workers \ {w} : job'[x] = job[x]
<1>1. job[w] \in Jobs /\ job'[w] = [job[w] EXCEPT !.at = at]
  BY DEF Goto
<1>2. job'[w] \in Jobs
  BY <1>1 DEF Jobs
<1>3. job' = [job EXCEPT ![w] = job'[w]]
  BY DEF Goto
<1> QED
  BY <1>1, <1>2, <1>3 DEF Jobs

LEMMA IdleJob == Idle \in Jobs
BY DEF Idle, Jobs, Commands

LEMMA FailJob ==
  ASSUME job \in [Workers -> Jobs], NEW w \in Workers, Fail(w)
  PROVE  /\ job' \in [Workers -> Jobs] /\ job'[w] = Idle
         /\ \A x \in Workers \ {w} : job'[x] = job[x]
BY IdleJob DEF Fail

LEMMA DisturbJob ==
  ASSUME job \in [Workers -> Jobs]
  PROVE  /\ Disturbed \in [Workers -> Jobs]
         /\ \A x \in Workers :
              /\ Disturbed[x].at = job[x].at /\ Disturbed[x].name = job[x].name
              /\ Disturbed[x].content = job[x].content /\ ~Disturbed[x].alone
              /\ job[x] = Idle => Disturbed[x] = Idle
<1>1. ASSUME NEW j \in Jobs, NEW new \in {[j EXCEPT !.alone = FALSE]}
      PROVE  /\ new \in Jobs /\ new.at = j.at /\ new.name = j.name
             /\ new.content = j.content /\ ~new.alone
             /\ j = Idle => new = Idle
  <2>1. new = [at |-> j.at, name |-> j.name, content |-> j.content, alone |-> FALSE]
    BY DEF Jobs
  <2>2. new \in Jobs
    BY <2>1 DEF Jobs
  <2>3. ASSUME j = Idle PROVE new = Idle
    <3>1. j.at = "idle" /\ j.name = Absent /\ j.content = None
      BY <2>3 DEF Idle
    <3> QED
      BY <2>1, <3>1 DEF Idle
  <2> QED
    BY <2>1, <2>2, <2>3
<1>2. ASSUME NEW x \in Workers
      PROVE  /\ Disturbed[x] \in Jobs
             /\ Disturbed[x].at = job[x].at /\ Disturbed[x].name = job[x].name
             /\ Disturbed[x].content = job[x].content /\ ~Disturbed[x].alone
             /\ job[x] = Idle => Disturbed[x] = Idle
  <2>1. Disturbed[x] = [job[x] EXCEPT !.alone = FALSE]
    BY DEF Disturbed
  <2> QED
    BY <1>1, <2>1
<1>3. Disturbed = [x \in Workers |-> Disturbed[x]]
  BY DEF Disturbed
<1> QED
  BY <1>2, <1>3

LEMMA TakeJob ==
  ASSUME job \in [Workers -> Jobs], NEW w \in Workers, NEW at \in Commands,
         NEW name \in Names \cup {Absent}, NEW content \in Contents \cup {None},
         Take(w, at, name, content)
  PROVE  /\ job' \in [Workers -> Jobs] /\ job[w] = Idle
         /\ job'[w].at = at /\ job'[w].name = name /\ job'[w].content = content
         /\ job'[w].alone => \A x \in Workers : job[x] = Idle
         /\ \A x \in Workers \ {w} : job'[x] = Disturbed[x]
<1>1. (\A x \in Workers : job[x] = Idle) \in BOOLEAN
  OBVIOUS
<1>2. [at |-> at, name |-> name, content |-> content,
       alone |-> \A x \in Workers : job[x] = Idle] \in Jobs
  BY <1>1 DEF Jobs
<1> QED
  BY <1>2, DisturbJob DEF Take

ScriptAt == {"check", "record", "stop", "install", "truncate", "mark", "start", "finish"}

LEMMA AtScript ==
  ASSUME Typed, Jobbed, NEW w \in Workers, job[w].at \in ScriptAt
  PROVE  w \in Switching /\ job[w].name \in Names
BY ContentAssumption DEF Jobbed, Switching, ScriptAt

LEMMA OfSwitching ==
  ASSUME Typed, Jobbed, NEW w \in Switching
  PROVE  w \in Workers /\ job[w].at \in ScriptAt /\ job[w].name \in Names
<1>1. w \in Workers /\ job[w] \in Jobs /\ job[w].at \notin {"idle", "write", "select"}
  BY DEF Switching, Typed
<1>2. job[w].at \in ScriptAt
  BY <1>1 DEF Jobs, Commands, ScriptAt
<1> QED
  BY <1>1, <1>2 DEF Jobbed

\* A switch that nobody disturbed has no other request beside it.
LEMMA NobodyAlone ==
  ASSUME Undisturbed, NEW w \in Workers, job[w].at # "idle",
         NEW x \in Switching, x # w
  PROVE  ~job[x].alone
BY DEF Undisturbed, DoneBy, Idle, Switching

---------------------------------------------------------------------------
(* Three ways to keep Safe: beside the switches, as a command of a switch, *)
(* and as the end of one.                                                  *)

\* A step beside the switches edits neither the active config nor that of a
\* switch, or says so, and no switch is alone with it.
LEMMA BesideKeeps ==
  ASSUME Typed, Jobbed, Safe, Typed',
         UNCHANGED <<marker, dst>>, upset \subseteq upset',
         "overlap" \in upset' => "overlap" \in upset,
         Switching' = Switching,
         \A x \in Switching : /\ job'[x].at = job[x].at /\ job'[x].name = job[x].name
                              /\ ~job'[x].alone,
         \A n \in Names :
           "edit" \notin upset' /\ (n = marker \/ \E x \in Switching : job[x].name = n)
             => files'[n] = files[n]
  PROVE  Safe'
<1>1. Sound'
  BY OfSwitching DEF Safe, Sound
<1>2. ActiveThere'
  BY DEF Safe, ActiveThere, Typed
<1>3. Single'
  BY DEF Safe, Single
<1>4. Installing'
  <2> SUFFICES ASSUME upset' = {}, NEW x \in Switching PROVE InstalledBy(x)'
    BY DEF Installing
  <2>1. upset = {} /\ InstalledBy(x) /\ job[x].name \in Names
    BY OfSwitching DEF Safe, Installing
  <2>2. files'[job[x].name] = files[job[x].name] /\ (marker # Absent => files'[marker] = files[marker])
    BY <2>1 DEF Typed
  <2> QED
    BY <2>1, <2>2 DEF InstalledBy
<1>5. ActiveIsInstalled'
  BY DEF Safe, ActiveIsInstalled, Typed
<1>6. Undisturbed'
  BY DEF Undisturbed
<1> QED
  BY <1>1, <1>2, <1>3, <1>4, <1>5, <1>6 DEF Safe

\* A command of a switch leaves the files, and its own progress is what counts.
LEMMA CommandKeeps ==
  ASSUME Typed, Jobbed, Safe, Typed', NEW w \in Switching, NEW at \in ScriptAt, Goto(w, at),
         UNCHANGED <<files, upset>>, marker' \in {marker, Absent, job[w].name},
         upset = {} => InstalledBy(w)',
         job[w].alone => DoneBy(w)'
  PROVE  Safe'
<1>1. w \in Workers /\ at \in Commands /\ job[w].name \in Names /\ job[w].at # "idle"
  BY OfSwitching DEF ScriptAt, Commands
<1>2. /\ job'[w].at = at /\ job'[w].name = job[w].name /\ job'[w].alone = job[w].alone
      /\ \A x \in Workers \ {w} : job'[x] = job[x]
  BY <1>1, GotoJob DEF Typed
<1>3. Switching' = Switching
  BY <1>1, <1>2 DEF Switching, ScriptAt
<1>4. \A x \in Switching : job'[x].name = job[x].name
  BY <1>2 DEF Switching
<1>5. Sound'
  BY <1>3, <1>4 DEF Safe, Sound
<1>6. ActiveThere'
  BY DEF Safe, ActiveThere, Sound
<1>7. Single'
  BY <1>3 DEF Safe, Single
<1>8. Installing'
  <2> SUFFICES ASSUME upset = {}, NEW x \in Switching PROVE InstalledBy(x)'
    BY <1>3 DEF Installing
  <2>1. x = w
    BY DEF Safe, Single
  <2> QED
    BY <2>1
<1>9. ActiveIsInstalled'
  BY <1>3 DEF ActiveIsInstalled
<1>10. Undisturbed'
  <2> SUFFICES ASSUME NEW x \in Switching, job'[x].alone PROVE DoneBy(x)'
    BY <1>3 DEF Undisturbed
  <2>1. x = w
    BY <1>1, <1>2, NobodyAlone DEF Safe, Switching
  <2> QED
    BY <1>2, <2>1
<1> QED
  BY <1>5, <1>6, <1>7, <1>8, <1>9, <1>10 DEF Safe

\* A switch ends, with the active config the installed one unless it was upset.
LEMMA EndKeeps ==
  ASSUME Typed, Jobbed, Safe, Typed', NEW w \in Switching, Fail(w),
         UNCHANGED library, upset \subseteq upset',
         "overlap" \in upset' => "overlap" \in upset,
         upset' = {} /\ marker # Absent => dst = files[marker]
  PROVE  Safe'
<1>1. w \in Workers /\ job[w].at # "idle"
  BY OfSwitching DEF ScriptAt
<1>2. job'[w] = Idle /\ \A x \in Workers \ {w} : job'[x] = job[x]
  BY <1>1, FailJob DEF Typed
<1>3. Switching' = Switching \ {w}
  BY <1>1, <1>2 DEF Switching, Idle
<1>4. \A x \in Switching' : x \in Switching /\ job'[x] = job[x] /\ ~job[x].alone
  BY <1>1, <1>2, <1>3, NobodyAlone DEF Safe, Switching
<1>5. Sound'
  BY <1>4 DEF Safe, Sound, library
<1>6. ActiveThere'
  BY DEF Safe, ActiveThere, library
<1>7. Single'
  BY <1>4 DEF Safe, Single
<1>8. upset' = {} => Switching' = {}
  BY <1>3 DEF Safe, Single
<1>9. Installing'
  BY <1>8 DEF Installing
<1>10. ActiveIsInstalled'
  BY DEF ActiveIsInstalled, library
<1>11. Undisturbed'
  BY <1>4 DEF Undisturbed
<1> QED
  BY <1>5, <1>6, <1>7, <1>9, <1>10, <1>11 DEF Safe

---------------------------------------------------------------------------
(* The commands of the switch script.                                      *)

LEMMA WritersKeep ==
  ASSUME Whole, UNCHANGED files,
         \A x \in Workers :
           /\ job'[x].at = "write" => job[x].at = "write" /\ job'[x].name = job[x].name
           /\ job[x].at = "write" => job'[x].at = "write"
  PROVE  Whole'
BY DEF Whole

\* What every command keeps: the workers' jobs go with what they hold, and a
\* writer writes on.
LEMMA GotoKeeps ==
  ASSUME Typed, Jobbed, Whole, NEW w \in Switching, NEW at \in ScriptAt, Goto(w, at),
         UNCHANGED <<files, upset, requests, kills>>,
         choice' \in Tunnels \cup {"none"}, ends' \in [Tunnels -> Addresses \cup {None, Down}],
         marker' \in Names \cup {Absent}, dst' \in Contents \cup {None, Absent},
         dst # Absent => dst' # Absent,
         at \in {"truncate", "mark", "start", "finish"} => dst' # Absent
  PROVE  Typed' /\ Jobbed' /\ Whole'
<1>1. w \in Workers /\ at \in Commands /\ job[w].name \in Names
      /\ job[w].at \in ScriptAt
  BY OfSwitching DEF ScriptAt, Commands
<1>2. /\ job' \in [Workers -> Jobs]
      /\ job'[w].at = at /\ job'[w].name = job[w].name
      /\ \A x \in Workers \ {w} : job'[x] = job[x]
  BY <1>1, GotoJob DEF Typed
<1>3. Typed'
  BY <1>2 DEF Typed
<1>4. Jobbed'
  <2> SUFFICES ASSUME NEW x \in Workers
               PROVE  /\ job'[x].at = "idle" => job'[x] = Idle
                      /\ job'[x].at \notin {"idle", "select"} => job'[x].name \in Names
                      /\ job'[x].at = "write" => job'[x].content \in Contents
                      /\ job'[x].at \in {"truncate", "mark", "start", "finish"} => dst' # Absent
    BY DEF Jobbed
  <2>1. CASE x = w
    BY <1>1, <1>2, <2>1 DEF ScriptAt
  <2>2. CASE x # w
    BY <1>2, <2>2 DEF Jobbed
  <2> QED
    BY <2>1, <2>2
<1>5. \A x \in Workers :
        /\ job'[x].at = "write" => job[x].at = "write" /\ job'[x].name = job[x].name
        /\ job[x].at = "write" => job'[x].at = "write"
  BY <1>1, <1>2 DEF ScriptAt
<1>6. Whole'
  BY <1>5, WritersKeep
<1> QED
  BY <1>3, <1>4, <1>6

LEMMA FailKeeps ==
  ASSUME Typed, Jobbed, Whole, NEW w \in Workers, job[w].at # "write", Fail(w),
         UNCHANGED library,
         choice' \in Tunnels \cup {"none"}, ends' \in [Tunnels -> Addresses \cup {None, Down}],
         upset' \in SUBSET {"edit", "overlap", "kill"},
         requests' \in 0..MaxRequests, kills' \in 0..MaxKills
  PROVE  Typed' /\ Jobbed' /\ Whole'
<1>1. /\ job' \in [Workers -> Jobs] /\ job'[w] = Idle
      /\ \A x \in Workers \ {w} : job'[x] = job[x]
  BY FailJob DEF Typed
<1>2. Typed'
  BY <1>1 DEF Typed, library
<1>3. Jobbed'
  <2> SUFFICES ASSUME NEW x \in Workers
               PROVE  /\ job'[x].at = "idle" => job'[x] = Idle
                      /\ job'[x].at \notin {"idle", "select"} => job'[x].name \in Names
                      /\ job'[x].at = "write" => job'[x].content \in Contents
                      /\ job'[x].at \in {"truncate", "mark", "start", "finish"} => dst' # Absent
    BY DEF Jobbed
  <2>1. CASE x = w
    BY <1>1, <2>1 DEF Idle
  <2>2. CASE x # w
    BY <1>1, <2>2 DEF Jobbed, library
  <2> QED
    BY <2>1, <2>2
<1>4. \A x \in Workers :
        /\ job'[x].at = "write" => job[x].at = "write" /\ job'[x].name = job[x].name
        /\ job[x].at = "write" => job'[x].at = "write"
  BY <1>1 DEF Idle
<1>5. UNCHANGED files
  BY DEF library
<1>6. Whole'
  BY <1>4, <1>5, WritersKeep
<1> QED
  BY <1>2, <1>3, <1>6

LEMMA CheckKeeps == ASSUME LibInv, NEW w \in Workers, Check(w) PROVE LibInv'
<1>1. w \in Switching /\ job[w].at = "check" /\ job[w].name \in Names
      /\ UNCHANGED <<choice, ends, library, upset, requests, kills>>
  BY AtScript DEF LibInv, Check, ScriptAt, Quiet, env
<1>2. CASE files[job[w].name] = Absent
  <2>1. Fail(w)
    BY <1>1, <1>2 DEF Check
  <2>2. Typed' /\ Jobbed' /\ Whole'
    BY <1>1, <2>1, FailKeeps DEF LibInv, Typed
  <2>3. upset # {}
    BY <1>1, <1>2, ContentAssumption DEF LibInv, Safe, Installing, Sound
  <2> QED
    BY <1>1, <2>1, <2>2, <2>3, EndKeeps DEF LibInv
<1>3. CASE files[job[w].name] # Absent
  <2>1. Goto(w, "record") /\ "record" \in ScriptAt
    BY <1>1, <1>3 DEF Check, ScriptAt
  <2>2. Typed' /\ Jobbed' /\ Whole'
    BY <1>1, <2>1, GotoKeeps DEF LibInv, Typed, library
  <2>3. job'[w].at = "record" /\ job'[w].name = job[w].name
        /\ \A x \in Workers \ {w} : job'[x] = job[x]
    BY <2>1, GotoJob DEF LibInv, Typed, Commands
  <2>4. upset = {} => InstalledBy(w)'
    BY <1>1, <2>3 DEF LibInv, Safe, Installing, InstalledBy, library
  <2>5. job[w].alone => DoneBy(w)'
    BY <1>1, <2>3 DEF LibInv, Safe, Undisturbed, DoneBy, library
  <2> QED
    BY <1>1, <2>1, <2>2, <2>4, <2>5, CommandKeeps DEF LibInv, library
<1> QED
  BY <1>2, <1>3

LEMMA RecordKeeps == ASSUME LibInv, NEW w \in Workers, Record(w) PROVE LibInv'
<1>1. w \in Switching /\ job[w].at = "record" /\ job[w].name \in Names
      /\ choice' = "amnezia" /\ UNCHANGED <<ends, library, upset, requests, kills>>
      /\ Goto(w, "stop") /\ "stop" \in ScriptAt
  BY AtScript DEF LibInv, Record, ScriptAt, Quiet
<1>2. Typed' /\ Jobbed' /\ Whole'
  BY <1>1, GotoKeeps DEF LibInv, Typed, library, Tunnels
<1>3. job'[w].at = "stop" /\ job'[w].name = job[w].name
      /\ \A x \in Workers \ {w} : job'[x] = job[x]
  BY <1>1, GotoJob DEF LibInv, Typed, Commands
<1>4. upset = {} => InstalledBy(w)'
  BY <1>1, <1>3 DEF LibInv, Safe, Installing, InstalledBy, library
<1>5. job[w].alone => DoneBy(w)'
  BY <1>1, <1>3 DEF LibInv, Safe, Undisturbed, DoneBy, library
<1> QED
  BY <1>1, <1>2, <1>4, <1>5, CommandKeeps DEF LibInv, library

LEMMA StopKeeps == ASSUME LibInv, NEW w \in Workers, Stop(w) PROVE LibInv'
<1>1. w \in Switching /\ job[w].at = "stop" /\ job[w].name \in Names
      /\ ends' = [t \in Tunnels |-> Down] /\ UNCHANGED <<choice, library, upset, requests, kills>>
      /\ Goto(w, "install") /\ "install" \in ScriptAt
  BY AtScript DEF LibInv, Stop, ScriptAt, Quiet
<1>2. Typed' /\ Jobbed' /\ Whole'
  BY <1>1, GotoKeeps DEF LibInv, Typed, library
<1>3. job'[w].at = "install" /\ job'[w].name = job[w].name
      /\ \A x \in Workers \ {w} : job'[x] = job[x]
  BY <1>1, GotoJob DEF LibInv, Typed, Commands
<1>4. upset = {} => InstalledBy(w)'
  BY <1>1, <1>3 DEF LibInv, Safe, Installing, InstalledBy, library
<1>5. job[w].alone => DoneBy(w)'
  BY <1>1, <1>3 DEF LibInv, Safe, Undisturbed, DoneBy, library
<1> QED
  BY <1>1, <1>2, <1>4, <1>5, CommandKeeps DEF LibInv, library

LEMMA InstallKeeps == ASSUME LibInv, NEW w \in Workers, Install(w) PROVE LibInv'
<1>1. w \in Switching /\ job[w].at = "install" /\ job[w].name \in Names
      /\ UNCHANGED <<choice, ends, files, marker, upset, requests, kills>>
  BY AtScript DEF LibInv, Install, ScriptAt, Quiet, env
<1>2. CASE files[job[w].name] = Absent
  <2>1. Fail(w) /\ UNCHANGED library
    BY <1>1, <1>2 DEF Install, library
  <2>2. Typed' /\ Jobbed' /\ Whole'
    BY <1>1, <2>1, FailKeeps DEF LibInv, Typed
  <2>3. upset # {}
    BY <1>1, <1>2, ContentAssumption DEF LibInv, Safe, Installing, Sound
  <2> QED
    BY <1>1, <2>1, <2>2, <2>3, EndKeeps DEF LibInv
<1>3. CASE files[job[w].name] # Absent
  <2>1. Goto(w, "truncate") /\ "truncate" \in ScriptAt /\ dst' = files[job[w].name]
    BY <1>1, <1>3 DEF Install, ScriptAt
  <2>2. dst' \in Contents \cup {None, Absent} /\ dst' # Absent
    BY <1>1, <1>3, <2>1 DEF LibInv, Typed
  <2>3. Typed' /\ Jobbed' /\ Whole'
    BY <1>1, <2>1, <2>2, GotoKeeps DEF LibInv, Typed
  <2>4. job'[w].at = "truncate" /\ job'[w].name = job[w].name
        /\ \A x \in Workers \ {w} : job'[x] = job[x]
    BY <2>1, GotoJob DEF LibInv, Typed, Commands
  <2>5. upset = {} => InstalledBy(w)'
    BY <1>1, <2>1, <2>4 DEF InstalledBy
  <2>6. job[w].alone => DoneBy(w)'
    BY <1>1, <2>1, <2>4 DEF LibInv, Safe, Undisturbed, DoneBy
  <2> QED
    BY <1>1, <2>1, <2>3, <2>5, <2>6, CommandKeeps DEF LibInv
<1> QED
  BY <1>2, <1>3

LEMMA TruncateKeeps == ASSUME LibInv, NEW w \in Workers, Truncate(w) PROVE LibInv'
<1>1. w \in Switching /\ job[w].at = "truncate" /\ job[w].name \in Names
      /\ marker' = Absent /\ UNCHANGED <<choice, ends, files, dst, upset, requests, kills>>
      /\ Goto(w, "mark") /\ "mark" \in ScriptAt
  BY AtScript DEF LibInv, Truncate, ScriptAt, Quiet, env
<1>2. dst # Absent
  BY <1>1 DEF LibInv, Jobbed
<1>3. Typed' /\ Jobbed' /\ Whole'
  BY <1>1, <1>2, GotoKeeps DEF LibInv, Typed
<1>4. job'[w].at = "mark" /\ job'[w].name = job[w].name
      /\ \A x \in Workers \ {w} : job'[x] = job[x]
  BY <1>1, GotoJob DEF LibInv, Typed, Commands
<1>5. upset = {} => InstalledBy(w)'
  BY <1>1, <1>4 DEF LibInv, Safe, Installing, InstalledBy
<1>6. job[w].alone => DoneBy(w)'
  BY <1>1, <1>4 DEF LibInv, Safe, Undisturbed, DoneBy
<1> QED
  BY <1>1, <1>3, <1>5, <1>6, CommandKeeps DEF LibInv

LEMMA MarkKeeps == ASSUME LibInv, NEW w \in Workers, Mark(w) PROVE LibInv'
<1>1. w \in Switching /\ job[w].at = "mark" /\ job[w].name \in Names
      /\ marker' = job[w].name /\ UNCHANGED <<choice, ends, files, dst, upset, requests, kills>>
      /\ Goto(w, "start") /\ "start" \in ScriptAt
  BY AtScript DEF LibInv, Mark, ScriptAt, Quiet, env
<1>2. dst # Absent
  BY <1>1 DEF LibInv, Jobbed
<1>3. Typed' /\ Jobbed' /\ Whole'
  BY <1>1, <1>2, GotoKeeps DEF LibInv, Typed
<1>4. job'[w].at = "start" /\ job'[w].name = job[w].name
      /\ \A x \in Workers \ {w} : job'[x] = job[x]
  BY <1>1, GotoJob DEF LibInv, Typed, Commands
<1>5. upset = {} => InstalledBy(w)'
  BY <1>1, <1>4 DEF LibInv, Safe, Installing, InstalledBy
<1>6. job[w].alone => DoneBy(w)'
  BY <1>1, <1>4 DEF LibInv, Safe, Undisturbed, DoneBy
<1> QED
  BY <1>1, <1>3, <1>5, <1>6, CommandKeeps DEF LibInv

\* Where AmneziaWG comes out when its unit starts.
LEMMA StartEnds ==
  ASSUME Typed, NEW end \in Addresses \cup {None, Down}, Tunnel("amnezia", end)
  PROVE  /\ ends' \in [Tunnels -> Addresses \cup {None, Down}]
         /\ ends = [t \in Tunnels |-> Down] => ends' = [amnezia |-> end, xray |-> Down]
BY DEF Typed, Tunnel, Tunnels

LEMMA StartKeeps ==
  ASSUME LibInv, NEW w \in Workers, NEW success \in BOOLEAN, Start(w, success) PROVE LibInv'
<1>1. w \in Switching /\ job[w].at = "start" /\ job[w].name \in Names
      /\ UNCHANGED <<choice, library, upset, requests, kills>>
  BY AtScript DEF LibInv, Start, ScriptAt, Quiet
<1>2. dst # Absent
  BY <1>1 DEF LibInv, Jobbed
<1>3. dst \in Addresses \cup {None, Down}
  BY <1>2, ContentAssumption DEF LibInv, Typed
<1>4. ends' \in [Tunnels -> Addresses \cup {None, Down}]
  BY <1>3, StartEnds DEF Start, LibInv, Typed
<1>5. CASE ends["amnezia"] # Down \/ success
  <2>1. Goto(w, "finish") /\ "finish" \in ScriptAt
    BY <1>5 DEF Start, ScriptAt
  <2>2. Typed' /\ Jobbed' /\ Whole'
    BY <1>1, <1>2, <1>4, <2>1, GotoKeeps DEF LibInv, Typed, library
  <2>3. job'[w].at = "finish" /\ job'[w].name = job[w].name
        /\ \A x \in Workers \ {w} : job'[x] = job[x]
    BY <2>1, GotoJob DEF LibInv, Typed, Commands
  <2>4. upset = {} => InstalledBy(w)'
    BY <1>1, <2>3 DEF LibInv, Safe, Installing, InstalledBy, library
  <2>5. ASSUME job[w].alone PROVE DoneBy(w)'
    <3>1. DoneBy(w)
      BY <1>1, <2>5 DEF LibInv, Safe, Undisturbed
    <3>2. ends = [t \in Tunnels |-> Down]
      BY <1>1, <3>1 DEF DoneBy
    <3>3. Tunnel("amnezia", dst)
      BY <1>5, <3>2 DEF Start, Tunnels
    <3>4. ends' = [amnezia |-> dst, xray |-> Down]
      BY <1>3, <3>2, <3>3, StartEnds DEF LibInv
    <3> QED
      BY <1>1, <2>3, <3>1, <3>4 DEF DoneBy, library
  <2> QED
    BY <1>1, <2>1, <2>2, <2>4, <2>5, CommandKeeps DEF LibInv, library
<1>6. CASE ends["amnezia"] = Down /\ ~success
  <2>1. Fail(w)
    BY <1>6 DEF Start
  <2>2. Typed' /\ Jobbed' /\ Whole'
    BY <1>1, <1>4, <2>1, FailKeeps DEF LibInv, Typed
  <2>3. upset = {} => dst = files[marker]
    BY <1>1 DEF LibInv, Safe, Installing, InstalledBy
  <2> QED
    BY <1>1, <2>1, <2>2, <2>3, EndKeeps DEF LibInv
<1> QED
  BY <1>5, <1>6

LEMMA FinishKeeps == ASSUME LibInv, NEW w \in Workers, Finish(w) PROVE LibInv'
<1>1. w \in Switching /\ job[w].at = "finish" /\ job[w].name \in Names
      /\ UNCHANGED <<choice, ends, library, upset, requests, kills>> /\ Fail(w)
  BY AtScript DEF LibInv, Finish, ScriptAt, env, Fail
<1>2. Typed' /\ Jobbed' /\ Whole'
  BY <1>1, FailKeeps DEF LibInv, Typed
<1>3. upset = {} => dst = files[marker]
  BY <1>1 DEF LibInv, Safe, Installing, InstalledBy
<1> QED
  BY <1>1, <1>2, <1>3, EndKeeps DEF LibInv

LEMMA KillKeeps == ASSUME LibInv, NEW w \in Workers, Kill(w) PROVE LibInv'
<1>1. w \in Switching /\ job[w].at \in ScriptAt /\ Fail(w)
      /\ UNCHANGED <<choice, ends, library, requests>> /\ upset' = upset \cup {"kill"}
  BY OfSwitching DEF LibInv, Kill, exitVars
<1>2. kills' \in 0..MaxKills
  BY BoundAssumption DEF LibInv, Typed, Kill
<1>3. Typed' /\ Jobbed' /\ Whole'
  BY <1>1, <1>2, FailKeeps DEF LibInv, Typed, ScriptAt
<1> QED
  BY <1>1, <1>3, EndKeeps DEF LibInv

---------------------------------------------------------------------------
(* Requests that arrive, and what they do to a switch in flight.           *)

LEMMA DisturbedSwitches ==
  ASSUME Typed,
         \A x \in Workers : \/ job'[x] = Disturbed[x]
                            \/ job[x] = Idle /\ job'[x].at \in {"write", "select"}
  PROVE  /\ Switching' = Switching
         /\ \A x \in Switching : /\ job'[x].at = job[x].at /\ job'[x].name = job[x].name
                                 /\ ~job'[x].alone
<1>1. \A x \in Workers :
        /\ Disturbed[x].at = job[x].at /\ Disturbed[x].name = job[x].name
        /\ ~Disturbed[x].alone
  BY DisturbJob DEF Typed
<1>2. \A x \in Workers : job[x] = Idle => x \notin Switching
  BY DEF Switching, Idle
<1>3. \A x \in Workers : x \in Switching <=> x \in Switching'
  BY <1>1, <1>2 DEF Switching
<1> QED
  BY <1>1, <1>2, <1>3 DEF Switching

\* The jobs of the others are the same but for alone.
LEMMA DisturbedJobs ==
  ASSUME Typed, Jobbed, UNCHANGED dst, NEW x \in Workers, job'[x] = Disturbed[x]
  PROVE  /\ job'[x].at = job[x].at /\ job'[x].name = job[x].name
         /\ job'[x].at = "idle" => job'[x] = Idle
         /\ job'[x].at \notin {"idle", "select"} => job'[x].name \in Names
         /\ job'[x].at = "write" => job'[x].content \in Contents
         /\ job'[x].at \in {"truncate", "mark", "start", "finish"} => dst' # Absent
<1>1. /\ job'[x].at = job[x].at /\ job'[x].name = job[x].name
      /\ job'[x].content = job[x].content
      /\ job[x] = Idle => job'[x] = Idle
  BY DisturbJob DEF Typed
<1> QED
  BY <1>1 DEF Jobbed

\* An edit that is told from those that disturb the active config or a switch.
LEMMA EditsApart ==
  ASSUME LibInv, NEW n \in Names, n # marker \/ files[n] = Absent,
         files' \in [Names -> Contents \cup {None, Absent}],
         \A m \in Names \ {n} : files'[m] = files[m],
         Arrives(EditFlaw(n)), NEW m \in Names,
         "edit" \notin upset', m = marker \/ \E x \in Switching : job[x].name = m
  PROVE  files'[m] = files[m]
<1>1. "edit" \notin upset /\ "edit" \notin EditFlaw(n)
  BY DEF Arrives
<1>2. \A x \in Switching : job[x].name # n
  BY <1>1 DEF EditFlaw
<1>3. CASE m = n /\ n = marker
  <2>1. files[n] \in Contents
    BY <1>1, <1>3, ContentAssumption DEF LibInv, Safe, ActiveThere
  <2> QED
    BY <1>3, <2>1, ContentAssumption
<1> QED
  BY <1>2, <1>3

LEMMA FlawsTyped ==
  ASSUME Typed, NEW flaws \in SUBSET {"edit", "overlap", "kill"}, Arrives(flaws)
  PROVE  /\ requests' \in 0..MaxRequests /\ kills' \in 0..MaxKills
         /\ upset' \in SUBSET {"edit", "overlap", "kill"}
BY BoundAssumption DEF Typed, Arrives

LEMMA UploadKeeps ==
  ASSUME LibInv, NEW w \in Workers, NEW n \in Names, NEW c \in Contents,
         NEW overwrite \in BOOLEAN, Upload(w, n, c, overwrite)
  PROVE  LibInv'
<1>1. /\ n # marker \/ files[n] = Absent
      /\ files' = [files EXCEPT ![n] = None]
      /\ Take(w, "write", n, c) /\ Arrives(EditFlaw(n)) /\ LoopFree
      /\ UNCHANGED <<choice, ends, marker, dst>>
  BY DEF Upload, exitVars, Arrives
<1>2. /\ job' \in [Workers -> Jobs] /\ job[w] = Idle
      /\ job'[w].at = "write" /\ job'[w].name = n /\ job'[w].content = c
      /\ \A x \in Workers \ {w} : job'[x] = Disturbed[x]
  BY <1>1, TakeJob DEF LibInv, Typed, Commands
<1>3. EditFlaw(n) \in SUBSET {"edit", "overlap", "kill"}
  BY DEF EditFlaw
<1>4. Typed'
  BY <1>1, <1>2, <1>3, FlawsTyped DEF LibInv, Typed
<1>5. Jobbed'
  <2> SUFFICES ASSUME NEW x \in Workers
               PROVE  /\ job'[x].at = "idle" => job'[x] = Idle
                      /\ job'[x].at \notin {"idle", "select"} => job'[x].name \in Names
                      /\ job'[x].at = "write" => job'[x].content \in Contents
                      /\ job'[x].at \in {"truncate", "mark", "start", "finish"} => dst' # Absent
    BY DEF Jobbed
  <2>1. CASE x = w
    BY <1>2, <2>1
  <2>2. CASE x # w
    BY <1>1, <1>2, <2>2, DisturbedJobs DEF LibInv
  <2> QED
    BY <2>1, <2>2
<1>6. Whole'
  <2>1. \A x \in Workers \ {w} : job'[x].at # "write"
    BY <1>1, <1>2, DisturbJob DEF LibInv, Typed, LoopFree
  <2>2. \A m \in Names : files[m] # None
    BY <1>1 DEF LibInv, Whole, LoopFree
  <2>3. \A m \in Names : files'[m] = IF m = n THEN None ELSE files[m]
    BY <1>1 DEF LibInv, Typed
  <2> QED
    BY <1>2, <2>1, <2>2, <2>3 DEF Whole
<1>7. Switching' = Switching
      /\ \A x \in Switching : /\ job'[x].at = job[x].at /\ job'[x].name = job[x].name
                              /\ ~job'[x].alone
  <2>1. \A x \in Workers : \/ job'[x] = Disturbed[x]
                           \/ job[x] = Idle /\ job'[x].at \in {"write", "select"}
    BY <1>2
  <2> QED
    BY <2>1, DisturbedSwitches DEF LibInv
<1>8. upset \subseteq upset' /\ ("overlap" \in upset' => "overlap" \in upset)
  BY <1>1 DEF Arrives, EditFlaw
<1>9. \A m \in Names :
        "edit" \notin upset' /\ (m = marker \/ \E x \in Switching : job[x].name = m)
          => files'[m] = files[m]
  BY <1>1, <1>4, EditsApart DEF LibInv, Typed
<1> QED
  BY <1>1, <1>4, <1>5, <1>6, <1>7, <1>8, <1>9, BesideKeeps DEF LibInv

LEMMA DeleteKeeps ==
  ASSUME LibInv, NEW n \in Names, Delete(n)
  PROVE  LibInv'
<1>1. /\ n # marker \/ files[n] = Absent
      /\ files' = [files EXCEPT ![n] = Absent]
      /\ job' = Disturbed /\ Arrives(EditFlaw(n)) /\ LoopFree
      /\ UNCHANGED <<choice, ends, marker, dst>>
  BY DEF Delete, exitVars, Arrives
<1>2. EditFlaw(n) \in SUBSET {"edit", "overlap", "kill"}
  BY DEF EditFlaw
<1>3. Typed'
  BY <1>1, <1>2, FlawsTyped, DisturbJob DEF LibInv, Typed
<1>4. Jobbed'
  BY <1>1, DisturbedJobs DEF LibInv, Jobbed
<1>5. Whole'
  <2>1. \A x \in Workers : job'[x].at # "write"
    BY <1>1, DisturbJob DEF LibInv, Typed, LoopFree
  <2>2. \A m \in Names : files[m] # None
    BY <1>1 DEF LibInv, Whole, LoopFree
  <2>3. \A m \in Names : files'[m] # None
    BY <1>1, <2>2, ContentAssumption DEF LibInv, Typed
  <2> QED
    BY <2>1, <2>3 DEF Whole
<1>6. Switching' = Switching
      /\ \A x \in Switching : /\ job'[x].at = job[x].at /\ job'[x].name = job[x].name
                              /\ ~job'[x].alone
  <2>1. \A x \in Workers : \/ job'[x] = Disturbed[x]
                           \/ job[x] = Idle /\ job'[x].at \in {"write", "select"}
    BY <1>1
  <2> QED
    BY <2>1, DisturbedSwitches DEF LibInv
<1>7. upset \subseteq upset' /\ ("overlap" \in upset' => "overlap" \in upset)
  BY <1>1 DEF Arrives, EditFlaw
<1>8. \A m \in Names :
        "edit" \notin upset' /\ (m = marker \/ \E x \in Switching : job[x].name = m)
          => files'[m] = files[m]
  BY <1>1, <1>3, EditsApart DEF LibInv, Typed
<1> QED
  BY <1>1, <1>3, <1>4, <1>5, <1>6, <1>7, <1>8, BesideKeeps DEF LibInv

LEMMA WriteKeeps == ASSUME LibInv, NEW w \in Workers, Write(w) PROVE LibInv'
<1>1. /\ job[w].at = "write" /\ job[w].name \in Names /\ job[w].content \in Contents
      /\ files' = [files EXCEPT ![job[w].name] = job[w].content]
      /\ UNCHANGED <<choice, ends, marker, dst, upset, requests, kills>> /\ Fail(w)
  BY DEF LibInv, Jobbed, Write, exitVars, Fail
<1>2. /\ job' \in [Workers -> Jobs] /\ job'[w] = Idle
      /\ \A x \in Workers \ {w} : job'[x] = job[x]
  BY <1>1, FailJob DEF LibInv, Typed
<1>3. Typed'
  BY <1>1, <1>2 DEF LibInv, Typed
<1>4. Jobbed'
  <2> SUFFICES ASSUME NEW x \in Workers
               PROVE  /\ job'[x].at = "idle" => job'[x] = Idle
                      /\ job'[x].at \notin {"idle", "select"} => job'[x].name \in Names
                      /\ job'[x].at = "write" => job'[x].content \in Contents
                      /\ job'[x].at \in {"truncate", "mark", "start", "finish"} => dst' # Absent
    BY DEF Jobbed
  <2>1. CASE x = w
    BY <1>2, <2>1 DEF Idle
  <2>2. CASE x # w
    BY <1>1, <1>2, <2>2 DEF LibInv, Jobbed
  <2> QED
    BY <2>1, <2>2
<1>5. files[job[w].name] = None /\ \A x \in Workers \ {w} : job[x].at # "write"
  BY <1>1 DEF LibInv, Whole
<1>6. None \notin Contents
  BY ContentAssumption, AddressAssumption
<1>7. Whole'
  <2>1. \A x \in Workers : job'[x].at # "write"
    BY <1>2, <1>5 DEF Idle
  <2>2. \A n \in Names : files'[n] # None
    <3> SUFFICES ASSUME NEW n \in Names, files'[n] = None PROVE FALSE
      OBVIOUS
    <3>1. n # job[w].name /\ files[n] = None
      BY <1>1, <1>6 DEF LibInv, Typed
    <3>2. PICK x \in Workers : job[x].at = "write" /\ job[x].name = n
      BY <3>1 DEF LibInv, Whole
    <3> QED
      BY <1>5, <3>1, <3>2
  <2> QED
    BY <2>1, <2>2 DEF Whole
<1>8. Switching' = Switching
  BY <1>1, <1>2 DEF Switching, Idle
<1>9. \A x \in Switching : /\ job'[x].at = job[x].at /\ job'[x].name = job[x].name
                           /\ ~job'[x].alone
  <2>1. w \notin Switching
    BY <1>1 DEF Switching
  <2>2. \A x \in Switching : ~job[x].alone
    BY <1>1, <2>1, NobodyAlone DEF LibInv, Safe
  <2> QED
    BY <1>2, <2>1, <2>2 DEF Switching
<1>10. \A n \in Names :
         "edit" \notin upset' /\ (n = marker \/ \E x \in Switching : job[x].name = n)
           => files'[n] = files[n]
  <2> SUFFICES ASSUME "edit" \notin upset,
                      job[w].name = marker \/ \E x \in Switching : job[x].name = job[w].name
               PROVE  FALSE
    BY <1>1 DEF LibInv, Typed
  <2>1. files[job[w].name] \in Contents
    BY <1>1, ContentAssumption DEF LibInv, Safe, Sound, ActiveThere
  <2> QED
    BY <1>5, <1>6, <2>1
<1> QED
  BY <1>1, <1>3, <1>4, <1>7, <1>8, <1>9, <1>10, BesideKeeps DEF LibInv

\* A switch begins with a config that is there and whole.
LEMMA ActivateKeeps ==
  ASSUME LibInv, NEW w \in Workers, NEW n \in Names, Activate(w, n) PROVE LibInv'
<1> DEFINE Flaws == IF Switching = {} THEN {} ELSE {"overlap"}
<1>1. /\ files[n] # Absent
      /\ Take(w, "check", n, None) /\ Arrives(Flaws) /\ LoopFree
      /\ UNCHANGED <<choice, ends, files, marker, dst>>
  BY DEF Activate, exitVars, library, Arrives
<1>2. /\ job' \in [Workers -> Jobs] /\ job[w] = Idle
      /\ job'[w].at = "check" /\ job'[w].name = n
      /\ job'[w].alone => \A x \in Workers : job[x] = Idle
      /\ \A x \in Workers \ {w} : job'[x] = Disturbed[x]
  BY <1>1, TakeJob DEF LibInv, Typed, Commands
<1>3. Typed'
  BY <1>1, <1>2, FlawsTyped DEF LibInv, Typed
<1>4. Jobbed'
  <2> SUFFICES ASSUME NEW x \in Workers
               PROVE  /\ job'[x].at = "idle" => job'[x] = Idle
                      /\ job'[x].at \notin {"idle", "select"} => job'[x].name \in Names
                      /\ job'[x].at = "write" => job'[x].content \in Contents
                      /\ job'[x].at \in {"truncate", "mark", "start", "finish"} => dst' # Absent
    BY DEF Jobbed
  <2>1. CASE x = w
    BY <1>2, <2>1
  <2>2. CASE x # w
    BY <1>1, <1>2, <2>2, DisturbedJobs DEF LibInv
  <2> QED
    BY <2>1, <2>2
<1>5. \A x \in Workers \ {w} : /\ job'[x].at = job[x].at /\ job'[x].name = job[x].name
                               /\ ~job'[x].alone
  BY <1>2, DisturbJob DEF LibInv, Typed
<1>6. Whole'
  <2>1. \A x \in Workers : job'[x].at # "write"
    BY <1>1, <1>2, <1>5 DEF LoopFree
  <2>2. \A m \in Names : files[m] # None
    BY <1>1 DEF LibInv, Whole, LoopFree
  <2> QED
    BY <1>1, <2>1, <2>2 DEF Whole
<1>7. files[n] \in Contents
  BY <1>1 DEF LibInv, Typed, Whole, LoopFree
<1>8. Switching' = Switching \cup {w}
  BY <1>2, <1>5, ContentAssumption DEF Switching
<1>9. Safe'
  <2>1. Sound'
    <3> SUFFICES ASSUME "edit" \notin upset', NEW x \in Switching \cup {w}
                 PROVE  files[job'[x].name] \in Contents
      BY <1>1, <1>8 DEF Sound
    <3>1. "edit" \notin upset
      BY <1>1 DEF Arrives
    <3>2. CASE x = w
      BY <1>2, <1>7, <3>2
    <3>3. CASE x # w
      BY <1>5, <3>1, <3>3 DEF LibInv, Safe, Sound, Switching
    <3> QED
      BY <3>2, <3>3
  <2>2. ActiveThere'
    BY <1>1 DEF LibInv, Safe, ActiveThere, Arrives
  <2>3. "overlap" \notin upset' => Switching = {}
    BY <1>1 DEF Arrives
  <2>4. Single'
    BY <1>8, <2>3 DEF Single
  <2>5. Installing'
    <3> SUFFICES ASSUME upset' = {} PROVE InstalledBy(w)'
      BY <1>8, <2>3 DEF Installing
    <3>1. upset = {} /\ Switching = {}
      BY <1>1, <2>3 DEF Arrives
    <3>2. marker # Absent => dst = files[marker]
      BY <3>1 DEF LibInv, Safe, ActiveIsInstalled
    <3> QED
      BY <1>1, <1>2, <3>2 DEF InstalledBy
  <2>6. ActiveIsInstalled'
    BY <1>8 DEF ActiveIsInstalled
  <2>7. Undisturbed'
    <3> SUFFICES ASSUME job'[w].alone PROVE DoneBy(w)'
      BY <1>5, <1>8 DEF Undisturbed, Switching
    <3>1. \A x \in Workers \ {w} : job'[x] = Idle
      BY <1>2, DisturbJob DEF LibInv, Typed
    <3> QED
      BY <1>1, <1>2, <1>7, <3>1 DEF DoneBy
  <2> QED
    BY <2>1, <2>2, <2>4, <2>5, <2>6, <2>7 DEF Safe
<1> QED
  BY <1>3, <1>4, <1>6, <1>9 DEF LibInv

\* The tunnels move; the library is not touched.
LEMMA SelectEnds ==
  ASSUME Typed, NEW t \in Tunnels \cup {"none"},
         t = "amnezia" /\ ends["amnezia"] = Down => dst # Absent,
         ends' = [amnezia |-> IF t # "amnezia" THEN Down
                              ELSE IF ends["amnezia"] = Down THEN dst ELSE ends["amnezia"],
                  xray    |-> IF t = "xray" THEN XrayExit ELSE Down]
  PROVE  ends' \in [Tunnels -> Addresses \cup {None, Down}]
<1>1. t = "amnezia" /\ ends["amnezia"] = Down => dst \in Addresses \cup {None, Down}
  BY ContentAssumption DEF Typed
<1>2. XrayExit \in Addresses
  BY ContentAssumption
<1>3. ends["amnezia"] \in Addresses \cup {None, Down}
  BY DEF Typed, Tunnels
<1> QED
  BY <1>1, <1>2, <1>3 DEF Tunnels

LEMMA SelectKeeps ==
  ASSUME LibInv, NEW w \in Workers, NEW t \in Tunnels \cup {"none"}, Select(w, t) PROVE LibInv'
<1>1. /\ Take(w, "select", Absent, None) /\ Arrives({}) /\ LoopFree
      /\ choice' = t /\ UNCHANGED <<files, marker, dst>>
      /\ ends' \in [Tunnels -> Addresses \cup {None, Down}]
  BY SelectEnds DEF LibInv, Select, Arrives, library
<1>2. /\ job' \in [Workers -> Jobs] /\ job[w] = Idle /\ job'[w].at = "select"
      /\ \A x \in Workers \ {w} : job'[x] = Disturbed[x]
  BY <1>1, TakeJob DEF LibInv, Typed, Commands
<1>3. Typed'
  BY <1>1, <1>2, FlawsTyped DEF LibInv, Typed
<1>4. Jobbed'
  <2> SUFFICES ASSUME NEW x \in Workers
               PROVE  /\ job'[x].at = "idle" => job'[x] = Idle
                      /\ job'[x].at \notin {"idle", "select"} => job'[x].name \in Names
                      /\ job'[x].at = "write" => job'[x].content \in Contents
                      /\ job'[x].at \in {"truncate", "mark", "start", "finish"} => dst' # Absent
    BY DEF Jobbed
  <2>1. CASE x = w
    BY <1>2, <2>1
  <2>2. CASE x # w
    BY <1>1, <1>2, <2>2, DisturbedJobs DEF LibInv
  <2> QED
    BY <2>1, <2>2
<1>5. Whole'
  <2>1. \A x \in Workers : job'[x].at # "write"
    BY <1>1, <1>2, DisturbJob DEF LibInv, Typed, LoopFree
  <2>2. \A m \in Names : files[m] # None
    BY <1>1 DEF LibInv, Whole, LoopFree
  <2> QED
    BY <1>1, <2>1, <2>2 DEF Whole
<1>6. Switching' = Switching
      /\ \A x \in Switching : /\ job'[x].at = job[x].at /\ job'[x].name = job[x].name
                              /\ ~job'[x].alone
  <2>1. \A x \in Workers : \/ job'[x] = Disturbed[x]
                           \/ job[x] = Idle /\ job'[x].at \in {"write", "select"}
    BY <1>2
  <2> QED
    BY <2>1, DisturbedSwitches DEF LibInv
<1>7. upset' = upset
  BY <1>1 DEF Arrives
<1> QED
  BY <1>1, <1>3, <1>4, <1>5, <1>6, <1>7, BesideKeeps DEF LibInv

LEMMA RestartKeeps ==
  ASSUME LibInv, NEW success \in BOOLEAN, Restart(success) PROVE LibInv'
<1>1. /\ job' = Disturbed /\ Arrives({}) /\ LoopFree
      /\ UNCHANGED <<choice, files, marker, dst>>
      /\ dst # Absent /\ Tunnel("amnezia", IF success THEN dst ELSE Down)
  BY DEF Restart, Arrives, library
<1>2. dst \in Addresses \cup {None}
  BY <1>1, ContentAssumption DEF LibInv, Typed
<1>3. ends' \in [Tunnels -> Addresses \cup {None, Down}]
  BY <1>1, <1>2, StartEnds DEF LibInv
<1>4. Typed'
  BY <1>1, <1>3, FlawsTyped, DisturbJob DEF LibInv, Typed
<1>5. Jobbed'
  BY <1>1, DisturbedJobs DEF LibInv, Jobbed
<1>6. Whole'
  <2>1. \A x \in Workers : job'[x].at # "write"
    BY <1>1, DisturbJob DEF LibInv, Typed, LoopFree
  <2>2. \A m \in Names : files[m] # None
    BY <1>1 DEF LibInv, Whole, LoopFree
  <2> QED
    BY <1>1, <2>1, <2>2 DEF Whole
<1>7. Switching' = Switching
      /\ \A x \in Switching : /\ job'[x].at = job[x].at /\ job'[x].name = job[x].name
                              /\ ~job'[x].alone
  <2>1. \A x \in Workers : \/ job'[x] = Disturbed[x]
                           \/ job[x] = Idle /\ job'[x].at \in {"write", "select"}
    BY <1>1
  <2> QED
    BY <2>1, DisturbedSwitches DEF LibInv
<1>8. upset' = upset
  BY <1>1 DEF Arrives
<1> QED
  BY <1>1, <1>4, <1>5, <1>6, <1>7, <1>8, BesideKeeps DEF LibInv

LEMMA SelectedKeeps == ASSUME LibInv, NEW w \in Workers, Selected(w) PROVE LibInv'
<1>1. /\ job[w].at = "select" /\ Fail(w)
      /\ UNCHANGED <<choice, ends, library, upset, requests, kills>>
  BY DEF Selected, env
<1>2. Typed' /\ Jobbed' /\ Whole'
  BY <1>1, FailKeeps DEF LibInv, Typed
<1>3. job'[w] = Idle /\ \A x \in Workers \ {w} : job'[x] = job[x]
  BY <1>1, FailJob DEF LibInv, Typed
<1>4. Switching' = Switching
  BY <1>1, <1>3 DEF Switching, Idle
<1>5. \A x \in Switching : /\ job'[x].at = job[x].at /\ job'[x].name = job[x].name
                           /\ ~job'[x].alone
  <2>1. w \notin Switching
    BY <1>1 DEF Switching
  <2>2. \A x \in Switching : ~job[x].alone
    BY <1>1, <2>1, NobodyAlone DEF LibInv, Safe
  <2> QED
    BY <1>3, <2>1, <2>2 DEF Switching
<1>6. UNCHANGED <<files, marker, dst>>
  BY <1>1 DEF library
<1> QED
  BY <1>1, <1>2, <1>4, <1>5, <1>6, BesideKeeps DEF LibInv

---------------------------------------------------------------------------
(* Init, Next and the theorems.                                            *)

IInv == ExitInv /\ LibInv

LEMMA InitHolds == Init => IInv
<1> SUFFICES ASSUME Init PROVE IInv
  OBVIOUS
<1>1. \A w \in Workers : job[w] = Idle /\ job[w].at = "idle"
  BY DEF Init, Idle
<1>2. Switching = {}
  BY <1>1 DEF Switching
<1>3. Typed
  <2>1. ends \in [Tunnels -> Addresses \cup {None, Down}] /\ choice \in Tunnels \cup {"none"}
    BY DEF Init, ExitInit
  <2>2. /\ files \in [Names -> Contents \cup {None, Absent}]
        /\ marker \in Names \cup {Absent} /\ dst \in Contents \cup {None, Absent}
    BY DEF Init
  <2>3. job \in [Workers -> Jobs]
    BY IdleJob DEF Init
  <2>4. upset = {} /\ requests \in 0..MaxRequests /\ kills \in 0..MaxKills
    BY BoundAssumption DEF Init
  <2> QED
    BY <2>1, <2>2, <2>3, <2>4 DEF Typed
<1>4. Jobbed
  BY <1>1 DEF Jobbed
<1>5. Whole
  BY <1>1, ContentAssumption, AddressAssumption DEF Init, Whole
<1>6. Safe
  BY <1>2 DEF Init, Safe, Sound, ActiveThere, Single, Installing, ActiveIsInstalled, Undisturbed
<1> QED
  BY <1>3, <1>4, <1>5, <1>6, ExitInitHolds DEF Init, IInv, LibInv

\* Who does not touch the library or the tunnels keeps what holds of them.
LEMMA LibUnchanged ==
  ASSUME LibInv, UNCHANGED <<env, library, job, upset, requests, kills>> PROVE LibInv'
<1>1. UNCHANGED <<choice, ends, files, marker, dst, job, upset, requests, kills>>
  BY DEF env, library
<1>2. Switching' = Switching
  BY <1>1 DEF Switching
<1>3. Typed' /\ Jobbed' /\ Whole'
  BY <1>1 DEF LibInv, Typed, Jobbed, Whole
<1>4. Sound' /\ ActiveThere' /\ Single' /\ ActiveIsInstalled'
  BY <1>1, <1>2 DEF LibInv, Safe, Sound, ActiveThere, Single, ActiveIsInstalled
<1>5. Installing'
  BY <1>1, <1>2 DEF LibInv, Safe, Installing, InstalledBy
<1>6. Undisturbed'
  BY <1>1, <1>2 DEF LibInv, Safe, Undisturbed, DoneBy
<1> QED
  BY <1>3, <1>4, <1>5, <1>6 DEF LibInv, Safe

\* The library and the tunnels never reach into a lookup; the cache they leave
\* or empty.
LEMMA HandlersMove ==
  ASSUME NEW w \in Workers, Script(w) \/ Finish(w) \/ Kill(w) \/ Write(w) \/ Selected(w)
  PROVE  UNCHANGED look /\ (Invalidate \/ UNCHANGED cache)
BY DEF Script, Finish, Kill, Write, Selected, Check, Record, Stop, Install, Truncate, Mark, Start,
       Quiet, exitVars

LEMMA RequestsMove ==
  ASSUME \/ \E w \in Workers, n \in Names, c \in Contents, overwrite \in BOOLEAN :
              Upload(w, n, c, overwrite)
         \/ \E n \in Names : Delete(n)
         \/ \E w \in Workers, n \in Names : Activate(w, n)
         \/ \E w \in Workers, t \in Tunnels \cup {"none"} : Select(w, t)
         \/ \E success \in BOOLEAN : Restart(success)
  PROVE  UNCHANGED <<look, cache>>
BY DEF Upload, Delete, Activate, Select, Restart, exitVars

LEMMA StepMoves ==
  ASSUME (\E w \in Workers : Script(w)) \/ Handlers
  PROVE  UNCHANGED look /\ (Invalidate \/ UNCHANGED cache)
BY HandlersMove, RequestsMove DEF Handlers

LEMMA ScriptKeeps == ASSUME LibInv, NEW w \in Workers, Script(w) PROVE LibInv'
BY CheckKeeps, RecordKeeps, StopKeeps, InstallKeeps, TruncateKeeps, MarkKeeps, StartKeeps DEF Script

LEMMA HandlersKeep == ASSUME LibInv, Handlers PROVE LibInv'
BY UploadKeeps, DeleteKeeps, ActivateKeeps, SelectKeeps, RestartKeeps, WriteKeeps, FinishKeeps,
   SelectedKeeps, KillKeeps DEF Handlers

LEMMA StepKeeps == ASSUME IInv, [Next]_vars PROVE IInv'
<1>1. CASE (\E w \in Workers : Script(w)) \/ Handlers
  <2>1. ExitInv'
    BY <1>1, StepMoves, MoveKeeps DEF IInv
  <2>2. LibInv'
    BY <1>1, ScriptKeeps, HandlersKeep DEF IInv
  <2> QED
    BY <2>1, <2>2 DEF IInv
<1>2. CASE (Lookup \/ Tick) /\ UNCHANGED <<library, job, upset, requests, kills>>
  <2>1. ExitInv'
    BY <1>2, LookupKeeps, TickKeeps DEF IInv
  <2>2. UNCHANGED env
    BY <1>2 DEF Lookup, Tick, Ask, SayDown, SayCached, Begin, Store, Probe
  <2>3. LibInv'
    BY <1>2, <2>2, LibUnchanged DEF IInv
  <2> QED
    BY <2>1, <2>3 DEF IInv
<1>3. CASE UNCHANGED vars
  <2>1. ExitInv'
    BY <1>3, MoveKeeps DEF IInv, vars, exitVars
  <2>2. LibInv'
    BY <1>3, LibUnchanged DEF IInv, vars, exitVars, env
  <2> QED
    BY <2>1, <2>2 DEF IInv
<1> QED
  BY <1>1, <1>2, <1>3 DEF Next

THEOREM Invariance == Spec => []IInv
BY InitHolds, StepKeeps, PTL DEF Spec

(* Files, marker, installed copy, jobs, tunnels and lookups stay what the   *)
(* code takes them for (vpn.py:495-700, vpngw-switch-vpn.sh).               *)
THEOREM LibraryTyped == Spec => []TypeOK
<1>1. IInv => TypeOK
  BY DEF IInv, ExitInv, LibInv, Typed, TypeOK
<1> QED
  BY <1>1, Invariance, PTL

(* The file that .active names is there and whole, however switches overlap *)
(* and wherever they are killed, unless the config of a switch in flight    *)
(* was uploaded or deleted (vpn.py:639-674, vpngw-switch-vpn.sh).           *)
THEOREM ActiveStays == Spec => []ActiveThere
<1>1. IInv => ActiveThere
  BY DEF IInv, LibInv, Safe
<1> QED
  BY <1>1, Invariance, PTL

(* Unless switches overlapped, were killed or had their config edited, the  *)
(* config listed as active is the one installed.                            *)
THEOREM ActiveInstalled == Spec => []ActiveIsInstalled
<1>1. IInv => ActiveIsInstalled
  BY DEF IInv, LibInv, Safe
<1> QED
  BY <1>1, Invariance, PTL

\* A switch that has come to its end leaves it only by ending or being killed.
LEMMA OnlyFinish ==
  ASSUME LibInv, Next, NEW w \in Workers, job[w].at = "finish", job'[w] = Idle, kills' = kills
  PROVE  Finish(w)
<1>1. job[w] # Idle /\ job \in [Workers -> Jobs]
  BY DEF LibInv, Typed, Idle
<1>2. Disturbed[w].at = "finish" /\ Disturbed[w] # Idle
  BY <1>1, DisturbJob DEF Idle
<1>3. ASSUME NEW x \in Workers, Script(x) PROVE FALSE
  <2>1. x # w
    BY <1>3 DEF Script, Check, Record, Stop, Install, Truncate, Mark, Start
  <2>2. Fail(x) \/ \E at \in Commands : Goto(x, at)
    BY <1>3 DEF Script, Check, Record, Stop, Install, Truncate, Mark, Start, Commands
  <2>3. job'[w] = job[w]
    BY <1>1, <2>1, <2>2, FailJob, GotoJob
  <2> QED
    BY <1>1, <2>3
<1>4. ASSUME NEW x \in Workers, Write(x) \/ Finish(x) \/ Selected(x) \/ Kill(x) PROVE Finish(w)
  <2>1. Fail(x)
    BY <1>4 DEF Write, Finish, Selected, Kill, Fail
  <2>2. x = w
    BY <1>1, <2>1, FailJob
  <2>3. ~Kill(w)
    <3>1. kills \in Nat
      BY BoundAssumption DEF LibInv, Typed
    <3> QED
      BY <3>1 DEF Kill
  <2> QED
    BY <1>4, <2>2, <2>3 DEF Write, Selected
<1>5. ASSUME NEW x \in Workers, NEW at, NEW name, NEW content, Take(x, at, name, content) PROVE FALSE
  <2>1. x # w
    BY <1>1, <1>5 DEF Take
  <2>2. job'[w] = Disturbed[w]
    BY <1>1, <1>5, <2>1, DisturbJob DEF Take
  <2> QED
    BY <1>2, <2>2
<1>6. job' # Disturbed
  BY <1>2
<1>7. (Lookup \/ Tick) /\ UNCHANGED <<library, job, upset, requests, kills>> => FALSE
  BY <1>1
<1> QED
  BY <1>3, <1>4, <1>5, <1>6, <1>7 DEF Next, Handlers, Upload, Delete, Activate, Select, Restart

(* A switch that reports success and that no other request overlapped has   *)
(* done all of it (vpngw-switch-vpn.sh, vpn.py:531-556).                     *)
THEOREM SwitchesTake == Spec => SwitchTakes
<1>1. ASSUME IInv, [Next]_vars, NEW w \in Workers,
             job[w].at = "finish", job[w].alone, job'[w] = Idle, kills' = kills
      PROVE  /\ marker = job[w].name
             /\ dst = files[marker]
             /\ choice = "amnezia" /\ ends = [amnezia |-> dst, xray |-> Down]
             /\ cache' = Empty
  <2>1. Next
    BY <1>1 DEF vars, Idle
  <2>2. cache' = Empty
    BY <1>1, <2>1, OnlyFinish DEF IInv, Finish, Invalidate
  <2>3. DoneBy(w)
    BY <1>1, AtScript DEF IInv, LibInv, Safe, Undisturbed, ScriptAt
  <2> QED
    BY <1>1, <2>2, <2>3 DEF DoneBy
<1>2. IInv /\ [Next]_vars =>
        [\A w \in Workers :
           job[w].at = "finish" /\ job[w].alone /\ job'[w] = Idle /\ kills' = kills =>
             /\ marker = job[w].name
             /\ dst = files[marker]
             /\ choice = "amnezia" /\ ends = [amnezia |-> dst, xray |-> Down]
             /\ cache' = Empty]_vars
  BY <1>1
<1> QED
  BY <1>2, Invariance, PTL DEF Spec, SwitchTakes

(* The library and its switches are one of the ways the tunnels may move    *)
(* while lookups run: what ExitAddress promises of the cache holds of them. *)
THEOREM LibraryMovesTunnels == Spec => ExitSpec
<1>1. Init => ExitInit
  BY DEF Init
<1>2. ASSUME IInv', [Next]_vars PROVE [Lookup \/ Tick \/ Move]_exitVars
  <2>1. CASE (\E w \in Workers : Script(w)) \/ Handlers
    <3>1. choice' \in Tunnels \cup {"none"} /\ ends' \in [Tunnels -> Addresses \cup {None, Down}]
      BY <1>2 DEF IInv, LibInv, Typed
    <3> QED
      BY <2>1, <3>1, StepMoves DEF Move
  <2>2. CASE (Lookup \/ Tick) /\ UNCHANGED <<library, job, upset, requests, kills>>
    BY <2>2
  <2>3. CASE UNCHANGED vars
    BY <2>3 DEF vars
  <2> QED
    BY <1>2, <2>1, <2>2, <2>3 DEF Next
<1> QED
  BY <1>1, <1>2, Invariance, PTL DEF Spec, ExitSpec

(* So no address stays in the cache past its time to live whatever switches *)
(* and edits of the library do.                                             *)
THEOREM LibraryServedRecent == Spec => []ServedRecent
BY LibraryMovesTunnels, ExitServedRecent, PTL

---------------------------------------------------------------------------
(* Texts of any length (AwgText), and any reader of their lines.  The loop *)
(* of an adaptation is followed line by line, as Loops_proof has it.  A    *)
(* text is read back as it was written because what the loop writes takes  *)
(* it to where it was; and awg-quick, which reads the [Interface], stays   *)
(* in step with the loop that writes it.                                   *)

\* The hooks, as a set.
H == Range(Hooks)

\* The forms of a key that only one of the two reads as the key.
LEMMA FormsAre ==
  /\ Range(OtherCase) = {"table", "postup", "postdown", "dns"}
  /\ Range(Longer) = {"Table+", "PostUp+", "PostDown+", "DNS+"}
<1>1. 1..4 = {1, 2, 3, 4}
  OBVIOUS
<1>2. Range(OtherCase) = {"table", "postup", "postdown", "dns"}
  <2>1. OtherCase \in Seq({"table", "postup", "postdown", "dns"}) /\ Len(OtherCase) = 4
        /\ OtherCase[1] = "table" /\ OtherCase[2] = "postup" /\ OtherCase[3] = "postdown"
        /\ OtherCase[4] = "dns"
    BY DEF OtherCase
  <2>2. Range(OtherCase) = {OtherCase[i] : i \in 1..4}
    BY <2>1, RangeEquality
  <2> QED BY <1>1, <2>1, <2>2
<1>3. Range(Longer) = {"Table+", "PostUp+", "PostDown+", "DNS+"}
  <2>1. Longer \in Seq({"Table+", "PostUp+", "PostDown+", "DNS+"}) /\ Len(Longer) = 4
        /\ Longer[1] = "Table+" /\ Longer[2] = "PostUp+" /\ Longer[3] = "PostDown+"
        /\ Longer[4] = "DNS+"
    BY DEF Longer
  <2>2. Range(Longer) = {Longer[i] : i \in 1..4}
    BY <2>1, RangeEquality
  <2> QED BY <1>1, <2>1, <2>2
<1> QED BY <1>2, <1>3

LEMMA HookSet ==
  /\ H = {"Table", "PostUp", "PostDown"} /\ H \subseteq Kinds
  /\ H \cap (Headers \cup Dropped \cup {"key", "blank", "# Generated on"}) = {}
  /\ H \cap (Range(OtherCase) \cup Range(Longer)) = {}
<1>1. H = {"Table", "PostUp", "PostDown"}
  <2>1. Hooks \in Seq({"Table", "PostUp", "PostDown"}) /\ Len(Hooks) = 3
        /\ Hooks[1] = "Table" /\ Hooks[2] = "PostUp" /\ Hooks[3] = "PostDown"
    BY DEF Hooks
  <2>2. Range(Hooks) = {Hooks[i] : i \in 1..3}
    BY <2>1, RangeEquality
  <2>3. 1..3 = {1, 2, 3}
    OBVIOUS
  <2> QED BY <2>1, <2>2, <2>3 DEF H
<1>2. H \subseteq Kinds
  BY DEF Kinds, H
<1> QED BY <1>1, <1>2, FormsAre DEF Headers, Dropped

LEMMA HeaderSet ==
  /\ Headers \subseteq Kinds /\ Dropped \subseteq Kinds /\ "blank" \in Kinds /\ "[Interface]" \in Headers
  /\ Headers \cap Dropped = {} /\ "blank" \notin Headers \cup Dropped \cup {"key"}
  /\ "key" \in Kinds /\ "none" \notin Headers
BY DEF Kinds, Headers, Dropped

\* What holds of the upload and of the script holds of any way to read lines
\* that takes headers, hooks and blank lines for what they are.
Reader(reads) == \A line \in Headers \cup H \cup {"blank"} : reads[line] = line

LEMMA BothRead == Reader(UploadReads) /\ Reader(ScriptReads)
<1> DEFINE plain == Headers \cup H \cup {"blank"}
           forms == Range(OtherCase) \cup Range(Longer)
<1>1. plain \subseteq Kinds /\ plain \cap Range(OtherCase) = {} /\ plain \cap Range(Longer) = {}
  <2>1. Headers \cap forms = {} /\ "blank" \notin forms
    BY FormsAre DEF Headers
  <2> QED BY <2>1, HookSet, HeaderSet
<1> HIDE DEF plain
<1>2. ASSUME NEW line \in plain PROVE UploadReads[line] = line
  BY <1>1, Zenon DEF UploadReads
<1>3. ASSUME NEW line \in plain PROVE ScriptReads[line] = line
  BY <1>1, Zenon DEF ScriptReads
<1> QED BY <1>2, <1>3 DEF Reader, plain

LEMMA HooksCount ==
  /\ Hooks \in Seq(Kinds)
  /\ \A h \in H : Count(Kinds, Hooks, h) = 1
<1> DEFINE a == Append(<<>>, "Table")
           b == Append(a, "PostUp")
<1>1. "Table" \in Kinds /\ "PostUp" \in Kinds /\ "PostDown" \in Kinds
  BY HookSet
<1>2. <<>> \in Seq(Kinds) /\ a \in Seq(Kinds) /\ b \in Seq(Kinds)
  BY <1>1, EmptySeq, AppendProperties
<1>3. Hooks = Append(b, "PostDown")
  BY DEF Hooks
<1> HIDE DEF a, b
<1>4. ASSUME NEW h \in H PROVE Count(Kinds, Hooks, h) = 1
  <2>1. Count(Kinds, a, h) = IF "Table" = h THEN Count(Kinds, <<>>, h) + 1 ELSE Count(Kinds, <<>>, h)
    BY <1>1, <1>2, CountTurn DEF a
  <2>2. Count(Kinds, b, h) = IF "PostUp" = h THEN Count(Kinds, a, h) + 1 ELSE Count(Kinds, a, h)
    BY <1>1, <1>2, CountTurn DEF b
  <2>3. Count(Kinds, Hooks, h) = IF "PostDown" = h THEN Count(Kinds, b, h) + 1 ELSE Count(Kinds, b, h)
    BY <1>1, <1>2, <1>3, CountTurn
  <2>4. Count(Kinds, <<>>, h) = 0
    BY OnlyStart DEF Count
  <2>5. 0 + 1 = 1
    OBVIOUS
  <2>6. CASE h = "Table"
    BY <2>1, <2>2, <2>3, <2>4, <2>5, <2>6
  <2>7. CASE h = "PostUp"
    BY <2>1, <2>2, <2>3, <2>4, <2>5, <2>7
  <2>8. CASE h = "PostDown"
    BY <2>1, <2>2, <2>3, <2>4, <2>5, <2>8
  <2> QED BY <2>6, <2>7, <2>8, HookSet
<1>5. Hooks \in Seq(Kinds)
  BY <1>1, <1>2, <1>3, AppendProperties
<1> QED BY <1>4, <1>5

LEMMA ExtrasAre ==
  ASSUME NEW has \in SUBSET H
  PROVE  /\ Extras(has) \in Seq(Kinds) /\ Extras(has) \in Seq(H \ has)
         /\ Range(Extras(has)) = H \ has
         /\ \A h \in H : Count(Kinds, Extras(has), h) = IF h \in has THEN 0 ELSE 1
<1> DEFINE kept == H \ has
<1>1. Extras(has) = Only(Kinds, Hooks, kept)
  BY DEF Extras, H
<1>2. Kinds \cap kept = H \ has /\ Range(Hooks) \cap kept = H \ has
  BY HookSet DEF H
<1> HIDE DEF kept
<1>3. Only(Kinds, Hooks, kept) \in Seq(Kinds \cap kept) /\ Only(Kinds, Hooks, kept) \in Seq(Kinds)
      /\ Range(Only(Kinds, Hooks, kept)) = Range(Hooks) \cap kept
  BY HooksCount, OnlyIn, OnlyLines, OnlyRange
<1>4. ASSUME NEW h \in H PROVE Count(Kinds, Extras(has), h) = IF h \in has THEN 0 ELSE 1
  <2>1. Count(Kinds, Extras(has), h) = Len(Only(Kinds, Hooks, kept \cap {h}))
    BY <1>1, HooksCount, OnlyTwice DEF Count
  <2>2. CASE h \in has
    <3>1. h \notin kept
      BY <2>2 DEF kept
    <3>2. kept \cap {h} = {} /\ Kinds \ {} = Kinds
      BY <3>1
    <3>3. Only(Kinds, Hooks, {}) = <<>>
      BY <3>2, HooksCount, OnlyNone
    <3>4. Len(<<>>) = 0
      OBVIOUS
    <3>5. Count(Kinds, Extras(has), h) = 0
      BY <2>1, <3>2, <3>3, <3>4
    <3> QED BY <2>2, <3>5
  <2>3. CASE h \notin has
    <3>1. kept \cap {h} = {h}
      BY <2>3 DEF kept
    <3>2. Len(Only(Kinds, Hooks, {h})) = 1
      BY HooksCount DEF Count
    <3>3. Count(Kinds, Extras(has), h) = 1
      BY <2>1, <3>1, <3>2
    <3> QED BY <2>3, <3>3
  <2> QED BY <2>2, <2>3
<1> QED BY <1>1, <1>2, <1>3, <1>4

LEMMA NoExtras == Extras(H) = <<>>
<1>1. H \ H = {} /\ Kinds \ {} = Kinds
  OBVIOUS
<1>2. Only(Kinds, Hooks, {}) = <<>>
  BY <1>1, HooksCount, OnlyNone
<1> QED BY <1>1, <1>2 DEF Extras, H

---------------------------------------------------------------------------
(* What a line does.                                                       *)

Open(s) == s.section = "[Interface]" /\ ~s.done

Adaptation(out, section, has, done) == [out |-> out, section |-> section, has |-> has, done |-> done]

\* What a close puts after the text so far: the hooks it lacks, and blank lines.
Spaces(out) == IF out # <<>> /\ out[Len(out)] # "blank" THEN <<"blank">> ELSE <<>>

LEMMA SpacedIs ==
  ASSUME NEW out \in Seq(Kinds)
  PROVE  /\ Spaces(out) \in Seq({"blank"}) /\ Spaces(out) \in Seq(Kinds)
         /\ Spaced(out) = out \o Spaces(out) /\ Spaced(out) \in Seq(Kinds)
         /\ Spaced(Spaced(out)) = Spaced(out)
<1>1. "blank" \in Kinds /\ <<>> \in Seq(Kinds) /\ <<>> \in Seq({"blank"})
  BY HeaderSet, EmptySeq
<1>2. CASE out # <<>> /\ out[Len(out)] # "blank"
  <2>1. Spaced(out) = Append(out, "blank") /\ Spaces(out) = <<"blank">>
    BY <1>2 DEF Spaced, Spaces
  <2> DEFINE more == Append(out, "blank")
  <2>2. more \in Seq(Kinds) /\ more[Len(more)] = "blank"
    BY <1>1, AppendProperties
  <2>3. Spaced(more) = more
    <3> HIDE DEF more
    <3> QED BY <2>2 DEF Spaced
  <2>4. <<"blank">> \in Seq({"blank"}) /\ <<"blank">> \in Seq(Kinds)
    BY <1>1
  <2>5. out \o <<"blank">> = more
    BY <1>1, AppendIsConcat
  <2> QED BY <2>1, <2>2, <2>3, <2>4, <2>5
<1>3. CASE ~(out # <<>> /\ out[Len(out)] # "blank")
  <2>1. Spaced(out) = out /\ Spaces(out) = <<>>
    BY <1>3 DEF Spaced, Spaces
  <2>2. out \o <<>> = out
    BY ConcatEmptySeq
  <2> QED BY <1>1, <2>1, <2>2
<1> QED BY <1>2, <1>3

\* One field changed.
PutOut(s, new) == [s EXCEPT !.out = new]
PutSection(s, new) == [s EXCEPT !.section = new]
PutHas(s, new) == [s EXCEPT !.has = new]
PutDone(s, new) == [s EXCEPT !.done = new]

LEMMA OutPut ==
  ASSUME NEW out, NEW section, NEW has, NEW done, NEW new
  PROVE  PutOut(Adaptation(out, section, has, done), new) = Adaptation(new, section, has, done)
BY DEF Adaptation, PutOut

LEMMA SectionPut ==
  ASSUME NEW out, NEW section, NEW has, NEW done, NEW new
  PROVE  PutSection(Adaptation(out, section, has, done), new) = Adaptation(out, new, has, done)
BY DEF Adaptation, PutSection

LEMMA HasPut ==
  ASSUME NEW out, NEW section, NEW has, NEW done, NEW new
  PROVE  PutHas(Adaptation(out, section, has, done), new) = Adaptation(out, section, new, done)
BY DEF Adaptation, PutHas

LEMMA DonePut ==
  ASSUME NEW out, NEW section, NEW has, NEW done, NEW new
  PROVE  PutDone(Adaptation(out, section, has, done), new) = Adaptation(out, section, has, new)
BY DEF Adaptation, PutDone

LEMMA IsAdaptation ==
  ASSUME NEW s \in Adaptations
  PROVE s = Adaptation(s.out, s.section, s.has, s.done)
BY DEF Adaptation, Adaptations

LEMMA InAdaptations ==
  ASSUME NEW out \in Seq(Kinds), NEW section \in Headers \cup {"none"}, NEW has \in SUBSET H, NEW done \in BOOLEAN
  PROVE  Adaptation(out, section, has, done) \in Adaptations
BY DEF Adaptation, Adaptations, H

LEMMA PutsAre ==
  ASSUME NEW s \in Adaptations, NEW a, NEW b
  PROVE  /\ [s EXCEPT !.out = a] = Adaptation(a, s.section, s.has, s.done)
         /\ [s EXCEPT !.out = a, !.has = b] = Adaptation(a, s.section, b, s.done)
         /\ [s EXCEPT !.out = a, !.done = TRUE] = Adaptation(a, s.section, s.has, TRUE)
<1> DEFINE o == s.out
           e == s.section
           h == s.has
           d == s.done
<1>1. s = Adaptation(o, e, h, d)
  BY IsAdaptation
<1> HIDE DEF o, e, h, d
<1>2. PutOut(s, a) = Adaptation(a, e, h, d)
  BY <1>1, OutPut
<1>3. PutHas(PutOut(s, a), b) = Adaptation(a, e, b, d)
  BY <1>2, HasPut
<1>4. PutDone(PutOut(s, a), TRUE) = Adaptation(a, e, h, TRUE)
  <2>1. PICK t \in BOOLEAN : t = TRUE
    OBVIOUS
  <2>2. PutDone(PutOut(s, a), t) = Adaptation(a, e, h, t)
    BY <1>2, DonePut
  <2> QED BY <2>1, <2>2
<1>5. [s EXCEPT !.out = a] = Adaptation(a, e, h, d)
  BY <1>2 DEF PutOut
<1>6. [s EXCEPT !.out = a, !.has = b] = Adaptation(a, e, b, d)
  BY <1>3 DEF PutOut, PutHas
<1>7. [s EXCEPT !.out = a, !.done = TRUE] = Adaptation(a, e, h, TRUE)
  BY <1>4 DEF PutOut, PutDone
<1> QED BY <1>5, <1>6, <1>7 DEF o, e, h, d
LEMMA PutSectionOut ==
  ASSUME NEW s \in Adaptations, NEW section, NEW out
  PROVE  [s EXCEPT !.section = section, !.out = out] = Adaptation(out, section, s.has, s.done)
<1> DEFINE o == s.out
           e == s.section
           h == s.has
           d == s.done
<1>1. s = Adaptation(o, e, h, d)
  BY IsAdaptation
<1> HIDE DEF o, e, h, d
<1>2. PutSection(s, section) = Adaptation(o, section, h, d)
  BY <1>1, SectionPut
<1>3. PutOut(PutSection(s, section), out) = Adaptation(out, section, h, d)
  BY <1>2, OutPut
<1>4. [s EXCEPT !.section = section, !.out = out] = Adaptation(out, section, h, d)
  BY <1>3 DEF PutOut, PutSection
<1> QED BY <1>4 DEF h, d

LEMMA LineIs ==
  ASSUME NEW reads, Reader(reads), NEW line \in Kinds, NEW s \in Adaptations
  PROVE  /\ line \in Headers /\ Open(s) =>
              Line(reads)[line][s] = Adaptation(Append(Spaced(s.out \o Extras(s.has)), line), line, H, TRUE)
         /\ line \in Headers /\ ~Open(s) =>
              Line(reads)[line][s] = Adaptation(Append(s.out, line), line, s.has, s.done)
         /\ line \notin Headers /\ s.section # "[Interface]" =>
              Line(reads)[line][s] = Adaptation(Append(s.out, line), s.section, s.has, s.done)
         /\ line \notin Headers /\ s.section = "[Interface]" /\ reads[line] \in Dropped => Line(reads)[line][s] = s
         /\ line \notin Headers /\ s.section = "[Interface]" /\ reads[line] \notin Dropped =>
              Line(reads)[line][s] = Adaptation(Append(s.out, line), s.section, s.has \cup ({reads[line]} \cap H), s.done)
<1> DEFINE c == CloseSection(s, line)
           more == Append(s.out, line)
           hooks == s.has \cup ({reads[line]} \cap H)
           flushed == s.out \o Extras(s.has)
           spaced == Spaced(flushed)
           ended == Append(spaced, line)
<1>1. Line(reads)[line][s] =
        IF line \in Headers THEN [c EXCEPT !.section = line, !.out = Append(@, line)]
        ELSE IF s.section # "[Interface]" THEN [s EXCEPT !.out = more]
        ELSE IF reads[line] \in Dropped THEN s
        ELSE [s EXCEPT !.out = more, !.has = hooks]
  BY Zenon DEF Line, H
<1>2. CASE line \in Headers /\ Open(s)
  <2> DEFINE f == Flush(s)
  <2>1. c = [f EXCEPT !.out = Spaced(@), !.done = TRUE]
    BY <1>2 DEF CloseSection, Open
  <2>2. f = Adaptation(flushed, s.section, H, s.done)
    <3>1. f = [s EXCEPT !.out = flushed, !.has = H]
      BY DEF Flush, H
    <3> HIDE DEF f, flushed
    <3> QED BY <3>1, PutsAre
  <2>3. flushed \in Seq(Kinds) /\ spaced \in Seq(Kinds) /\ s.section \in Headers \cup {"none"} /\ s.done \in BOOLEAN
    <3>1. s.out \in Seq(Kinds) /\ s.has \in SUBSET H /\ s.section \in Headers \cup {"none"} /\ s.done \in BOOLEAN
      BY DEF Adaptations, H
    <3>2. Extras(s.has) \in Seq(Kinds)
      BY <3>1, ExtrasAre
    <3>3. flushed \in Seq(Kinds)
      BY <3>1, <3>2, ConcatProperties
    <3> HIDE DEF flushed
    <3> QED BY <3>1, <3>3, SpacedIs
  <2>4. f \in Adaptations /\ f.out = flushed /\ f.section = s.section /\ f.has = H
    <3>1. H \in SUBSET H
      OBVIOUS
    <3> HIDE DEF f, flushed, spaced
    <3>2. f \in Adaptations
      BY <2>2, <2>3, <3>1, InAdaptations
    <3> QED BY <2>2, <3>2 DEF Adaptation
  <2> HIDE DEF f, flushed
  <2>5. c = [f EXCEPT !.out = spaced, !.done = TRUE]
    BY <2>1, <2>4
  <2> HIDE DEF c, spaced
  <2>6. c = Adaptation(spaced, s.section, H, TRUE)
    <3>1. [f EXCEPT !.out = spaced, !.done = TRUE] = Adaptation(spaced, f.section, f.has, TRUE)
      BY <2>4, PutsAre
    <3> QED BY <2>4, <2>5, <3>1
  <2>7. c \in Adaptations /\ c.out = spaced /\ c.has = H /\ c.done = TRUE
    <3>1. H \in SUBSET H /\ TRUE \in BOOLEAN
      OBVIOUS
    <3>2. Adaptation(spaced, s.section, H, TRUE) \in Adaptations
      BY <2>3, <3>1, InAdaptations
    <3> QED BY <2>6, <3>2 DEF Adaptation
  <2>8. [c EXCEPT !.section = line, !.out = Append(@, line)] = [c EXCEPT !.section = line, !.out = ended]
    BY <2>7
  <2> HIDE DEF ended
  <2>9. [c EXCEPT !.section = line, !.out = ended] = Adaptation(ended, line, c.has, c.done)
    BY <2>7, PutSectionOut
  <2>10. Line(reads)[line][s] = Adaptation(ended, line, H, TRUE)
    BY <1>1, <1>2, <2>7, <2>8, <2>9
  <2> QED BY <1>2, <2>10 DEF ended, spaced, flushed
<1>3. CASE line \in Headers /\ ~Open(s)
  <2>1. c = s
    BY <1>3 DEF CloseSection, Open
  <2>2. Line(reads)[line][s] = [s EXCEPT !.section = line, !.out = more]
    BY <1>1, <1>3, <2>1
  <2> HIDE DEF more
  <2>3. Line(reads)[line][s] = Adaptation(more, line, s.has, s.done)
    BY <2>2, PutSectionOut
  <2> QED BY <1>3, <2>3 DEF more
<1>4. CASE line \notin Headers /\ s.section # "[Interface]"
  <2>1. Line(reads)[line][s] = [s EXCEPT !.out = more]
    BY <1>1, <1>4
  <2> HIDE DEF more
  <2>2. Line(reads)[line][s] = Adaptation(more, s.section, s.has, s.done)
    BY <2>1, PutsAre
  <2> QED BY <1>4, <2>2 DEF more
<1>5. CASE line \notin Headers /\ s.section = "[Interface]" /\ reads[line] \in Dropped
  BY <1>1, <1>5
<1>6. CASE line \notin Headers /\ s.section = "[Interface]" /\ reads[line] \notin Dropped
  <2>1. Line(reads)[line][s] = [s EXCEPT !.out = more, !.has = hooks]
    BY <1>1, <1>6
  <2> HIDE DEF more, hooks
  <2>2. Line(reads)[line][s] = Adaptation(more, s.section, hooks, s.done)
    BY <2>1, PutsAre
  <2> QED BY <1>6, <2>2 DEF more, hooks
<1> QED BY <1>2, <1>3, <1>4, <1>5, <1>6

\* What a line comes to: it ends the first [Interface], it is kept, or dropped.
Closes(s, new, line) ==
  /\ line \in Headers /\ Open(s)
  /\ new.out = Append(Spaced(s.out \o Extras(s.has)), line)
  /\ new.section = line /\ new.has = H /\ new.done = TRUE

Keeps(reads, s, new, line) ==
  /\ ~(line \in Headers /\ Open(s)) /\ ~(reads[line] \in Dropped /\ s.section = "[Interface]")
  /\ new.out = Append(s.out, line) /\ new.done = s.done
  /\ new.section = IF line \in Headers THEN line ELSE s.section
  /\ new.has = IF line \notin Headers /\ s.section = "[Interface]" THEN s.has \cup ({reads[line]} \cap H) ELSE s.has

Drops(reads, s, new, line) ==
  reads[line] \in Dropped /\ line \notin Headers /\ s.section = "[Interface]" /\ new = s

LEMMA SpacedIn ==
  ASSUME NEW s \in Adaptations
  PROVE  s.out \o Extras(s.has) \in Seq(Kinds) /\ Spaced(s.out \o Extras(s.has)) \in Seq(Kinds)
<1> DEFINE flushed == s.out \o Extras(s.has)
<1>1. s.out \in Seq(Kinds) /\ s.has \in SUBSET H
  BY DEF Adaptations, H
<1>2. Extras(s.has) \in Seq(Kinds)
  BY <1>1, ExtrasAre
<1>3. flushed \in Seq(Kinds)
  BY <1>1, <1>2, ConcatProperties
<1>4. Spaced(flushed) \in Seq(Kinds)
  <2> HIDE DEF flushed
  <2> QED BY <1>3, SpacedIs
<1> QED BY <1>3, <1>4

LEMMA LineDoes ==
  ASSUME NEW reads, Reader(reads), NEW line \in Kinds, NEW s \in Adaptations
  PROVE  /\ Line(reads)[line][s] \in Adaptations
         /\ Closes(s, Line(reads)[line][s], line) \/ Keeps(reads, s, Line(reads)[line][s], line) \/ Drops(reads, s, Line(reads)[line][s], line)
<1> DEFINE new == Line(reads)[line][s]
           more == Append(s.out, line)
           spaced == Spaced(s.out \o Extras(s.has))
           ended == Append(spaced, line)
           hooks == s.has \cup ({reads[line]} \cap H)
<1>1. s.out \in Seq(Kinds) /\ s.section \in Headers \cup {"none"} /\ s.has \in SUBSET H /\ s.done \in BOOLEAN
  BY DEF Adaptations, H
<1>2. more \in Seq(Kinds)
  BY <1>1, AppendProperties
<1>3. ended \in Seq(Kinds)
  <2>1. spaced \in Seq(Kinds)
    BY SpacedIn
  <2> HIDE DEF spaced
  <2> QED BY <2>1, AppendProperties
<1>4. H \in SUBSET H /\ TRUE \in BOOLEAN /\ hooks \in SUBSET H
  BY <1>1
<1>5. line \in Headers => "[Interface]" \in Headers
  BY HeaderSet
<1>6. CASE line \in Headers /\ Open(s)
  <2>1. new = Adaptation(ended, line, H, TRUE)
    BY <1>6, LineIs
  <2> HIDE DEF ended, new
  <2>2. new \in Adaptations
    BY <1>3, <1>4, <1>6, <2>1, InAdaptations
  <2>3. new.out = ended /\ new.section = line /\ new.has = H /\ new.done = TRUE
    BY <2>1, <2>2 DEF Adaptation
  <2> QED BY <1>6, <2>2, <2>3 DEF Closes, ended, new
<1>7. CASE line \in Headers /\ ~Open(s)
  <2>1. new = Adaptation(more, line, s.has, s.done)
    BY <1>7, LineIs
  <2> HIDE DEF more, new
  <2>2. new \in Adaptations
    BY <1>1, <1>2, <1>7, <2>1, InAdaptations
  <2>3. new.out = more /\ new.section = line /\ new.has = s.has /\ new.done = s.done
    BY <2>1, <2>2 DEF Adaptation
  <2>4. reads[line] \notin Dropped
    BY <1>7, HeaderSet DEF Reader
  <2> QED BY <1>7, <2>2, <2>3, <2>4 DEF Keeps, more, new
<1>8. CASE line \notin Headers /\ s.section # "[Interface]"
  <2>1. new = Adaptation(more, s.section, s.has, s.done)
    BY <1>8, LineIs
  <2> HIDE DEF more, new
  <2>2. new \in Adaptations
    BY <1>1, <1>2, <2>1, InAdaptations
  <2>3. new.out = more /\ new.section = s.section /\ new.has = s.has /\ new.done = s.done
    BY <2>1, <2>2 DEF Adaptation
  <2> QED BY <1>8, <2>2, <2>3 DEF Keeps, more, new
<1>9. CASE line \notin Headers /\ s.section = "[Interface]" /\ reads[line] \in Dropped
  BY <1>9, LineIs DEF Drops
<1>10. CASE line \notin Headers /\ s.section = "[Interface]" /\ reads[line] \notin Dropped
  <2>1. new = Adaptation(more, s.section, hooks, s.done)
    BY <1>10, LineIs
  <2> HIDE DEF more, new, hooks
  <2>2. new \in Adaptations
    BY <1>1, <1>2, <1>4, <2>1, InAdaptations
  <2>3. new.out = more /\ new.section = s.section /\ new.has = hooks /\ new.done = s.done
    BY <2>1, <2>2 DEF Adaptation
  <2> QED BY <1>10, <2>2, <2>3 DEF Keeps, more, new, hooks
<1> QED BY <1>6, <1>7, <1>8, <1>9, <1>10

---------------------------------------------------------------------------
(* The loop over a text, and what ends it.                                 *)

Adapting(reads, text) == Loop(Line(reads), Begun, text)

Finished(s) == IF Open(s) THEN s.out \o Extras(s.has) ELSE s.out

LEMMA LineIn == ASSUME NEW reads, Reader(reads) PROVE Line(reads) \in Bodies(Adaptations, Kinds)
<1>1. \A line \in Kinds : \A s \in Adaptations : Line(reads)[line][s] \in Adaptations
  BY LineDoes
<1>2. Line(reads) = [line \in Kinds |-> [s \in Adaptations |-> Line(reads)[line][s]]]
  BY Zenon DEF Line
<1> QED BY <1>1, <1>2 DEF Bodies

LEMMA BegunIn == Begun \in Adaptations
<1>1. <<>> \in Seq(Kinds) /\ {} \in SUBSET H /\ FALSE \in BOOLEAN
  BY EmptySeq
<1>2. Begun = Adaptation(<<>>, "none", {}, FALSE)
  BY DEF Begun, Adaptation
<1> QED BY <1>1, <1>2, InAdaptations

LEMMA AdaptingIs ==
  ASSUME NEW reads, Reader(reads)
  PROVE  /\ Adapting(reads, <<>>) = Begun
         /\ \A text \in Seq(Kinds) :
              /\ Adapting(reads, text) \in Adaptations
              /\ \A line \in Kinds : Adapting(reads, Append(text, line)) = Line(reads)[line][Adapting(reads, text)]
<1>1. Adapting(reads, <<>>) = Begun
  BY LineIn, BegunIn, LoopStart DEF Adapting
<1>2. ASSUME NEW text \in Seq(Kinds) PROVE Adapting(reads, text) \in Adaptations
  BY LineIn, BegunIn, LoopIn DEF Adapting
<1>3. ASSUME NEW text \in Seq(Kinds), NEW line \in Kinds
      PROVE  Adapting(reads, Append(text, line)) = Line(reads)[line][Adapting(reads, text)]
  <2>1. OneMore(Line(reads), Begun, text, line)
    BY LineIn, BegunIn, LoopTurn
  <2> QED BY <2>1 DEF OneMore, Adapting
<1> QED BY <1>1, <1>2, <1>3

LEMMA AdaptingDoes ==
  ASSUME NEW reads, Reader(reads), NEW text \in Seq(Kinds), NEW line \in Kinds, NEW s, NEW new,
         s = Adapting(reads, text), new = Adapting(reads, Append(text, line))
  PROVE  /\ s \in Adaptations /\ new \in Adaptations /\ new = Line(reads)[line][s]
         /\ Closes(s, new, line) \/ Keeps(reads, s, new, line) \/ Drops(reads, s, new, line)
<1>1. s \in Adaptations /\ new = Line(reads)[line][s]
  BY AdaptingIs
<1> QED BY <1>1, LineDoes

---------------------------------------------------------------------------
(* AllSettled: what is written is read as it was written.                  *)

\* Hooks and blank lines that follow are kept.
Grown(s, more) ==
  Adaptation(s.out \o more, s.section,
             IF s.section = "[Interface]" THEN s.has \cup (Range(more) \cap H) ELSE s.has, s.done)

Reads(reads, text, more) == Adapting(reads, text \o more) = Grown(Adapting(reads, text), more)

LEMMA MoreRead ==
  ASSUME NEW reads, Reader(reads), NEW text \in Seq(Kinds), NEW more \in Seq(H \cup {"blank"})
  PROVE  Reads(reads, text, more)
<1> DEFINE B == H \cup {"blank"}
           P == {m \in Seq(B) : Reads(reads, text, m)}
           s == Adapting(reads, text)
<1>1. B \subseteq Kinds /\ B \cap Headers = {} /\ \A line \in B : reads[line] = line /\ line \notin Dropped
  BY HookSet, HeaderSet DEF Reader
<1>2. s \in Adaptations /\ s.out \in Seq(Kinds) /\ s.has \in SUBSET H
      /\ s.section \in Headers \cup {"none"} /\ s.done \in BOOLEAN
  BY AdaptingIs DEF Adaptations, H
<1>3. <<>> \in P
  <2>1. text \o <<>> = text /\ s.out \o <<>> = s.out /\ <<>> \in Seq(B)
    BY <1>2, ConcatEmptySeq, EmptySeq
  <2>2. Range(<<>>) \cap H = {}
    BY RangeEmpty
  <2> HIDE DEF s
  <2>3. Grown(s, <<>>) = Adaptation(s.out, s.section, s.has, s.done)
    BY <2>1, <2>2 DEF Grown
  <2>4. s = Adaptation(s.out, s.section, s.has, s.done)
    BY <1>2, IsAdaptation
  <2> QED BY <2>1, <2>3, <2>4 DEF Reads, s
<1>4. ASSUME NEW m \in Seq(B), NEW line \in B, m \in P PROVE Append(m, line) \in P
  <2> DEFINE u == text \o m
             v == Adapting(reads, u)
             new == Adapting(reads, Append(u, line))
  <2>0. line \in B
    BY <1>4
  <2>1. m \in Seq(Kinds) /\ line \in Kinds
    BY <1>1, SeqMonotonic
  <2>2. u \in Seq(Kinds) /\ Append(m, line) \in Seq(B)
    BY <2>1, ConcatProperties, AppendProperties
  <2>3. text \o Append(m, line) = Append(u, line)
    BY <2>1, AppendConcat
  <2>4. v = Grown(s, m)
    BY <1>4 DEF Reads
  <2>5. v \in Adaptations /\ new \in Adaptations /\ Keeps(reads, v, new, line)
    <3>1. /\ v \in Adaptations /\ new \in Adaptations
          /\ Closes(v, new, line) \/ Keeps(reads, v, new, line) \/ Drops(reads, v, new, line)
      BY <2>1, <2>2, AdaptingDoes
    <3> QED BY <1>1, <3>1 DEF Closes, Drops
  <2>6. /\ v.out = s.out \o m /\ v.section = s.section /\ v.done = s.done
        /\ v.has = IF s.section = "[Interface]" THEN s.has \cup (Range(m) \cap H) ELSE s.has
    <3> HIDE DEF v, s
    <3> QED BY <2>4 DEF Grown, Adaptation
  <2> DEFINE w == Grown(s, Append(m, line))
             out == s.out \o Append(m, line)
             hooks == IF s.section = "[Interface]" THEN s.has \cup (Range(Append(m, line)) \cap H) ELSE s.has
  <2>7. Append(s.out \o m, line) = out
    <3>1. s.out \in Seq(Kinds)
      BY <1>2
    <3> DEFINE o == s.out
    <3> HIDE DEF s
    <3>2. o \in Seq(Kinds)
      BY <3>1
    <3> HIDE DEF o
    <3>3. o \o Append(m, line) = Append(o \o m, line)
      BY <2>1, <3>2, AppendConcat
    <3> QED BY <3>3 DEF o
  <2>8. Range(Append(m, line)) = Range(m) \cup {line}
    BY RangeAppend
  <2> HIDE DEF v, new, s, B
  <2>9. new.out = out
    BY <2>5, <2>6, <2>7 DEF Keeps
  <2>10. new.section = s.section /\ new.done = s.done
    BY <1>1, <2>5, <2>6 DEF Keeps
  <2>11. new.has = hooks
    <3>1. line \notin Headers /\ reads[line] = line
      BY <1>1, <2>0
    <3>2. CASE s.section = "[Interface]"
      BY <2>5, <2>6, <2>8, <3>1, <3>2 DEF Keeps
    <3>3. CASE s.section # "[Interface]"
      BY <2>5, <2>6, <3>1, <3>3 DEF Keeps
    <3> QED BY <3>2, <3>3
  <2> HIDE DEF out, hooks
  <2>12. new = Adaptation(out, s.section, hooks, s.done)
    <3>1. new = Adaptation(new.out, new.section, new.has, new.done)
      BY <2>5, IsAdaptation
    <3> QED BY <2>9, <2>10, <2>11, <3>1
  <2>13. Grown(s, Append(m, line)) = Adaptation(out, s.section, hooks, s.done)
    BY DEF Grown, out, hooks
  <2>14. Reads(reads, text, Append(m, line))
    BY <2>3, <2>12, <2>13 DEF Reads, new, s
  <2> QED BY <2>2, <2>14 DEF B
<1>5. Seq(B) \subseteq P
  <2> HIDE DEF P
  <2> QED BY <1>3, <1>4, Growing
<1> QED BY <1>5

LEMMA NoneMore ==
  ASSUME NEW out \in Seq(Kinds)
  PROVE  out \o Extras(H) = out
BY NoExtras, ConcatEmptySeq

\* The first [Interface] ended twice is ended as it was.
LEMMA ClosedTwice ==
  ASSUME NEW reads, Reader(reads), NEW text \in Seq(Kinds), NEW line \in Headers, NEW s \in Adaptations,
         Open(s), Adapting(reads, text) = s, text = s.out
  PROVE  Adapting(reads, Append(Spaced(s.out \o Extras(s.has)), line))
           = Adaptation(Append(Spaced(s.out \o Extras(s.has)), line), line, H, TRUE)
<1> DEFINE more == Extras(s.has)
           flushed == text \o more
           blanks == Spaces(flushed)
           spaced == Spaced(flushed)
           v == Adapting(reads, spaced)
<1>1. s.has \in SUBSET H /\ s.section = "[Interface]" /\ s.done = FALSE /\ line \in Kinds
      /\ "[Interface]" \in Headers \cup {"none"}
  BY HeaderSet DEF Adaptations, H, Open
<1>2. more \in Seq(Kinds) /\ more \in Seq(H \cup {"blank"}) /\ Range(more) = H \ s.has
  <2>1. more \in Seq(H \ s.has) /\ more \in Seq(Kinds) /\ Range(more) = H \ s.has
    BY <1>1, ExtrasAre
  <2>2. H \ s.has \subseteq H \cup {"blank"}
    OBVIOUS
  <2> HIDE DEF more
  <2> QED BY <2>1, <2>2, SeqMonotonic
<1>3. Spaced(s.out \o Extras(s.has)) = spaced
  OBVIOUS
<1> HIDE DEF more
<1>4. flushed \in Seq(Kinds)
  BY <1>2, ConcatProperties
<1>5. blanks \in Seq(H \cup {"blank"}) /\ spaced = flushed \o blanks /\ spaced \in Seq(Kinds)
      /\ Spaced(spaced) = spaced /\ Range(blanks) \cap H = {}
  <2> HIDE DEF flushed
  <2>1. blanks \in Seq({"blank"}) /\ spaced = flushed \o blanks /\ spaced \in Seq(Kinds) /\ Spaced(spaced) = spaced
    BY <1>4, SpacedIs
  <2> HIDE DEF blanks
  <2>2. {"blank"} \subseteq H \cup {"blank"}
    OBVIOUS
  <2>3. blanks \in Seq(H \cup {"blank"})
    BY <2>1, <2>2, SeqMonotonic
  <2>4. Range(blanks) \subseteq {"blank"}
    BY <2>1, RangeEquality
  <2> QED BY <2>1, <2>3, <2>4, HookSet
<1>6. Adapting(reads, flushed) = Adaptation(flushed, "[Interface]", H, FALSE)
  <2>1. Adapting(reads, text \o more) = Grown(s, more)
    BY <1>2, MoreRead DEF Reads
  <2>2. s.has \cup (Range(more) \cap H) = H
    BY <1>1, <1>2
  <2>3. Grown(s, more) = Adaptation(s.out \o more, "[Interface]", H, FALSE)
    BY <1>1, <2>2 DEF Grown
  <2> QED BY <2>1, <2>3
<1>7. v = Adaptation(spaced, "[Interface]", H, FALSE)
  <2> DEFINE f == Adapting(reads, flushed)
  <2>1. Adapting(reads, flushed \o blanks) = Grown(f, blanks)
    <3> HIDE DEF flushed, blanks
    <3> QED BY <1>4, <1>5, MoreRead DEF Reads
  <2>2. f.out = flushed /\ f.section = "[Interface]" /\ f.has = H /\ f.done = FALSE
    <3>1. f = Adaptation(flushed, "[Interface]", H, FALSE)
      BY <1>6
    <3> HIDE DEF f, flushed
    <3> QED BY <3>1 DEF Adaptation
  <2> HIDE DEF f, flushed, blanks, spaced
  <2>3. H \cup (Range(blanks) \cap H) = H
    OBVIOUS
  <2>4. Grown(f, blanks) = Adaptation(flushed \o blanks, "[Interface]", H, FALSE)
    BY <2>2, <2>3 DEF Grown
  <2> QED BY <1>5, <2>1, <2>4
<1>8. v \in Adaptations /\ v.out = spaced /\ v.has = H /\ Open(v)
  <2> HIDE DEF spaced
  <2>1. v \in Adaptations
    BY <1>5, AdaptingIs
  <2> HIDE DEF v
  <2> QED BY <1>7, <2>1 DEF Adaptation, Open
<1>9. Adapting(reads, Append(spaced, line)) = Line(reads)[line][v]
  <2> HIDE DEF spaced
  <2> QED BY <1>1, <1>5, AdaptingIs
<1>10. Line(reads)[line][v] = Adaptation(Append(Spaced(v.out \o Extras(v.has)), line), line, H, TRUE)
  <2> HIDE DEF v
  <2>1. line \in Kinds /\ v \in Adaptations /\ line \in Headers /\ Open(v)
    BY <1>1, <1>8
  <2>2. line \in Headers /\ Open(v) =>
          Line(reads)[line][v] = Adaptation(Append(Spaced(v.out \o Extras(v.has)), line), line, H, TRUE)
    BY <2>1, LineIs
  <2> QED BY <2>1, <2>2
<1>11. Spaced(v.out \o Extras(v.has)) = spaced
  <2>1. v.out \o Extras(v.has) = spaced
    <3> HIDE DEF v, spaced
    <3> QED BY <1>5, <1>8, NoneMore
  <2> QED BY <1>5, <2>1
<1> QED BY <1>3, <1>9, <1>10, <1>11

Settles(reads, text) == Adapting(reads, Adapting(reads, text).out) = Adapting(reads, text)

LEMMA AdaptingSettles == ASSUME NEW reads, Reader(reads), NEW text \in Seq(Kinds) PROVE Settles(reads, text)
<1> DEFINE P == {t \in Seq(Kinds) : Settles(reads, t)}
<1>1. <<>> \in P
  <2>1. Begun.out = <<>> /\ <<>> \in Seq(Kinds)
    BY EmptySeq DEF Begun
  <2> QED BY <2>1, AdaptingIs DEF Settles
<1>2. ASSUME NEW t \in Seq(Kinds), NEW line \in Kinds, t \in P PROVE Append(t, line) \in P
  <2> DEFINE s == Adapting(reads, t)
             new == Adapting(reads, Append(t, line))
  <2>1. Append(t, line) \in Seq(Kinds)
    BY AppendProperties
  <2>2. /\ s \in Adaptations /\ new \in Adaptations /\ new = Line(reads)[line][s]
        /\ Closes(s, new, line) \/ Keeps(reads, s, new, line) \/ Drops(reads, s, new, line)
    BY AdaptingDoes
  <2>3. Adapting(reads, s.out) = s /\ s.out \in Seq(Kinds)
    BY <1>2, <2>2 DEF Settles, Adaptations
  <2> SUFFICES Adapting(reads, new.out) = new
    BY <2>1 DEF Settles
  <2> HIDE DEF s, new
  <2>4. CASE Closes(s, new, line)
    <3> DEFINE ended == Append(Spaced(s.out \o Extras(s.has)), line)
               out == s.out
    <3>1. line \in Headers /\ Open(s) /\ new.out = ended /\ new.section = line /\ new.has = H /\ new.done = TRUE
      BY <2>4 DEF Closes
    <3>2. out \in Seq(Kinds) /\ Adapting(reads, out) = s /\ out = s.out
      BY <2>3
    <3>3. Adapting(reads, ended) = Adaptation(ended, line, H, TRUE)
      <4>1. s \in Adaptations /\ line \in Headers /\ Open(s)
        BY <2>2, <3>1
      <4> HIDE DEF out
      <4>2. Adapting(reads, Append(Spaced(s.out \o Extras(s.has)), line))
              = Adaptation(Append(Spaced(s.out \o Extras(s.has)), line), line, H, TRUE)
        BY <3>2, <4>1, ClosedTwice
      <4> QED BY <4>2
    <3> HIDE DEF ended
    <3>4. new = Adaptation(new.out, new.section, new.has, new.done)
      BY <2>2, IsAdaptation
    <3>5. new = Adaptation(ended, line, H, TRUE)
      BY <3>1, <3>4
    <3> QED BY <3>1, <3>3, <3>5
  <2>5. CASE Keeps(reads, s, new, line)
    <3> DEFINE out == s.out
    <3>1. new.out = Append(out, line)
      BY <2>5 DEF Keeps
    <3>2. out \in Seq(Kinds) /\ Adapting(reads, out) = s
      BY <2>3
    <3> HIDE DEF out
    <3>3. Adapting(reads, Append(out, line)) = Line(reads)[line][s]
      BY <3>2, AdaptingIs
    <3> QED BY <2>2, <3>1, <3>3
  <2>6. CASE Drops(reads, s, new, line)
    BY <2>3, <2>6 DEF Drops
  <2> QED BY <2>2, <2>4, <2>5, <2>6
<1>3. Seq(Kinds) \subseteq P
  <2> HIDE DEF P
  <2> QED BY <1>1, <1>2, Growing
<1> QED BY <1>3

LEMMA AdaptedIs ==
  ASSUME NEW reads, Reader(reads), NEW raw \in Seq(Kinds)
  PROVE  Adapted(reads, raw) = Stripped(Finished(Adapting(reads, raw)), "blank")
<1> DEFINE end == Adapting(reads, raw)
<1>1. Adapted(reads, raw) = Stripped(IF Open(end) THEN Flush(end).out ELSE end.out, "blank")
  BY Zenon DEF Adapted, Adapting, Open
<1>2. end \in Adaptations
  BY AdaptingIs
<1> HIDE DEF end
<1>3. Flush(end).out = end.out \o Extras(end.has)
  <2> DEFINE flushed == end.out \o Extras(end.has)
  <2>1. Flush(end) = [end EXCEPT !.out = flushed, !.has = H]
    BY DEF Flush, H
  <2> HIDE DEF flushed
  <2>2. Flush(end).out = flushed
    BY <1>2, <2>1 DEF Adaptations
  <2> QED BY <2>2 DEF flushed
<1> QED BY <1>1, <1>3 DEF Finished, end

LEMMA FinishedIn ==
  ASSUME NEW s \in Adaptations
  PROVE  Finished(s) \in Seq(Kinds)
BY SpacedIn DEF Finished, Adaptations

\* The finished text is read as it is: nothing is added to it.
ReadAsIs(reads, text, end) == end = Adapting(reads, text) /\ end.out = text /\ (Open(end) => end.has = H)

LEMMA FinishedSettles ==
  ASSUME NEW reads, Reader(reads), NEW text \in Seq(Kinds)
  PROVE  \E end \in Adaptations : ReadAsIs(reads, Finished(Adapting(reads, text)), end)
<1> DEFINE s == Adapting(reads, text)
           out == s.out
           more == Extras(s.has)
<1>1. s \in Adaptations
  BY AdaptingIs
<1>2. Adapting(reads, s.out) = s
  BY AdaptingSettles DEF Settles
<1> HIDE DEF s
<1>3. s.out \in Seq(Kinds) /\ s.has \in SUBSET H /\ Adapting(reads, s.out) = s
  BY <1>1, <1>2 DEF Adaptations, H
<1>4. CASE Open(s)
  <2> DEFINE flushed == out \o more
             end == Adapting(reads, flushed)
  <2>1. more \in Seq(H \cup {"blank"}) /\ Range(more) = H \ s.has /\ more \in Seq(Kinds)
    <3>1. more \in Seq(H \ s.has) /\ Range(more) = H \ s.has /\ more \in Seq(Kinds)
      BY <1>3, ExtrasAre
    <3>2. H \ s.has \subseteq H \cup {"blank"}
      OBVIOUS
    <3> HIDE DEF more
    <3> QED BY <3>1, <3>2, SeqMonotonic
  <2>2. out \in Seq(Kinds) /\ Adapting(reads, out) = s
    BY <1>3
  <2>3. out = s.out
    OBVIOUS
  <2> HIDE DEF out, more
  <2>4. end = Grown(s, more)
    BY <2>1, <2>2, MoreRead DEF Reads
  <2>5. flushed \in Seq(Kinds)
    BY <2>1, <2>2, ConcatProperties
  <2>6. s.section = "[Interface]" /\ s.has \cup (Range(more) \cap H) = H
    BY <1>3, <1>4, <2>1 DEF Open
  <2>7. end = Adaptation(flushed, "[Interface]", H, s.done)
    BY <2>3, <2>4, <2>6 DEF Grown
  <2>8. Finished(s) = flushed
    BY <1>4, <2>3 DEF Finished, more
  <2>9. end \in Adaptations
    <3> HIDE DEF flushed
    <3> QED BY <2>5, AdaptingIs
  <2>10. Adapting(reads, Finished(s)) = end
    BY <2>8
  <2> HIDE DEF end, flushed
  <2>11. end.out = flushed /\ end.has = H
    BY <2>7, <2>9 DEF Adaptation
  <2>12. ReadAsIs(reads, Finished(s), end)
    BY <2>8, <2>10, <2>11 DEF ReadAsIs
  <2> QED BY <2>9, <2>12 DEF s
<1>5. CASE ~Open(s)
  <2>1. Finished(s) = s.out
    BY <1>5 DEF Finished
  <2>2. ReadAsIs(reads, Finished(s), s)
    BY <1>3, <1>5, <2>1 DEF ReadAsIs
  <2> QED BY <1>1, <2>2 DEF s
<1> QED BY <1>4, <1>5

LEMMA CancelRight ==
  ASSUME NEW A, NEW s \in Seq(A), NEW t \in Seq(A), NEW u \in Seq(A), s \o u = t \o u
  PROVE  s = t
BY ConcatSimplifications

LEMMA AdaptedSettles ==
  ASSUME NEW reads, Reader(reads), NEW text \in Seq(Kinds)
  PROVE  Adapted(reads, text) \in Seq(Kinds) /\ Adapted(reads, Adapted(reads, text)) = Adapted(reads, text)
<1> DEFINE fin == Finished(Adapting(reads, text))
           x == Stripped(fin, "blank")
           u == Adapting(reads, x)
<1>1. Adapted(reads, text) = x
  BY AdaptedIs
<1>2. fin \in Seq(Kinds)
  BY AdaptingIs, FinishedIn
<1>3. PICK end \in Adaptations : ReadAsIs(reads, fin, end)
  BY FinishedSettles
<1> HIDE DEF fin
<1>4. PICK rest : x \in Seq(Kinds) /\ IsStripped(x, rest, fin, "blank")
  BY <1>2, HeaderSet, StrippedIs
<1>5. Stripped(x, "blank") = x
  <2>1. x \in Seq(Kinds) /\ (x # <<>> => x[Len(x)] # "blank")
    BY <1>4 DEF IsStripped
  <2> HIDE DEF x
  <2> QED BY <2>1, StrippedFixed
<1> HIDE DEF x
<1>6. rest \in Seq(H \cup {"blank"}) /\ rest \in Seq(Kinds) /\ fin = x \o rest /\ Range(rest) \cap H = {}
  <2>1. rest \in Seq({"blank"}) /\ fin = x \o rest
    BY <1>4 DEF IsStripped
  <2>2. {"blank"} \subseteq H \cup {"blank"} /\ {"blank"} \subseteq Kinds
    BY HeaderSet
  <2>3. rest \in Seq(H \cup {"blank"}) /\ rest \in Seq(Kinds)
    BY <2>1, <2>2, SeqMonotonic
  <2>4. Range(rest) \subseteq {"blank"}
    BY <2>1, RangeEquality
  <2> QED BY <2>1, <2>3, <2>4, HookSet
<1>7. u \in Adaptations
  BY <1>4, AdaptingIs
<1>8. end = Grown(u, rest)
  <2>1. Adapting(reads, x \o rest) = Grown(u, rest)
    BY <1>4, <1>6, MoreRead DEF Reads
  <2> QED BY <1>3, <1>6, <2>1 DEF ReadAsIs
<1> HIDE DEF u
<1>9. end.out = u.out \o rest /\ end.section = u.section /\ end.done = u.done /\ end.has = u.has
  <2>1. u.has \cup (Range(rest) \cap H) = u.has
    BY <1>6
  <2>2. end = Adaptation(u.out \o rest, u.section, u.has, u.done)
    BY <1>8, <2>1 DEF Grown
  <2> QED BY <2>2 DEF Adaptation
<1>10. u.out = x
  <2> DEFINE out == u.out
  <2>1. out \in Seq(Kinds) /\ out \o rest = x \o rest
    BY <1>3, <1>6, <1>7, <1>9 DEF ReadAsIs, Adaptations
  <2> HIDE DEF out
  <2>2. out = x
    BY <1>4, <1>6, <2>1, CancelRight
  <2> QED BY <2>2 DEF out
<1>11. Finished(u) = x
  <2>1. CASE Open(u)
    <3>1. u.has = H
      BY <1>3, <1>9, <2>1 DEF ReadAsIs, Open
    <3>2. x \o Extras(H) = x
      BY <1>4, NoneMore
    <3>3. Finished(u) = u.out \o Extras(u.has)
      BY <2>1 DEF Finished
    <3> QED BY <1>10, <3>1, <3>2, <3>3
  <2>2. CASE ~Open(u)
    BY <1>10, <2>2 DEF Finished
  <2> QED BY <2>1, <2>2
<1>12. Adapted(reads, x) = x
  <2>1. Adapted(reads, x) = Stripped(Finished(u), "blank")
    BY <1>4, AdaptedIs DEF u
  <2> QED BY <1>5, <1>11, <2>1
<1> QED BY <1>1, <1>4, <1>12

---------------------------------------------------------------------------
(* The first line of a text stays, and so the script skips none of what it *)
(* has written.                                                            *)

SameTop(text, out) == text # <<>> => out # <<>> /\ out[1] = text[1]

LEMMA TopAppend ==
  ASSUME NEW A, NEW s \in Seq(A), NEW a \in A
  PROVE  Append(s, a) # <<>> /\ Append(s, a)[1] = IF s = <<>> THEN a ELSE s[1]
<1> DEFINE more == Append(s, a)
           n == Len(s)
<1>1. /\ n \in Nat /\ (n = 0 <=> s = <<>>) /\ Len(more) = n + 1 /\ more[n + 1] = a
      /\ \A i \in 1..n : more[i] = s[i]
  BY AppendProperties, LenProperties, EmptySeq
<1> HIDE DEF more, n
<1>2. more # <<>>
  <2>1. n + 1 # 0
    BY <1>1
  <2> QED BY <1>1, <2>1, EmptySeq
<1>3. CASE n = 0
  BY <1>1, <1>2, <1>3 DEF more
<1>4. CASE n # 0
  <2>1. 1 \in 1..n
    BY <1>1, <1>4
  <2> QED BY <1>1, <1>2, <1>4, <2>1 DEF more
<1> QED BY <1>3, <1>4

LEMMA TopConcat ==
  ASSUME NEW A, NEW s \in Seq(A), NEW t \in Seq(A), s # <<>>
  PROVE  s \o t # <<>> /\ (s \o t)[1] = s[1]
OBVIOUS

LEMMA TopStays ==
  ASSUME NEW reads, Reader(reads), NEW text \in Seq(Kinds)
  PROVE  SameTop(text, Adapting(reads, text).out)
<1> DEFINE P == {t \in Seq(Kinds) : SameTop(t, Adapting(reads, t).out)}
<1>1. <<>> \in P
  BY EmptySeq DEF SameTop
<1>2. ASSUME NEW t \in Seq(Kinds), NEW line \in Kinds, t \in P PROVE Append(t, line) \in P
  <2> DEFINE s == Adapting(reads, t)
             more == Append(t, line)
             new == Adapting(reads, more)
             out == s.out
  <2>1. more \in Seq(Kinds) /\ more # <<>> /\ more[1] = IF t = <<>> THEN line ELSE t[1]
    BY AppendProperties, TopAppend
  <2>2. /\ s \in Adaptations /\ new \in Adaptations
        /\ Closes(s, new, line) \/ Keeps(reads, s, new, line) \/ Drops(reads, s, new, line)
    BY AdaptingDoes
  <2>3. SameTop(t, out) /\ out \in Seq(Kinds)
    BY <1>2, <2>2 DEF Adaptations
  <2>4. t = <<>> => out = <<>> /\ s.section = "none"
    <3>1. Begun.out = <<>> /\ Begun.section = "none"
      BY DEF Begun
    <3> QED BY <3>1, AdaptingIs
  <2>5. SameTop(more, new.out)
    <3> HIDE DEF s, new, more
    <3>1. CASE Keeps(reads, s, new, line)
      <4>1. new.out = Append(out, line)
        BY <3>1 DEF Keeps
      <4> HIDE DEF out
      <4>2. Append(out, line) # <<>> /\ Append(out, line)[1] = IF out = <<>> THEN line ELSE out[1]
        BY <2>3, TopAppend
      <4> QED BY <2>1, <2>3, <2>4, <4>1, <4>2 DEF SameTop
    <3>2. CASE Closes(s, new, line)
      <4> DEFINE extras == Extras(s.has)
                 flushed == out \o extras
                 spaced == Spaced(flushed)
      <4>1. s.section = "[Interface]" /\ new.out = Append(spaced, line)
        BY <3>2 DEF Closes, Open
      <4>2. t # <<>>
        BY <2>4, <4>1
      <4>3. extras \in Seq(Kinds)
        BY <2>2, ExtrasAre DEF Adaptations, H
      <4> HIDE DEF out, extras
      <4>4. out # <<>> /\ out[1] = t[1]
        BY <2>3, <4>2 DEF SameTop
      <4>5. flushed \in Seq(Kinds) /\ flushed # <<>> /\ flushed[1] = t[1]
        BY <2>3, <4>3, <4>4, ConcatProperties, TopConcat
      <4> HIDE DEF flushed
      <4>6. spaced \in Seq(Kinds) /\ spaced # <<>> /\ spaced[1] = t[1]
        <5> DEFINE blanks == Spaces(flushed)
        <5>1. blanks \in Seq(Kinds) /\ spaced = flushed \o blanks /\ spaced \in Seq(Kinds)
          BY <4>5, SpacedIs
        <5> HIDE DEF blanks, spaced
        <5> QED BY <4>5, <5>1, TopConcat
      <4> HIDE DEF spaced
      <4>7. Append(spaced, line) # <<>> /\ Append(spaced, line)[1] = spaced[1]
        BY <4>6, TopAppend
      <4> QED BY <2>1, <4>1, <4>2, <4>6, <4>7 DEF SameTop
    <3>3. CASE Drops(reads, s, new, line)
      <4>1. s.section = "[Interface]" /\ new = s
        BY <3>3 DEF Drops
      <4>2. t # <<>>
        BY <2>4, <4>1
      <4> QED BY <2>1, <2>3, <4>1, <4>2 DEF SameTop
    <3> QED BY <2>2, <3>1, <3>2, <3>3
  <2> QED BY <2>1, <2>5
<1>3. Seq(Kinds) \subseteq P
  <2> HIDE DEF P
  <2> QED BY <1>1, <1>2, Growing
<1> QED BY <1>3

Skipped == {"blank", "# Generated on"}

LEMMA BodyIs ==
  ASSUME NEW raw \in Seq(Kinds)
  PROVE  /\ Body(raw) \in Seq(Kinds)
         /\ Body(raw) # <<>> => Body(raw)[1] \notin Skipped
         /\ raw = <<>> \/ raw[1] \notin Skipped => Body(raw) = raw
<1> DEFINE kept == {i \in DOMAIN raw : raw[i] \notin Skipped}
           n == Len(raw)
           first == IF kept = {} THEN n + 1 ELSE CHOOSE i \in kept : \A j \in kept : i <= j
           body == SubSeq(raw, first, n)
<1>1. n \in Nat /\ DOMAIN raw = 1..n /\ (n = 0 <=> raw = <<>>) /\ \A i \in 1..n : raw[i] \in Kinds
  BY LenProperties, EmptySeq, ElementOfSeq
<1>2. Body(raw) = body
  BY Zenon DEF Body, Skipped
<1>3. kept \subseteq 1..n /\ (\A i \in kept : raw[i] \notin Skipped)
      /\ (\A i \in 1..n : raw[i] \notin Skipped => i \in kept)
  BY <1>1
<1> HIDE DEF n, kept
<1>4. CASE kept = {}
  <2>1. first = n + 1
    BY <1>4
  <2> HIDE DEF first
  <2>2. body = <<>>
    BY <1>1, <2>1
  <2>3. n # 0 => raw[1] \in Skipped
    <3>1. n # 0 => 1 \in 1..n
      BY <1>1
    <3> QED BY <1>3, <1>4, <3>1
  <2> HIDE DEF body
  <2> QED BY <1>1, <1>2, <2>2, <2>3, EmptySeq
<1>5. CASE kept # {}
  <2>1. kept \subseteq Nat
    BY <1>1, <1>3
  <2>2. \E i \in kept : \A j \in kept : i <= j
    BY <1>5, <2>1, Least
  <2>3. first \in kept /\ \A j \in kept : first <= j
    BY <1>5, <2>2
  <2> HIDE DEF first
  <2>4. first \in 1..n /\ first \in Int /\ n \in Int
    BY <1>1, <1>3, <2>3
  <2>5. first <= n /\ n - first + 1 \in Nat /\ n - first + 1 # 0 /\ 1 \in 1..n - first + 1 /\ first + 1 - 1 = first
        /\ \A i \in first..n : i \in 1..n
    BY <1>1, <2>4
  <2>6. \A i \in first..n : raw[i] \in Kinds
    BY <1>1, <2>5
  <2>7. body \in Seq(Kinds) /\ Len(body) = n - first + 1
    BY <2>4, <2>5, <2>6, SubSeqProperties
  <2>8. body[1] = raw[first]
    BY <2>4, <2>5, <2>6, SubSeqProperties
  <2>9. raw # <<>>
    BY <1>1, <2>4
  <2>10. raw[1] \notin Skipped => body = raw
    <3>1. SUFFICES ASSUME raw[1] \notin Skipped PROVE body = raw
      OBVIOUS
    <3>2. 1 \in kept
      <4>1. 1 \in 1..n
        BY <1>1, <2>4
      <4> QED BY <1>3, <3>1, <4>1
    <3>3. first = 1
      BY <1>1, <2>3, <2>4, <3>2
    <3> QED BY <3>3, SubSeqFull DEF n
  <2>11. raw[first] \notin Skipped
    BY <1>3, <2>3
  <2> HIDE DEF body
  <2> QED BY <1>2, <2>7, <2>8, <2>9, <2>10, <2>11
<1> QED BY <1>4, <1>5

LEMMA TextsLines == Texts \subseteq Seq(Kinds)
<1> DEFINE raws == UNION {[1..n -> Kinds] : n \in 0..MaxLines}
<1>1. raws \subseteq Seq(Kinds)
  <2>1. ASSUME NEW n \in 0..MaxLines, NEW raw \in [1..n -> Kinds] PROVE raw \in Seq(Kinds)
    <3>1. n \in Nat
      BY LinesAssumption
    <3> QED BY <3>1
  <2> QED BY <2>1
<1>2. Texts = raws \cup {<<"[Interface]">> \o raw : raw \in raws}
  BY Zenon DEF Texts
<1> HIDE DEF raws
<1>3. "[Interface]" \in Kinds
  BY HeaderSet
<1>4. ASSUME NEW raw \in raws PROVE <<"[Interface]">> \o raw \in Seq(Kinds)
  BY <1>1, <1>3, ConcatProperties
<1> QED BY <1>1, <1>2, <1>4

\* Two readers that agree on the lines of a text adapt it alike.
LEMMA AlikeAdapted ==
  ASSUME NEW reads, Reader(reads), NEW other, Reader(other), NEW text \in Seq(Kinds),
         \A line \in Range(text) : reads[line] = other[line]
  PROVE  Adapted(reads, text) = Adapted(other, text)
<1> DEFINE B == {line \in Kinds : reads[line] = other[line]}
           P == {t \in Seq(B) : Adapting(reads, t) = Adapting(other, t)}
<1>1. <<>> \in P
  <2>1. <<>> \in Seq(B) /\ Adapting(reads, <<>>) = Begun /\ Adapting(other, <<>>) = Begun
    BY AdaptingIs, EmptySeq
  <2> QED BY <2>1
<1>2. ASSUME NEW t \in Seq(B), NEW line \in B, t \in P PROVE Append(t, line) \in P
  <2>1. t \in Seq(Kinds) /\ line \in Kinds /\ reads[line] = other[line] /\ Append(t, line) \in Seq(B)
    <3>1. B \subseteq Kinds
      OBVIOUS
    <3> QED BY <3>1, SeqMonotonic, AppendProperties
  <2>2. Adapting(reads, t) = Adapting(other, t)
    BY <1>2
  <2>3. Line(reads)[line] = Line(other)[line]
    BY <2>1, Zenon DEF Line
  <2>4. Adapting(reads, Append(t, line)) = Line(reads)[line][Adapting(reads, t)]
        /\ Adapting(other, Append(t, line)) = Line(other)[line][Adapting(other, t)]
    BY <2>1, AdaptingIs
  <2> QED BY <2>1, <2>2, <2>3, <2>4
<1>3. Seq(B) \subseteq P
  <2> HIDE DEF P, B
  <2> QED BY <1>1, <1>2, Growing
<1>4. text \in Seq(B)
  <2>1. \A i \in 1..Len(text) : text[i] \in B
    <3>1. Range(text) = {text[i] : i \in 1..Len(text)}
      BY RangeEquality
    <3>2. \A i \in 1..Len(text) : text[i] \in Kinds
      BY ElementOfSeq
    <3> QED BY <3>1, <3>2
  <2> HIDE DEF B
  <2> QED BY <2>1
<1>5. Adapting(reads, text) = Adapting(other, text)
  BY <1>3, <1>4
<1> QED BY <1>5, AdaptedIs

\* What the script writes is settled: nothing is skipped, nothing is changed.
LEMMA AllTextsSettled == AllSettled
<1>1. ASSUME NEW raw \in Texts
      PROVE  LET text == ScriptAdapted(raw)
             IN  ScriptAdapted(text) = text /\ (ReadAlike(text) => UploadAdapted(text) = text)
  <2> DEFINE reads == ScriptReads
             body == Body(raw)
             s == Adapting(reads, body)
             fin == Finished(s)
             text == Adapted(reads, body)
  <2>0. Reader(reads) /\ Reader(UploadReads)
    BY BothRead
  <2>1. body \in Seq(Kinds) /\ (body # <<>> => body[1] \notin Skipped)
    BY TextsLines, BodyIs
  <2> HIDE DEF body, reads
  <2>2. text \in Seq(Kinds) /\ Adapted(reads, text) = text /\ text = Stripped(fin, "blank")
    BY <2>0, <2>1, AdaptedSettles, AdaptedIs
  <2>3. s \in Adaptations /\ SameTop(body, s.out)
    BY <2>0, <2>1, AdaptingIs, TopStays
  <2>4. fin \in Seq(Kinds)
    BY <2>3, FinishedIn
  <2>5. SameTop(body, fin)
    <3> HIDE DEF s
    <3>1. CASE Open(s)
      <4> DEFINE out == s.out
                 more == Extras(s.has)
      <4>1. fin = out \o more
        BY <3>1 DEF Finished
      <4>2. out \in Seq(Kinds) /\ more \in Seq(Kinds) /\ SameTop(body, out)
        BY <2>3, ExtrasAre DEF Adaptations, H
      <4> HIDE DEF out, more
      <4>3. out # <<>> => fin # <<>> /\ fin[1] = out[1]
        BY <4>1, <4>2, TopConcat
      <4> QED BY <4>2, <4>3 DEF SameTop
    <3>2. CASE ~Open(s)
      BY <2>3, <3>2 DEF Finished
    <3> QED BY <3>1, <3>2
  <2> HIDE DEF fin
  <2>6. PICK rest : IsStripped(text, rest, fin, "blank")
    BY <2>2, <2>4, HeaderSet, StrippedIs
  <2> HIDE DEF text
  <2>7. rest \in Seq({"blank"}) /\ rest \in Seq(Kinds) /\ fin = text \o rest
    <3>1. {"blank"} \subseteq Kinds
      BY HeaderSet
    <3> QED BY <2>6, <3>1, SeqMonotonic DEF IsStripped
  <2>8. text = <<>> \/ text[1] \notin Skipped
    <3> SUFFICES ASSUME text # <<>> PROVE text[1] \notin Skipped
      OBVIOUS
    <3>1. fin # <<>> /\ fin[1] = text[1]
      BY <2>2, <2>7, TopConcat
    <3>2. body # <<>>
      <4> SUFFICES ASSUME body = <<>> PROVE FALSE
        OBVIOUS
      <4>1. Begun.out = <<>> /\ ~Open(Begun) /\ s = Begun
        BY <2>0, AdaptingIs DEF Begun, Open
      <4>2. fin = <<>>
        BY <4>1 DEF fin, Finished
      <4> QED BY <3>1, <4>2
    <3> QED BY <2>1, <2>5, <3>1, <3>2 DEF SameTop
  <2>9. Body(text) = text
    BY <2>2, <2>8, BodyIs
  <2>10. ScriptAdapted(raw) = text /\ ScriptAdapted(text) = text
    BY <2>2, <2>9 DEF ScriptAdapted, text, body, reads
  <2>11. ReadAlike(text) => UploadAdapted(text) = text
    <3> SUFFICES ASSUME ReadAlike(text) PROVE Adapted(UploadReads, text) = text
      BY DEF UploadAdapted
    <3>1. \A line \in Range(text) : UploadReads[line] = reads[line]
      BY DEF ReadAlike, reads
    <3>2. Adapted(UploadReads, text) = Adapted(reads, text)
      BY <2>0, <2>2, <3>1, AlikeAdapted
    <3> QED BY <2>2, <3>2
  <2> QED BY <2>10, <2>11
<1>2. ASSUME NEW raw \in Texts PROVE UploadAdapted(UploadAdapted(raw)) = UploadAdapted(raw)
  BY TextsLines, BothRead, AdaptedSettles DEF UploadAdapted
<1> QED BY <1>1, <1>2, Zenon DEF AllSettled

---------------------------------------------------------------------------
(* As and Times: what lines are read as, and how often.                    *)

Named(reads, kind) == {line \in Kinds : reads[line] = kind}

LEMMA AsAppend ==
  ASSUME NEW reads, NEW text \in Seq(Kinds), NEW line \in Kinds
  PROVE  As(reads, Append(text, line)) = As(reads, text) \cup {reads[line]}
<1>1. Range(Append(text, line)) = Range(text) \cup {line}
  BY RangeAppend
<1> QED BY <1>1 DEF As

LEMMA AsConcat ==
  ASSUME NEW reads, NEW s \in Seq(Kinds), NEW text \in Seq(Kinds)
  PROVE  As(reads, s \o text) = As(reads, s) \cup As(reads, text)
<1>1. Range(s \o text) = Range(s) \cup Range(text)
  BY RangeConcatenation
<1> QED BY <1>1 DEF As

LEMMA AsEmpty == ASSUME NEW reads PROVE As(reads, <<>>) = {}
BY RangeEmpty DEF As

LEMMA TimesStart == ASSUME NEW reads, NEW kind PROVE Times(reads, <<>>, kind) = 0
<1>1. Only(Kinds, <<>>, Named(reads, kind)) = <<>>
  BY OnlyStart
<1> QED BY <1>1 DEF Times, Named

LEMMA TimesIn ==
  ASSUME NEW reads, NEW kind, NEW text \in Seq(Kinds)
  PROVE  Times(reads, text, kind) \in Nat
<1>1. Only(Kinds, text, Named(reads, kind)) \in Seq(Kinds)
  BY OnlyLines
<1> QED BY <1>1, LenProperties DEF Times, Named

LEMMA TimesTurn ==
  ASSUME NEW reads, NEW kind, NEW text \in Seq(Kinds), NEW line \in Kinds
  PROVE  Times(reads, Append(text, line), kind)
           = IF reads[line] = kind THEN Times(reads, text, kind) + 1 ELSE Times(reads, text, kind)
<1> DEFINE named == Named(reads, kind)
           found == Only(Kinds, text, named)
<1>1. found \in Seq(Kinds)
  BY OnlyLines
<1>2. line \in named <=> reads[line] = kind
  BY DEF Named
<1>3. Times(reads, text, kind) = Len(found)
      /\ Times(reads, Append(text, line), kind) = Len(Only(Kinds, Append(text, line), named))
  BY DEF Times, Named
<1>4. Only(Kinds, Append(text, line), named) = IF line \in named THEN Append(found, line) ELSE found
  BY OnlyTurn
<1> HIDE DEF named, found
<1>5. Len(Append(found, line)) = Len(found) + 1
  BY <1>1, AppendProperties
<1> QED BY <1>2, <1>3, <1>4, <1>5

LEMMA TimesConcat ==
  ASSUME NEW reads, NEW kind, NEW s \in Seq(Kinds), NEW text \in Seq(Kinds)
  PROVE  Times(reads, s \o text, kind) = Times(reads, s, kind) + Times(reads, text, kind)
<1> DEFINE named == Named(reads, kind)
           a == Only(Kinds, s, named)
           b == Only(Kinds, text, named)
<1>1. a \in Seq(Kinds) /\ b \in Seq(Kinds) /\ Only(Kinds, s \o text, named) = a \o b
  BY OnlyLines, OnlyConcat
<1>2. /\ Times(reads, s, kind) = Len(a) /\ Times(reads, text, kind) = Len(b)
      /\ Times(reads, s \o text, kind) = Len(Only(Kinds, s \o text, named))
  BY DEF Times, Named
<1> HIDE DEF a, b, named
<1>3. Len(a \o b) = Len(a) + Len(b)
  BY <1>1, ConcatProperties
<1> QED BY <1>1, <1>2, <1>3

LEMMA TimesNone ==
  ASSUME NEW reads, NEW kind, NEW text \in Seq(Kinds)
  PROVE  Times(reads, text, kind) = 0 <=> kind \notin As(reads, text)
<1> DEFINE named == Named(reads, kind)
           found == Only(Kinds, text, named)
<1>1. found \in Seq(Kinds) /\ Range(found) = Range(text) \cap named
  BY OnlyLines, OnlyRange
<1>2. Times(reads, text, kind) = Len(found)
  BY DEF Times, Named
<1>3. Range(text) \subseteq Kinds
  BY RangeEquality
<1>4. Range(text) \cap named = {} <=> kind \notin As(reads, text)
  BY <1>3 DEF Named, As
<1> HIDE DEF found, named
<1>5. Len(found) = 0 <=> found = <<>>
  BY <1>1, EmptySeq
<1>6. found = <<>> <=> Range(found) = {}
  BY <1>1, RangeEmpty
<1> QED BY <1>1, <1>2, <1>4, <1>5, <1>6

\* The hooks added are read as what they are.
LEMMA ExtrasTimes ==
  ASSUME NEW reads, Reader(reads), NEW has \in SUBSET H
  PROVE  /\ As(reads, Extras(has)) = H \ has
         /\ \A h \in H : Times(reads, Extras(has), h) = IF h \in has THEN 0 ELSE 1
<1> DEFINE more == Extras(has)
<1>1. more \in Seq(Kinds) /\ more \in Seq(H \ has) /\ Range(more) = H \ has
      /\ \A h \in H : Count(Kinds, more, h) = IF h \in has THEN 0 ELSE 1
  BY ExtrasAre
<1>2. \A h \in H : reads[h] = h
  BY DEF Reader
<1> HIDE DEF more
<1>3. As(reads, more) = H \ has
  BY <1>1, <1>2 DEF As
<1>4. ASSUME NEW h \in H PROVE Times(reads, more, h) = Count(Kinds, more, h)
  <2>1. (H \ has) \cap Named(reads, h) = (H \ has) \cap {h} /\ H \ has \in SUBSET Kinds
    BY <1>2, HookSet DEF Named
  <2>2. Only(Kinds, more, Named(reads, h)) = Only(Kinds, more, {h})
    BY <1>1, <2>1, OnlyAlike
  <2> QED BY <2>2 DEF Times, Named, Count
<1> QED BY <1>1, <1>3, <1>4 DEF more

---------------------------------------------------------------------------
(* AllUsable: what is written, read as awg-quick reads it.                 *)

Read(at, lines) == [at |-> at, lines |-> lines]
Unread == Read("before", <<>>)
Reading(text) == Loop(ReadLine, Unread, text)

LEMMA InReadings ==
  ASSUME NEW at \in {"before", "in", "after"}, NEW lines \in Seq(Kinds)
  PROVE  Read(at, lines) \in Readings /\ Read(at, lines).at = at /\ Read(at, lines).lines = lines
BY DEF Read, Readings

LEMMA IsReading ==
  ASSUME NEW r \in Readings
  PROVE  r = Read(r.at, r.lines) /\ r.lines \in Seq(Kinds) /\ r.at \in {"before", "in", "after"}
BY DEF Read, Readings

LEMMA ReadLineIs ==
  ASSUME NEW line \in Kinds, NEW r \in Readings
  PROVE  ReadLine[line][r] =
           Read(IF r.at = "before" /\ line = "[Interface]" THEN "in"
                ELSE IF r.at = "in" /\ line \in Headers THEN "after" ELSE r.at,
                IF r.at = "in" /\ line \notin Headers THEN Append(r.lines, line) ELSE r.lines)
<1> DEFINE more == Append(r.lines, line)
<1>1. ReadLine[line][r] =
        IF r.at = "before" /\ line = "[Interface]" THEN [r EXCEPT !.at = "in"]
        ELSE IF r.at = "in" /\ line \in Headers THEN [r EXCEPT !.at = "after"]
        ELSE IF r.at = "in" THEN [r EXCEPT !.lines = more]
        ELSE r
  BY Zenon DEF ReadLine
<1>2. [r EXCEPT !.at = "in"] = Read("in", r.lines) /\ [r EXCEPT !.at = "after"] = Read("after", r.lines)
  BY DEF Read, Readings
<1> HIDE DEF more
<1>3. [r EXCEPT !.lines = more] = Read(r.at, more)
  BY DEF Read, Readings
<1>4. r = Read(r.at, r.lines)
  BY IsReading
<1>5. CASE r.at = "before" /\ line = "[Interface]"
  <2>1. r.at # "in"
    BY <1>5
  <2> QED BY <1>1, <1>2, <1>5, <2>1
<1>6. CASE r.at = "in" /\ line \in Headers
  <2>1. r.at # "before"
    BY <1>6
  <2> QED BY <1>1, <1>2, <1>6, <2>1
<1>7. CASE r.at = "in" /\ line \notin Headers
  <2>1. r.at # "before"
    BY <1>7
  <2> QED BY <1>1, <1>3, <1>7, <2>1 DEF more
<1>8. CASE r.at # "in" /\ ~(r.at = "before" /\ line = "[Interface]")
  BY <1>1, <1>4, <1>8
<1> QED BY <1>5, <1>6, <1>7, <1>8

\* How a line is read, one field at a time.
Turned(r, new, line) ==
  /\ new.at = IF r.at = "before" /\ line = "[Interface]" THEN "in"
              ELSE IF r.at = "in" /\ line \in Headers THEN "after" ELSE r.at
  /\ new.lines = IF r.at = "in" /\ line \notin Headers THEN Append(r.lines, line) ELSE r.lines

LEMMA ReadLineDoes ==
  ASSUME NEW line \in Kinds, NEW r \in Readings
  PROVE  ReadLine[line][r] \in Readings /\ Turned(r, ReadLine[line][r], line)
<1> DEFINE at == IF r.at = "before" /\ line = "[Interface]" THEN "in"
                 ELSE IF r.at = "in" /\ line \in Headers THEN "after" ELSE r.at
           lines == IF r.at = "in" /\ line \notin Headers THEN Append(r.lines, line) ELSE r.lines
<1>1. r.lines \in Seq(Kinds) /\ r.at \in {"before", "in", "after"}
  BY IsReading
<1>2. at \in {"before", "in", "after"} /\ lines \in Seq(Kinds)
  BY <1>1, AppendProperties
<1>3. ReadLine[line][r] = Read(at, lines)
  BY ReadLineIs
<1> HIDE DEF at, lines
<1>4. Read(at, lines) \in Readings /\ Read(at, lines).at = at /\ Read(at, lines).lines = lines
  BY <1>2, InReadings
<1> QED BY <1>3, <1>4 DEF Turned, at, lines

LEMMA ReadLineIn == ReadLine \in Bodies(Readings, Kinds)
<1>1. \A line \in Kinds : \A r \in Readings : ReadLine[line][r] \in Readings
  BY ReadLineDoes
<1>2. ReadLine = [line \in Kinds |-> [r \in Readings |-> ReadLine[line][r]]]
  BY Zenon DEF ReadLine
<1> QED BY <1>1, <1>2 DEF Bodies

LEMMA UnreadIn == Unread \in Readings /\ Unread.at = "before" /\ Unread.lines = <<>>
<1>1. <<>> \in Seq(Kinds)
  BY EmptySeq
<1> QED BY <1>1, InReadings DEF Unread

LEMMA ReadingIs ==
  /\ Reading(<<>>) = Unread
  /\ \A text \in Seq(Kinds) :
       /\ Reading(text) \in Readings
       /\ \A line \in Kinds : Turned(Reading(text), Reading(Append(text, line)), line)
<1>1. Reading(<<>>) = Unread
  BY ReadLineIn, UnreadIn, LoopStart DEF Reading
<1>2. ASSUME NEW text \in Seq(Kinds) PROVE Reading(text) \in Readings
  BY ReadLineIn, UnreadIn, LoopIn DEF Reading
<1>3. ASSUME NEW text \in Seq(Kinds), NEW line \in Kinds
      PROVE  Turned(Reading(text), Reading(Append(text, line)), line)
  <2>1. OneMore(ReadLine, Unread, text, line)
    BY ReadLineIn, UnreadIn, LoopTurn
  <2>2. Reading(Append(text, line)) = ReadLine[line][Reading(text)]
    BY <2>1 DEF OneMore, Reading
  <2> QED BY <1>2, <2>2, ReadLineDoes
<1> QED BY <1>1, <1>2, <1>3

LEMMA FirstIs == \A text : FirstInterface(text) = Reading(text).lines
BY DEF FirstInterface, Reading, Unread, Read

\* Lines other than headers do not end an [Interface].
PlainReads(text, more) ==
  /\ Reading(text \o more).at = Reading(text).at
  /\ Reading(text \o more).lines =
       IF Reading(text).at = "in" THEN Reading(text).lines \o more ELSE Reading(text).lines

LEMMA PlainRead ==
  ASSUME NEW text \in Seq(Kinds), NEW more \in Seq(Kinds \ Headers)
  PROVE  PlainReads(text, more)
<1> DEFINE B == Kinds \ Headers
           P == {m \in Seq(B) : PlainReads(text, m)}
           r == Reading(text)
           lines == r.lines
<1>1. r \in Readings /\ lines \in Seq(Kinds)
  BY ReadingIs, IsReading
<1>2. <<>> \in P
  <2>1. text \o <<>> = text /\ lines \o <<>> = lines /\ <<>> \in Seq(B)
    <3> HIDE DEF lines
    <3> QED BY <1>1, ConcatEmptySeq, EmptySeq
  <2> QED BY <2>1 DEF PlainReads
<1>3. ASSUME NEW m \in Seq(B), NEW line \in B, m \in P PROVE Append(m, line) \in P
  <2> DEFINE u == text \o m
             v == Reading(u)
             new == Reading(Append(u, line))
  <2>1. m \in Seq(Kinds) /\ line \in Kinds /\ line \notin Headers /\ Append(m, line) \in Seq(B)
    BY SeqMonotonic, AppendProperties
  <2>2. u \in Seq(Kinds) /\ text \o Append(m, line) = Append(u, line)
    BY <2>1, ConcatProperties, AppendConcat
  <2>3. v.at = r.at /\ v.lines = IF r.at = "in" THEN lines \o m ELSE lines
    BY <1>3 DEF PlainReads
  <2>4. Turned(v, new, line)
    <3> HIDE DEF u
    <3> QED BY <2>1, <2>2, ReadingIs
  <2>5. lines \o Append(m, line) = Append(lines \o m, line)
    <3> HIDE DEF lines
    <3> QED BY <1>1, <2>1, AppendConcat
  <2> HIDE DEF v, new, r, lines
  <2>6. line # "[Interface]"
    BY <2>1, HeaderSet
  <2>7. new.at = r.at
    BY <2>1, <2>3, <2>4, <2>6 DEF Turned
  <2>8. new.lines = IF r.at = "in" THEN lines \o Append(m, line) ELSE lines
    <3>1. CASE r.at = "in"
      BY <2>1, <2>3, <2>4, <2>5, <3>1 DEF Turned
    <3>2. CASE r.at # "in"
      BY <2>1, <2>3, <2>4, <3>2 DEF Turned
    <3> QED BY <3>1, <3>2
  <2>9. PlainReads(text, Append(m, line))
    BY <2>2, <2>7, <2>8 DEF PlainReads, new, r, lines
  <2> QED BY <2>1, <2>9
<1>4. Seq(B) \subseteq P
  <2> HIDE DEF P
  <2> QED BY <1>2, <1>3, Growing
<1> QED BY <1>4

\* The lines of an [Interface] that awg-quick can use.
Good(reads, raw, lines) ==
  /\ H \subseteq As(reads, lines) /\ As(reads, lines) \cap Dropped = {}
  /\ \A h \in H : Times(reads, lines, h) <= IF h \in As(reads, raw) THEN Times(reads, raw, h) ELSE 1

\* What is known of them before it ends.
Begins(reads, raw, has, lines) ==
  /\ has = As(reads, lines) \cap H /\ As(reads, lines) \cap Dropped = {}
  /\ \A h \in H : Times(reads, lines, h) <= Times(reads, raw, h)

LEMMA BlanksApart ==
  ASSUME NEW reads, Reader(reads), NEW lines \in Seq(Kinds), NEW blanks \in Seq({"blank"})
  PROVE  /\ blanks \in Seq(Kinds)
         /\ As(reads, lines \o blanks) \cap (H \cup Dropped) = As(reads, lines) \cap (H \cup Dropped)
         /\ \A h \in H : Times(reads, lines \o blanks, h) = Times(reads, lines, h)
<1>1. "blank" \notin H \cup Dropped /\ {"blank"} \subseteq Kinds
  BY HookSet, HeaderSet
<1>2. blanks \in Seq(Kinds) /\ As(reads, blanks) \subseteq {"blank"}
  <2>1. blanks \in Seq(Kinds) /\ Range(blanks) \subseteq {"blank"}
    BY <1>1, SeqMonotonic, RangeEquality
  <2> QED BY <2>1 DEF As, Reader
<1>3. As(reads, lines \o blanks) = As(reads, lines) \cup As(reads, blanks)
  BY <1>2, AsConcat
<1>4. ASSUME NEW h \in H PROVE Times(reads, lines \o blanks, h) = Times(reads, lines, h)
  <2>1. Times(reads, lines \o blanks, h) = Times(reads, lines, h) + Times(reads, blanks, h)
    BY <1>2, TimesConcat
  <2>2. h \notin As(reads, blanks)
    BY <1>1, <1>2
  <2>3. Times(reads, blanks, h) = 0 /\ Times(reads, lines, h) \in Nat
    BY <1>2, <2>2, TimesNone, TimesIn
  <2> HIDE DEF Times
  <2> QED BY <2>1, <2>3
<1> QED BY <1>1, <1>2, <1>3, <1>4

LEMMA GoodBlanks ==
  ASSUME NEW reads, Reader(reads), NEW raw, NEW lines \in Seq(Kinds), NEW blanks \in Seq({"blank"})
  PROVE  Good(reads, raw, lines \o blanks) <=> Good(reads, raw, lines)
<1> DEFINE more == lines \o blanks
<1>1. /\ As(reads, more) \cap (H \cup Dropped) = As(reads, lines) \cap (H \cup Dropped)
      /\ \A h \in H : Times(reads, more, h) = Times(reads, lines, h)
  BY BlanksApart
<1> HIDE DEF more
<1>2. Good(reads, raw, more) <=> Good(reads, raw, lines)
  BY <1>1 DEF Good
<1> QED BY <1>2 DEF more

LEMMA EndGood ==
  ASSUME NEW reads, Reader(reads), NEW raw \in Seq(Kinds), NEW has \in SUBSET H, NEW lines \in Seq(Kinds), Begins(reads, raw, has, lines)
  PROVE  Good(reads, raw, lines \o Extras(has))
<1> DEFINE more == Extras(has)
           all == lines \o more
<1>1. more \in Seq(Kinds) /\ As(reads, more) = H \ has
      /\ \A h \in H : Times(reads, more, h) = IF h \in has THEN 0 ELSE 1
  BY ExtrasAre, ExtrasTimes
<1>2. has = As(reads, lines) \cap H /\ As(reads, lines) \cap Dropped = {} /\ H \cap Dropped = {}
      /\ \A h \in H : Times(reads, lines, h) <= Times(reads, raw, h)
  BY HookSet DEF Begins
<1> HIDE DEF more
<1>3. As(reads, all) = As(reads, lines) \cup As(reads, more)
  BY <1>1, AsConcat
<1>4. ASSUME NEW h \in H
      PROVE  Times(reads, all, h) <= IF h \in As(reads, raw) THEN Times(reads, raw, h) ELSE 1
  <2> DEFINE n == Times(reads, lines, h)
             k == Times(reads, more, h)
             m == Times(reads, raw, h)
  <2>1. Times(reads, all, h) = n + k
    BY <1>1, TimesConcat
  <2>2. n \in Nat /\ m \in Nat /\ (n = 0 <=> h \notin As(reads, lines)) /\ (m = 0 <=> h \notin As(reads, raw))
    BY TimesIn, TimesNone
  <2>3. n <= m /\ k = IF h \in has THEN 0 ELSE 1
    BY <1>1, <1>2
  <2>4. h \in has <=> n # 0
    BY <1>2, <2>2
  <2> DEFINE c == Times(reads, all, h)
  <2>5. c = n + k
    BY <2>1
  <2> HIDE DEF n, k, m, all, c
  <2>6. CASE n # 0
    <3>1. k = 0
      BY <2>3, <2>4, <2>6
    <3>2. c = n
      BY <2>2, <2>5, <3>1
    <3>3. m # 0
      BY <2>2, <2>3, <2>6
    <3>4. c <= m
      BY <2>3, <3>2
    <3>5. h \in As(reads, raw)
      BY <2>2, <3>3
    <3> QED BY <3>4, <3>5 DEF c, m
  <2>7. CASE n = 0
    <3>1. k = 1
      BY <2>3, <2>4, <2>7
    <3>2. c = 1
      BY <2>2, <2>5, <2>7, <3>1
    <3>3. m # 0 => 1 <= m
      BY <2>2
    <3>4. c <= IF h \in As(reads, raw) THEN m ELSE 1
      BY <2>2, <3>2, <3>3
    <3> QED BY <3>4 DEF c, m
  <2> QED BY <2>6, <2>7
<1>5. H \subseteq As(reads, all) /\ As(reads, all) \cap Dropped = {}
  <2> HIDE DEF all
  <2> QED BY <1>1, <1>2, <1>3
<1> HIDE DEF all
<1>6. Good(reads, raw, all)
  BY <1>4, <1>5 DEF Good
<1> QED BY <1>6 DEF all, more

LEMMA GoodMore ==
  ASSUME NEW reads, Reader(reads), NEW raw \in Seq(Kinds), NEW line \in Kinds, NEW lines, Good(reads, raw, lines),
         \A h \in H : Times(reads, lines, h) \in Nat
  PROVE  Good(reads, Append(raw, line), lines)
<1> DEFINE more == Append(raw, line)
<1>1. more \in Seq(Kinds) /\ As(reads, more) = As(reads, raw) \cup {reads[line]}
  BY AppendProperties, AsAppend
<1>2. ASSUME NEW h \in H
      PROVE  Times(reads, lines, h) <= IF h \in As(reads, more) THEN Times(reads, more, h) ELSE 1
  <2> DEFINE c == Times(reads, lines, h)
             m == Times(reads, raw, h)
             n == Times(reads, more, h)
  <2>1. n = IF reads[line] = h THEN m + 1 ELSE m
    BY TimesTurn
  <2>2. c \in Nat /\ m \in Nat /\ n \in Nat /\ (m = 0 <=> h \notin As(reads, raw)) /\ (n = 0 <=> h \notin As(reads, more))
    BY <1>1, TimesIn, TimesNone
  <2>3. c <= IF h \in As(reads, raw) THEN m ELSE 1
    BY DEF Good
  <2> HIDE DEF c, m, n, more
  <2>4. m <= n
    BY <2>1, <2>2
  <2>5. CASE h \in As(reads, raw)
    <3>1. h \in As(reads, more) /\ c <= n
      BY <1>1, <2>2, <2>3, <2>4, <2>5
    <3> QED BY <3>1 DEF c, n
  <2>6. CASE h \notin As(reads, raw)
    <3>1. c <= 1 /\ (n # 0 => 1 <= n)
      BY <2>2, <2>3, <2>6
    <3>2. h \in As(reads, more) => c <= n
      BY <2>2, <3>1
    <3> QED BY <3>1, <3>2 DEF c, n
  <2> QED BY <2>5, <2>6
<1>3. H \subseteq As(reads, lines) /\ As(reads, lines) \cap Dropped = {}
  BY DEF Good
<1> HIDE DEF more
<1>4. Good(reads, more, lines)
  BY <1>2, <1>3 DEF Good
<1> QED BY <1>4 DEF more

\* Where the reader is when the loop has come to s.
Follows(reads, raw, s, r) ==
  /\ r.at = IF s.done THEN "after" ELSE IF s.section = "[Interface]" THEN "in" ELSE "before"
  /\ "[Interface]" \in Range(raw) => r.at # "before"
  /\ r.at = "before" => r.lines = <<>> /\ s.has = {}
  /\ r.at = "in" => Begins(reads, raw, s.has, r.lines)
  /\ r.at = "after" => Good(reads, raw, r.lines)

\* What is known at the end of the first [Interface].
LEMMA ClosingReads ==
  ASSUME NEW reads, Reader(reads), NEW s \in Adaptations, NEW line \in Headers, NEW r \in Readings, NEW new \in Readings,
         r = Reading(s.out), r.at = "in", NEW raw \in Seq(Kinds), Begins(reads, raw, s.has, r.lines),
         new = Reading(Append(Spaced(s.out \o Extras(s.has)), line))
  PROVE  new.at = "after" /\ Good(reads, raw, new.lines)
<1> DEFINE out == s.out
           more == Extras(s.has)
           flushed == out \o more
           blanks == Spaces(flushed)
           spaced == Spaced(flushed)
           lines == r.lines
           u == Reading(flushed)
           v == Reading(spaced)
<1>1. out \in Seq(Kinds) /\ s.has \in SUBSET H /\ lines \in Seq(Kinds) /\ line \in Kinds
  BY IsReading, HeaderSet DEF Adaptations, H
<1>2. more \in Seq(Kinds) /\ more \in Seq(Kinds \ Headers)
  <2>1. more \in Seq(H \ s.has) /\ more \in Seq(Kinds)
    BY <1>1, ExtrasAre
  <2>2. H \ s.has \subseteq Kinds \ Headers
    BY HookSet
  <2> HIDE DEF more
  <2> QED BY <2>1, <2>2, SeqMonotonic
<1>3. Good(reads, raw, lines \o more)
  <2> HIDE DEF lines
  <2> QED BY <1>1, EndGood DEF lines
<1> HIDE DEF more, out
<1>4. flushed \in Seq(Kinds) /\ lines \o more \in Seq(Kinds)
  <2> HIDE DEF lines
  <2> QED BY <1>1, <1>2, ConcatProperties
<1>5. u.at = "in" /\ u.lines = lines \o more
  <2>1. PlainReads(out, more)
    BY <1>1, <1>2, PlainRead
  <2>2. Reading(out) = r
    BY DEF out
  <2> QED BY <2>1, <2>2 DEF PlainReads
<1>6. blanks \in Seq({"blank"}) /\ blanks \in Seq(Kinds \ Headers) /\ spaced = flushed \o blanks /\ spaced \in Seq(Kinds)
  <2> HIDE DEF flushed
  <2>1. blanks \in Seq({"blank"}) /\ spaced = flushed \o blanks /\ spaced \in Seq(Kinds)
    BY <1>4, SpacedIs
  <2>2. {"blank"} \subseteq Kinds \ Headers
    BY HeaderSet
  <2> HIDE DEF blanks
  <2> QED BY <2>1, <2>2, SeqMonotonic
<1>7. v.at = "in" /\ v.lines = (lines \o more) \o blanks
  <2> HIDE DEF flushed, blanks, spaced
  <2>1. PlainReads(flushed, blanks)
    BY <1>4, <1>6, PlainRead
  <2> QED BY <1>5, <1>6, <2>1 DEF PlainReads
<1>8. Good(reads, raw, (lines \o more) \o blanks)
  <2> DEFINE all == lines \o more
  <2> HIDE DEF all, blanks
  <2>1. Good(reads, raw, all) /\ all \in Seq(Kinds)
    BY <1>3, <1>4 DEF all
  <2>2. Good(reads, raw, all \o blanks)
    BY <1>6, <2>1, GoodBlanks
  <2> QED BY <2>2 DEF all
<1>9. Turned(v, new, line)
  <2>1. new = Reading(Append(spaced, line))
    BY DEF out, more
  <2> HIDE DEF spaced
  <2> QED BY <1>1, <1>6, <2>1, ReadingIs
<1> HIDE DEF v
<1>10. new.at = "after" /\ new.lines = v.lines
  <2>1. v.at # "before"
    BY <1>7
  <2> QED BY <1>7, <1>9, <2>1 DEF Turned
<1> QED BY <1>7, <1>8, <1>10

LEMMA FollowsMore ==
  ASSUME NEW reads, Reader(reads), NEW raw \in Seq(Kinds), NEW line \in Kinds,
         Follows(reads, raw, Adapting(reads, raw), Reading(Adapting(reads, raw).out))
  PROVE  Follows(reads, Append(raw, line), Adapting(reads, Append(raw, line)), Reading(Adapting(reads, Append(raw, line)).out))
<1> DEFINE s == Adapting(reads, raw)
           more == Append(raw, line)
           new == Adapting(reads, more)
           r == Reading(s.out)
           q == Reading(new.out)
<1>1. /\ s \in Adaptations /\ new \in Adaptations
      /\ Closes(s, new, line) \/ Keeps(reads, s, new, line) \/ Drops(reads, s, new, line)
  BY AdaptingDoes
<1>2. more \in Seq(Kinds) /\ Range(more) = Range(raw) \cup {line}
  BY AppendProperties, RangeAppend
<1>3. s.out \in Seq(Kinds) /\ new.out \in Seq(Kinds) /\ s.has \in SUBSET H
      /\ s.section \in Headers \cup {"none"} /\ s.done \in BOOLEAN
  BY <1>1 DEF Adaptations, H
<1>4. r \in Readings /\ q \in Readings
  BY <1>3, ReadingIs
<1>5. r.lines \in Seq(Kinds)
  BY <1>4, IsReading
<1>6. Follows(reads, raw, s, r)
  OBVIOUS
<1> SUFFICES Follows(reads, more, new, q)
  OBVIOUS
<1>7. Good(reads, raw, r.lines) => Good(reads, more, r.lines)
  <2> DEFINE lines == r.lines
  <2> HIDE DEF r
  <2>1. lines \in Seq(Kinds)
    BY <1>5
  <2> HIDE DEF lines
  <2>2. \A h \in H : Times(reads, lines, h) \in Nat
    BY <2>1, TimesIn
  <2>3. Good(reads, raw, lines) => Good(reads, more, lines)
    BY <2>2, GoodMore
  <2> QED BY <2>3 DEF lines
<1>8. \A h \in H : /\ Times(reads, more, h) = IF reads[line] = h THEN Times(reads, raw, h) + 1 ELSE Times(reads, raw, h)
                   /\ Times(reads, raw, h) \in Nat
  <2> TAKE h \in H
  <2>1. Times(reads, Append(raw, line), h) = IF reads[line] = h THEN Times(reads, raw, h) + 1 ELSE Times(reads, raw, h)
    BY TimesTurn
  <2>2. Times(reads, raw, h) \in Nat
    BY TimesIn
  <2> QED BY <2>1, <2>2
<1> HIDE DEF s, new, r, q, more
<1>9. CASE Closes(s, new, line)
  <2>1. line \in Headers /\ s.section = "[Interface]" /\ ~s.done /\ new.done = TRUE
        /\ new.out = Append(Spaced(s.out \o Extras(s.has)), line)
    BY <1>9 DEF Closes, Open
  <2>2. r.at = "in" /\ Begins(reads, raw, s.has, r.lines)
    BY <1>6, <2>1 DEF Follows
  <2>3. r = Reading(s.out) /\ q = Reading(Append(Spaced(s.out \o Extras(s.has)), line))
    BY <2>1 DEF r, q
  <2>4. q.at = "after" /\ Good(reads, raw, q.lines)
    BY <1>1, <1>4, <2>1, <2>2, <2>3, ClosingReads
  <2>5. Good(reads, more, q.lines)
    <3> DEFINE lines == q.lines
    <3>1. lines \in Seq(Kinds)
      BY <1>4, IsReading
    <3> HIDE DEF lines
    <3>2. \A h \in H : Times(reads, lines, h) \in Nat
      BY <3>1, TimesIn
    <3>3. Good(reads, raw, lines)
      BY <2>4 DEF lines
    <3>4. Good(reads, more, lines)
      BY <3>2, <3>3, GoodMore DEF more
    <3> QED BY <3>4 DEF lines
  <2> QED BY <2>1, <2>4, <2>5 DEF Follows
<1>10. CASE Keeps(reads, s, new, line)
  <2>1. Turned(r, q, line)
    <3> DEFINE out == s.out
    <3>1. out \in Seq(Kinds) /\ new.out = Append(out, line) /\ r = Reading(out)
      BY <1>3, <1>10 DEF Keeps, r
    <3> HIDE DEF out
    <3>2. Turned(Reading(out), Reading(Append(out, line)), line)
      BY <3>1, ReadingIs
    <3> QED BY <3>1, <3>2 DEF q
  <2>2. CASE r.at = "after"
    <3>1. s.done
      BY <1>6, <2>2 DEF Follows
    <3>2. new.done /\ q.at = "after" /\ q.lines = r.lines
      BY <1>10, <2>1, <2>2, <3>1 DEF Keeps, Turned
    <3>3. Good(reads, more, q.lines)
      BY <1>6, <1>7, <2>2, <3>2 DEF Follows
    <3> QED BY <3>2, <3>3 DEF Follows
  <2>3. CASE r.at = "in"
    <3>1. ~s.done /\ s.section = "[Interface]"
      BY <1>6, <2>3 DEF Follows
    <3>2. line \notin Headers /\ reads[line] \notin Dropped
      BY <1>10, <3>1 DEF Keeps, Open
    <3>3. ~new.done /\ new.section = "[Interface]" /\ new.has = s.has \cup ({reads[line]} \cap H)
      BY <1>10, <3>1, <3>2 DEF Keeps
    <3>4. q.at = "in" /\ q.lines = Append(r.lines, line)
      BY <2>1, <2>3, <3>2 DEF Turned
    <3>5. Begins(reads, more, new.has, q.lines)
      <4> DEFINE lines == r.lines
                 grown == Append(lines, line)
      <4>1. lines \in Seq(Kinds) /\ q.lines = grown /\ Begins(reads, raw, s.has, lines)
        BY <1>5, <1>6, <2>3, <3>4 DEF Follows
      <4> HIDE DEF lines
      <4>2. As(reads, grown) = As(reads, lines) \cup {reads[line]}
        BY <4>1, AsAppend
      <4>3. ASSUME NEW h \in H PROVE Times(reads, grown, h) <= Times(reads, more, h)
        <5> DEFINE c == Times(reads, lines, h)
                   m == Times(reads, raw, h)
                   n == Times(reads, more, h)
                   d == Times(reads, grown, h)
        <5>1. d = IF reads[line] = h THEN c + 1 ELSE c
          BY <4>1, TimesTurn
        <5>2. c \in Nat /\ c <= m /\ m \in Nat /\ n = IF reads[line] = h THEN m + 1 ELSE m
          BY <1>8, <4>1, TimesIn DEF Begins
        <5> HIDE DEF c, m, n, d
        <5>3. d <= n
          <6>1. CASE line = h
            BY <5>1, <5>2, <6>1
          <6>2. CASE line # h
            BY <5>1, <5>2, <6>2
          <6> QED BY <6>1, <6>2
        <5> QED BY <5>3 DEF d, n
      <4> HIDE DEF grown
      <4>4. new.has = As(reads, grown) \cap H /\ As(reads, grown) \cap Dropped = {}
        BY <3>2, <3>3, <4>1, <4>2 DEF Begins
      <4> QED BY <4>1, <4>3, <4>4 DEF Begins
    <3> QED BY <3>3, <3>4, <3>5 DEF Follows
  <2>4. CASE r.at = "before"
    <3>1. ~s.done /\ s.section # "[Interface]" /\ r.lines = <<>> /\ s.has = {} /\ "[Interface]" \notin Range(raw)
      <4>1. "before" # "after" /\ "before" # "in"
        OBVIOUS
      <4> QED BY <1>6, <2>4, <4>1 DEF Follows
    <3>2. ~new.done /\ new.has = {} /\ new.section = IF line \in Headers THEN line ELSE s.section
      BY <1>10, <3>1 DEF Keeps
    <3>3. q.lines = <<>> /\ q.at = IF line = "[Interface]" THEN "in" ELSE "before"
      BY <2>1, <2>4, <3>1 DEF Turned
    <3>4. CASE line = "[Interface]"
      <4>1. new.section = "[Interface]" /\ q.at = "in"
        BY <3>2, <3>3, <3>4, HeaderSet
      <4>2. Begins(reads, more, {}, <<>>)
        <5>1. As(reads, <<>>) = {}
          BY AsEmpty
        <5>2. ASSUME NEW h \in H PROVE Times(reads, <<>>, h) <= Times(reads, more, h)
          <6>1. Times(reads, <<>>, h) = 0 /\ Times(reads, more, h) \in Nat
            BY <1>2, TimesStart, TimesIn
          <6> HIDE DEF Times
          <6> QED BY <6>1
        <5> QED BY <5>1, <5>2 DEF Begins
      <4> QED BY <3>2, <3>3, <4>1, <4>2 DEF Follows
    <3>5. CASE line # "[Interface]"
      <4>1. new.section # "[Interface]" /\ q.at = "before" /\ "[Interface]" \notin Range(more)
        BY <1>2, <3>1, <3>2, <3>3, <3>5
      <4> QED BY <3>2, <3>3, <4>1 DEF Follows
    <3> QED BY <3>4, <3>5
  <2> QED BY <1>4, <2>2, <2>3, <2>4 DEF Readings
<1>11. CASE Drops(reads, s, new, line)
  <2>1. reads[line] \in Dropped /\ new = s /\ q = r /\ s.section = "[Interface]"
    BY <1>11 DEF Drops, q, r
  <2>2. line # "[Interface]" /\ reads[line] \notin H /\ r.at # "before"
    <3>1. "after" # "before" /\ "in" # "before"
      OBVIOUS
    <3>2. reads["[Interface]"] = "[Interface]"
      BY HeaderSet DEF Reader
    <3> QED BY <1>6, <2>1, <3>1, <3>2, HookSet, HeaderSet DEF Follows
  <2>3. r.at = "in" => Begins(reads, more, s.has, r.lines)
    <3> SUFFICES ASSUME r.at = "in" PROVE Begins(reads, more, s.has, r.lines)
      OBVIOUS
    <3>1. Begins(reads, raw, s.has, r.lines)
      BY <1>6 DEF Follows
    <3>2. \A h \in H : Times(reads, more, h) = Times(reads, raw, h)
      BY <1>8, <2>2
    <3> QED BY <3>1, <3>2 DEF Begins
  <2>4. r.at = "after" => Good(reads, more, r.lines)
    BY <1>6, <1>7 DEF Follows
  <2> QED BY <1>6, <2>1, <2>2, <2>3, <2>4 DEF Follows
<1> QED BY <1>1, <1>9, <1>10, <1>11

LEMMA AlwaysFollows ==
  ASSUME NEW reads, Reader(reads), NEW raw \in Seq(Kinds)
  PROVE  Follows(reads, raw, Adapting(reads, raw), Reading(Adapting(reads, raw).out))
<1> DEFINE P == {t \in Seq(Kinds) : Follows(reads, t, Adapting(reads, t), Reading(Adapting(reads, t).out))}
<1>1. <<>> \in P
  <2>1. /\ Begun.out = <<>> /\ Begun.section = "none" /\ Begun.has = {} /\ Begun.done = FALSE
        /\ <<>> \in Seq(Kinds)
    BY EmptySeq DEF Begun
  <2>2. Adapting(reads, <<>>) = Begun /\ Reading(<<>>) = Unread /\ Unread.at = "before" /\ Unread.lines = <<>>
    BY AdaptingIs, ReadingIs, UnreadIn
  <2>3. "[Interface]" \notin Range(<<>>)
    BY RangeEmpty
  <2>4. Follows(reads, <<>>, Begun, Unread)
    BY <2>1, <2>2, <2>3 DEF Follows
  <2> QED BY <2>1, <2>2, <2>4
<1>2. ASSUME NEW t \in Seq(Kinds), NEW line \in Kinds, t \in P PROVE Append(t, line) \in P
  BY <1>2, FollowsMore, AppendProperties
<1>3. Seq(Kinds) \subseteq P
  <2> HIDE DEF P
  <2> QED BY <1>1, <1>2, Growing
<1> QED BY <1>3

\* Headers and keys stay, in their order.
Same(reads) == {line \in Kinds : reads[line] \in Headers \cup {"key"}}

LEMMA NotOthers ==
  ASSUME NEW reads, Reader(reads), NEW more \in Seq(H \cup {"blank"})
  PROVE  more \in Seq(Kinds) /\ Only(Kinds, more, Same(reads)) = <<>>
<1>1. H \cup {"blank"} \subseteq Kinds \ Same(reads) /\ H \cup {"blank"} \subseteq Kinds
  BY HookSet, HeaderSet DEF Same, Reader
<1>2. more \in Seq(Kinds) /\ more \in Seq(Kinds \ Same(reads))
  BY <1>1, SeqMonotonic
<1> QED BY <1>2, OnlyNone

LEMMA SameConcat ==
  ASSUME NEW reads, Reader(reads), NEW text \in Seq(Kinds), NEW more \in Seq(H \cup {"blank"})
  PROVE  Only(Kinds, text \o more, Same(reads)) = Only(Kinds, text, Same(reads))
<1> DEFINE found == Only(Kinds, text, Same(reads))
<1>1. more \in Seq(Kinds) /\ Only(Kinds, more, Same(reads)) = <<>>
  BY NotOthers
<1>2. Only(Kinds, text \o more, Same(reads)) = found \o Only(Kinds, more, Same(reads))
  BY <1>1, OnlyConcat
<1>3. found \in Seq(Kinds)
  BY OnlyLines
<1> HIDE DEF found
<1>4. found \o <<>> = found
  BY <1>3, ConcatEmptySeq
<1> QED BY <1>1, <1>2, <1>4 DEF found

LEMMA ExtrasApart ==
  ASSUME NEW s \in Adaptations
  PROVE  s.out \in Seq(Kinds) /\ Extras(s.has) \in Seq(H \cup {"blank"}) /\ Extras(s.has) \in Seq(Kinds \ Headers)
<1> DEFINE more == Extras(s.has)
<1>1. s.has \in SUBSET H /\ s.out \in Seq(Kinds)
  BY DEF Adaptations, H
<1>2. more \in Seq(H \ s.has)
  BY <1>1, ExtrasAre
<1>3. H \ s.has \subseteq H \cup {"blank"} /\ H \ s.has \subseteq Kinds \ Headers
  BY HookSet
<1> HIDE DEF more
<1>4. more \in Seq(H \cup {"blank"}) /\ more \in Seq(Kinds \ Headers)
  BY <1>2, <1>3, SeqMonotonic
<1> QED BY <1>1, <1>4 DEF more

SameOthers(reads, raw, text) == Only(Kinds, text, Same(reads)) = Only(Kinds, raw, Same(reads))

LEMMA AdaptingSame == ASSUME NEW reads, Reader(reads), NEW raw \in Seq(Kinds) PROVE SameOthers(reads, raw, Adapting(reads, raw).out)
<1> DEFINE P == {t \in Seq(Kinds) : SameOthers(reads, t, Adapting(reads, t).out)}
<1>1. <<>> \in P
  <2>1. Begun.out = <<>> /\ <<>> \in Seq(Kinds)
    BY EmptySeq DEF Begun
  <2> QED BY <2>1, AdaptingIs DEF SameOthers
<1>2. ASSUME NEW t \in Seq(Kinds), NEW line \in Kinds, t \in P PROVE Append(t, line) \in P
  <2> DEFINE s == Adapting(reads, t)
             more == Append(t, line)
             new == Adapting(reads, more)
             out == s.out
             found == Only(Kinds, t, Same(reads))
  <2>1. /\ s \in Adaptations /\ new \in Adaptations
        /\ Closes(s, new, line) \/ Keeps(reads, s, new, line) \/ Drops(reads, s, new, line)
    BY AdaptingDoes
  <2>2. more \in Seq(Kinds) /\ Only(Kinds, more, Same(reads)) = IF line \in Same(reads) THEN Append(found, line) ELSE found
    BY AppendProperties, OnlyTurn
  <2>3. out \in Seq(Kinds) /\ Only(Kinds, out, Same(reads)) = found
    BY <1>2, <2>1 DEF SameOthers, Adaptations
  <2>4. Only(Kinds, new.out, Same(reads)) = IF line \in Same(reads) THEN Append(found, line) ELSE found
    <3> HIDE DEF s, new, more, found
    <3>1. CASE Keeps(reads, s, new, line)
      <4>1. new.out = Append(out, line)
        BY <3>1 DEF Keeps
      <4> HIDE DEF out
      <4>2. Only(Kinds, Append(out, line), Same(reads)) = IF line \in Same(reads) THEN Append(Only(Kinds, out, Same(reads)), line) ELSE Only(Kinds, out, Same(reads))
        BY <2>3, OnlyTurn
      <4>3. CASE line \in Same(reads)
        BY <2>3, <4>1, <4>2, <4>3
      <4>4. CASE line \notin Same(reads)
        BY <2>3, <4>1, <4>2, <4>4
      <4> QED BY <4>3, <4>4
    <3>2. CASE Closes(s, new, line)
      <4> DEFINE extras == Extras(s.has)
                 flushed == out \o extras
                 blanks == Spaces(flushed)
                 spaced == Spaced(flushed)
      <4>1. line \in Headers /\ new.out = Append(spaced, line)
        BY <3>2 DEF Closes
      <4>2. extras \in Seq(H \cup {"blank"}) /\ flushed \in Seq(Kinds)
        BY <2>1, ExtrasApart, SpacedIn
      <4> HIDE DEF out, extras
      <4>3. Only(Kinds, flushed, Same(reads)) = found
        BY <2>3, <4>2, SameConcat
      <4> HIDE DEF flushed
      <4>4. blanks \in Seq({"blank"}) /\ spaced = flushed \o blanks /\ spaced \in Seq(Kinds)
        BY <4>2, SpacedIs
      <4> HIDE DEF blanks, spaced
      <4>5. blanks \in Seq(H \cup {"blank"})
        <5>1. {"blank"} \subseteq H \cup {"blank"}
          OBVIOUS
        <5> QED BY <4>4, <5>1, SeqMonotonic
      <4>6. Only(Kinds, spaced, Same(reads)) = found
        BY <4>2, <4>3, <4>4, <4>5, SameConcat
      <4>7. line \in Same(reads)
        BY <4>1, HeaderSet DEF Same, Reader
      <4>8. Only(Kinds, Append(spaced, line), Same(reads)) = Append(Only(Kinds, spaced, Same(reads)), line)
        BY <4>4, <4>7, OnlyTurn
      <4> QED BY <4>1, <4>6, <4>7, <4>8
    <3>3. CASE Drops(reads, s, new, line)
      <4>1. new = s /\ reads[line] \in Dropped
        BY <3>3 DEF Drops
      <4>2. line \notin Same(reads)
        BY <4>1, HeaderSet DEF Same, Dropped
      <4> QED BY <2>3, <4>1, <4>2
    <3> QED BY <2>1, <3>1, <3>2, <3>3
  <2>5. SameOthers(reads, more, new.out)
    <3> HIDE DEF new, more, found
    <3> QED BY <2>2, <2>4 DEF SameOthers
  <2> QED BY <2>2, <2>5
<1>3. Seq(Kinds) \subseteq P
  <2> HIDE DEF P
  <2> QED BY <1>1, <1>2, Growing
<1> QED BY <1>3

LEMMA FinishFits ==
  ASSUME NEW reads, Reader(reads), NEW raw \in Seq(Kinds), NEW fin, fin = Finished(Adapting(reads, raw))
  PROVE  /\ fin \in Seq(Kinds) /\ SameOthers(reads, raw, fin)
         /\ \/ Good(reads, raw, Reading(fin).lines)
            \/ Reading(fin).at = "before" /\ Reading(fin).lines = <<>> /\ "[Interface]" \notin Range(raw)
<1> DEFINE s == Adapting(reads, raw)
           out == s.out
           more == Extras(s.has)
           r == Reading(out)
           lines == r.lines
<1>1. s \in Adaptations /\ fin \in Seq(Kinds) /\ s.has \in SUBSET H
  BY AdaptingIs, FinishedIn DEF Adaptations, H
<1>2. out \in Seq(Kinds) /\ more \in Seq(H \cup {"blank"}) /\ more \in Seq(Kinds \ Headers)
  <2> HIDE DEF s
  <2> QED BY <1>1, ExtrasApart
<1>3. SameOthers(reads, raw, out) /\ Follows(reads, raw, s, r)
  BY AdaptingSame, AlwaysFollows
<1>4. r \in Readings /\ lines \in Seq(Kinds)
  <2>1. r \in Readings
    <3> HIDE DEF out
    <3> QED BY <1>2, ReadingIs
  <2> HIDE DEF r
  <2> QED BY <2>1, IsReading
<1>5. fin = Finished(s)
  OBVIOUS
<1>6. CASE Open(s)
  <2>1. fin = out \o more
    BY <1>5, <1>6 DEF Finished
  <2>2. r.at = "in" /\ Begins(reads, raw, s.has, lines)
    <3> HIDE DEF s, r
    <3> QED BY <1>3, <1>6 DEF Follows, Open
  <2>3. Good(reads, raw, lines \o more)
    <3> HIDE DEF s, lines
    <3> QED BY <1>1, <1>4, <2>2, EndGood
  <2> HIDE DEF out, more
  <2>4. PlainReads(out, more)
    BY <1>2, PlainRead
  <2>5. Reading(fin).lines = lines \o more
    BY <2>1, <2>2, <2>4 DEF PlainReads
  <2>6. Only(Kinds, out \o more, Same(reads)) = Only(Kinds, out, Same(reads))
    BY <1>2, SameConcat
  <2> QED BY <1>1, <1>3, <2>1, <2>3, <2>5, <2>6 DEF SameOthers
<1>7. CASE ~Open(s)
  <2>1. fin = out
    BY <1>5, <1>7 DEF Finished
  <2>2. r.at # "in"
    <3>1. "in" # "after" /\ "in" # "before"
      OBVIOUS
    <3> HIDE DEF s, r
    <3> QED BY <1>3, <1>7, <3>1 DEF Follows, Open
  <2>3. r.at = "before" \/ r.at = "after"
    <3> HIDE DEF r
    <3> QED BY <1>4, <2>2 DEF Readings
  <2>4. Reading(fin) = r
    BY <2>1
  <2> HIDE DEF s, r
  <2> QED BY <1>1, <1>3, <2>1, <2>3, <2>4 DEF Follows
<1> QED BY <1>6, <1>7

LEMMA AllTextsUsable == AllUsable
<1>1. ASSUME NEW raw \in Texts PROVE Usable(raw, UploadAdapted(raw))
  <2> DEFINE reads == UploadReads
             fin == Finished(Adapting(reads, raw))
             text == Stripped(fin, "blank")
             top == Reading(text).lines
             end == Reading(fin)
  <2>0. Reader(reads)
    BY BothRead
  <2>1. raw \in Seq(Kinds)
    BY TextsLines
  <2>2. UploadAdapted(raw) = text
    BY <2>0, <2>1, AdaptedIs DEF UploadAdapted
  <2>3. /\ fin \in Seq(Kinds) /\ SameOthers(reads, raw, fin)
        /\ \/ Good(reads, raw, end.lines)
           \/ end.at = "before" /\ end.lines = <<>> /\ "[Interface]" \notin Range(raw)
    BY <2>0, <2>1, FinishFits
  <2> HIDE DEF fin, reads
  <2>4. PICK rest : text \in Seq(Kinds) /\ IsStripped(text, rest, fin, "blank")
    BY <2>3, HeaderSet, StrippedIs
  <2>5. rest \in Seq({"blank"}) /\ rest \in Seq(Kinds \ Headers) /\ fin = text \o rest
    <3>1. {"blank"} \subseteq Kinds \ Headers
      BY HeaderSet
    <3> QED BY <2>4, <3>1, SeqMonotonic DEF IsStripped
  <2>6. Only(Kinds, text, Same(reads)) = Only(Kinds, raw, Same(reads))
    <3>1. "blank" \in Kinds /\ "blank" \notin Same(reads)
      BY <2>0, HeaderSet DEF Same, Reader
    <3>2. Only(Kinds, text, Same(reads)) = Only(Kinds, fin, Same(reads))
      BY <2>3, <3>1, OnlyStripped
    <3> QED BY <2>3, <3>2 DEF SameOthers
  <2> HIDE DEF text
  <2>7. PlainReads(text, rest)
    BY <2>4, <2>5, PlainRead
  <2>8. top \in Seq(Kinds)
    BY <2>4, ReadingIs, IsReading
  <2>9. /\ Reading(text).at = end.at
        /\ end.lines = IF Reading(text).at = "in" THEN top \o rest ELSE top
    BY <2>5, <2>7 DEF PlainReads
  <2> HIDE DEF top, end
  <2>10. Good(reads, raw, top) \/ (top = <<>> /\ "[Interface]" \notin Range(raw))
    <3>1. Good(reads, raw, top \o rest) <=> Good(reads, raw, top)
      BY <2>0, <2>5, <2>8, GoodBlanks
    <3>2. "before" # "in"
      OBVIOUS
    <3>3. CASE Reading(text).at = "in"
      BY <2>3, <2>9, <3>1, <3>2, <3>3
    <3>4. CASE Reading(text).at # "in"
      BY <2>3, <2>9, <3>4
    <3> QED BY <3>3, <3>4
  <2>11. /\ "[Interface]" \in Range(raw) => H \subseteq As(reads, top)
         /\ As(reads, top) \cap Dropped = {}
         /\ \A h \in H : Times(reads, top, h) <= IF h \in As(reads, raw) THEN Times(reads, raw, h) ELSE 1
    <3>1. CASE Good(reads, raw, top)
      BY <3>1 DEF Good
    <3>2. CASE top = <<>> /\ "[Interface]" \notin Range(raw)
      <4>1. As(reads, <<>>) = {}
        BY AsEmpty
      <4>2. ASSUME NEW h \in H
            PROVE  Times(reads, <<>>, h) <= IF h \in As(reads, raw) THEN Times(reads, raw, h) ELSE 1
        <5>1. Times(reads, <<>>, h) = 0 /\ Times(reads, raw, h) \in Nat
          BY <2>1, TimesStart, TimesIn
        <5> HIDE DEF Times
        <5> QED BY <5>1
      <4> QED BY <3>2, <4>1, <4>2
    <3> QED BY <2>10, <3>1, <3>2
  <2>12. FirstInterface(text) = top
    BY FirstIs DEF top
  <2>13. Others(reads, text) = Others(reads, raw)
    BY <2>6 DEF Others, Same
  <2> HIDE DEF Times, Others, As
  <2>14. Usable(raw, text)
    BY <2>11, <2>12, <2>13, Zenon DEF Usable, H, reads
  <2> QED BY <2>2, <2>14
<1> QED BY <1>1 DEF AllUsable

\* UploadUsable, for texts of any number of lines: an upload writes what
\* awg-quick can use and would not itself change any more, the script does not
\* change what it has written, and neither does an upload where the two read
\* its lines alike (vpn.py:196-218, vpngw-adapt-amneziawg.py:69-90).
THEOREM TextsUsable == Spec => []UploadUsable
<1>1. UploadUsable
  BY AllTextsUsable, AllTextsSettled DEF UploadUsable
<1> QED BY <1>1, PTL
===============================================================================
