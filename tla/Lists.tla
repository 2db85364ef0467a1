------------------------------- MODULE Lists -------------------------------
(***************************************************************************)
(* Lists of domains and networks (api/services/file_manager.py and its     *)
(* routers), the scripts that put them in force, and the lock under which  *)
(* the API runs scripts (api/services/script_runner.py).  Handlers edit a  *)
(* file first and wait for the lock then; scripts read the files as they   *)
(* go.  The timer that downloads lists of ranges takes no lock, nor does   *)
(* whoever runs a setup or a teardown outside the API: the PostUp hook,    *)
(* the watcher, the launcher of XRay and the selector by fix-routes, and   *)
(* a restart of vpngw-routing, which is a teardown and a setup in a row.   *)
(*                                                                         *)
(* How the files' text is edited and read is in ListText.  Marks, rules    *)
(* and routes are the subject of RouteScripts.                             *)
(***************************************************************************)
EXTENDS Naturals, Functions, ListText

CONSTANTS
  Workers,   \* requests in flight
  Nobody,    \* holds the lock
  Hooks,     \* setups and teardowns that run outside the API
  Sorted,    \* the categories as their files are sorted
  Main,      \* the catch-all category
  Domains,
  Nets,      \* names of network files
  Cidrs,     \* what network files list
  Ranges,    \* what the sources of vpngw-update-iplists.sh list
  Absent,    \* no such file, no set
  Down,      \* dnsmasq does not run
  MaxCopies, MaxRequests, MaxFaults  \* bounds of a behaviour

Categories == Range(Sorted)

ASSUME NamesAssumption ==
  /\ Nobody \notin Workers
  /\ Main \in Categories
  /\ Categories \cap Nets = {}
ASSUME AbsentAssumption ==
  /\ \A list \in [Domains -> 0..MaxCopies] : list # Absent
  /\ \A set \in SUBSET (Cidrs \cup Ranges) : set # Absent
ASSUME BoundAssumption ==
  {MaxCopies, MaxRequests, MaxFaults} \subseteq Nat /\ MaxCopies > 0

VARIABLES
  cats,    \* config/domains/<category>.lst: the copies of each domain
  nets,    \* config/<name>-networks.lst
  conf,    \* /etc/dnsmasq.d/vpn-domains-<category>.conf; {} if there is none
  dns,     \* the domains dnsmasq was started with
  ipset,   \* ipset vpn_domains, without what dnsmasq resolves
  mode,    \* config/mode
  job,     \* what each request waits for or runs
  holder,  \* of the lock
  timer,   \* vpngw-update-iplists.sh: sources left, or Absent between two runs
  beside,  \* what each hook runs
  last,    \* history: how the latest update-domains, the latest setup under the
           \* lock ("torn" if a teardown came after its start) and the latest
           \* teardown ("beside" if a setup of the split mode was about to make
           \* the set) ended
  requests, faults

lists == <<cats, nets, mode>>
outside == <<timer, beside>>
counters == <<requests, faults>>
vars == <<lists, conf, dns, ipset, job, holder, outside, last, counters>>

\* A mode change is a teardown, "mode", a setup, "anew", and fix-routes if the
\* tunnel's interface is there.  As far as the lists go, fix-routes is a setup.
Setups == {"setup", "anew"}
Teardowns == {"teardown", "mode"}
Scripts == {"domains"} \cup Setups \cup Teardowns
Jobs ==
  [runs : Scripts \cup {"nothing"},
   at : {"idle", "wait", "wipe", "write", "set", "skip", "load", "restart", "destroy"},
   files : SUBSET Categories, todo : SUBSET (Categories \cup Nets)]
Results == {"ok", "failed", "torn", "beside", "running"}

Idle == [runs |-> "nothing", at |-> "idle", files |-> {}, todo |-> {}]
Waits(script, files) == [runs |-> script, at |-> "wait", files |-> files, todo |-> {}]

TypeOK ==
  /\ cats \in [Categories -> {Absent} \cup [Domains -> 0..MaxCopies]] /\ cats[Main] # Absent
  /\ nets \in [Nets -> {Absent} \cup SUBSET Cidrs]
  /\ conf \in [Categories -> SUBSET Domains]
  /\ dns \in {Down} \cup SUBSET Domains
  /\ ipset \in {Absent} \cup SUBSET (Cidrs \cup Ranges)
  /\ mode \in {"split", "other"}
  /\ job \in [Workers -> Jobs]
  /\ holder \in Workers \cup {Nobody}
  /\ \A w \in Workers : job[w].at \notin {"idle", "wait"} <=> w = holder
  /\ timer \in {Absent} \cup SUBSET Ranges
  /\ beside \in [Hooks -> Jobs]
  /\ last \in [{"domains", "setup", "teardown"} -> Results]
  /\ requests \in 0..MaxRequests /\ faults \in 0..MaxFaults

ListedIn(c) == IF cats[c] = Absent THEN {} ELSE {d \in Domains : cats[c][d] > 0}
Configured == UNION {conf[c] : c \in Categories}
Networks == UNION {nets[n] : n \in {m \in Nets : nets[m] # Absent}}

Request == requests < MaxRequests /\ requests' = requests + 1 /\ UNCHANGED faults
Fault == faults < MaxFaults /\ faults' = faults + 1 /\ UNCHANGED requests
Counted == UNCHANGED counters

---------------------------------------------------------------------------
(* Edits: a handler changes its file and queues for the lock in one step.  *)

Queue(w, script, files) ==
  /\ job[w] = Idle
  /\ job' = [job EXCEPT ![w] = Waits(script, files)]
  /\ UNCHANGED <<conf, dns, ipset, holder, outside, last>>

Content(c) == IF cats[c] = Absent THEN [d \in Domains |-> 0] ELSE cats[c]

\* A category other than main is created on demand, even if nothing new is
\* to be added to it; the request is then refused.  A domain named twice in a
\* request is added twice.
AddDomains(w, c, asked) ==
  /\ cats[c] # Absent \/ c # Main
  /\ Request
  /\ cats' = [cats EXCEPT ![c] = [d \in Domains |->
                IF d \in ListedIn(c) THEN Content(c)[d] ELSE asked[d]]]
  /\ IF \A d \in Domains : asked[d] > 0 => d \in ListedIn(c)
       THEN UNCHANGED <<conf, dns, ipset, job, holder, outside, last>>
       ELSE Queue(w, "domains", {c})
  /\ UNCHANGED <<nets, mode>>

\* One copy of each domain goes, from the first of these files that has it.
DeleteDomains(w, gone, from) ==
  LET has(c, d) == c \in from /\ d \in ListedIn(c)
      first(c, d) ==
        /\ has(c, d)
        /\ \A i, j \in DOMAIN Sorted : Sorted[j] = c /\ i < j => ~has(Sorted[i], d)
  IN  /\ gone = {} \/ \A c \in from : from = {c} => cats[c] # Absent
      /\ Request
      /\ cats' = [c \in Categories |->
           IF cats[c] = Absent THEN Absent
           ELSE [d \in Domains |-> IF d \in gone /\ first(c, d) THEN cats[c][d] - 1 ELSE cats[c][d]]]
      /\ Queue(w, "domains", from)
      /\ UNCHANGED <<nets, mode>>

ReplaceDomains(w, c, raw) ==
  /\ Request
  /\ cats' = [cats EXCEPT ![c] = raw]
  /\ Queue(w, "domains", {c})
  /\ UNCHANGED <<nets, mode>>

CreateNetwork(w, n, cidrs) ==
  /\ nets[n] = Absent
  /\ Request
  /\ nets' = [nets EXCEPT ![n] = cidrs]
  /\ Queue(w, "setup", {})
  /\ UNCHANGED <<cats, mode>>

AddCidrs(w, n, cidrs) ==
  /\ nets[n] # Absent /\ ~(cidrs \subseteq nets[n])
  /\ Request
  /\ nets' = [nets EXCEPT ![n] = @ \cup cidrs]
  /\ Queue(w, "setup", {})
  /\ UNCHANGED <<cats, mode>>

DeleteCidrs(w, n, cidrs) ==
  /\ nets[n] # Absent
  /\ Request
  /\ nets' = [nets EXCEPT ![n] = @ \ cidrs]
  /\ Queue(w, "setup", {})
  /\ UNCHANGED <<cats, mode>>

DeleteNetwork(w, n) ==
  /\ nets[n] # Absent
  /\ Request
  /\ nets' = [nets EXCEPT ![n] = Absent]
  /\ Queue(w, "setup", {})
  /\ UNCHANGED <<cats, mode>>

\* set_mode queues twice: for the teardown, then for the setup.
SetMode(w, m) ==
  /\ Request
  /\ mode' = m
  /\ Queue(w, "mode", {})
  /\ UNCHANGED <<cats, nets>>

\* POST /routing/setup and /routing/teardown
Call(w, script) ==
  /\ Request
  /\ Queue(w, script, {})
  /\ UNCHANGED lists

---------------------------------------------------------------------------
(* The lock, and how a script ends.                                        *)

\* A setup reads the mode as soon as it runs.
First(script) ==
  CASE script \in Setups    -> IF mode = "split" THEN "set" ELSE "skip"
    [] script \in Teardowns -> "destroy"
    [] OTHER                -> "wipe"

Begin(w) ==
  /\ job' = [job EXCEPT ![w].at = First(job[w].runs),
                        ![w].todo = IF job[w].runs = "domains" THEN Categories ELSE {}]
  /\ last' = IF job[w].runs \in Setups THEN [last EXCEPT !["setup"] = "running"] ELSE last

\* Mutant: nobody waits.
AcquireNoLock(w) ==
  /\ job[w].at = "wait"
  /\ holder' = w
  /\ Begin(w)
  /\ UNCHANGED <<lists, conf, dns, ipset, outside>> /\ Counted

Acquire(w) ==
  /\ job[w].at = "wait"
  /\ holder = Nobody /\ holder' = w
  /\ Begin(w)
  /\ UNCHANGED <<lists, conf, dns, ipset, outside>> /\ Counted

\* A mode change goes on however its teardown and its setup ended.
After(script) ==
  CASE script = "mode" -> {Waits("anew", {})}
    [] script = "anew" -> {Idle, Waits("setup", {})}
    [] OTHER           -> {Idle}

Noted(script, result) ==
  last' = CASE script = "domains"    -> [last EXCEPT !["domains"] = result]
            [] script \in Setups    -> [last EXCEPT !["setup"] = IF @ = "torn" THEN "torn" ELSE result]
            [] script \in Teardowns -> [last EXCEPT !["setup"] = "torn", !["teardown"] = result]

\* Mutant: a failure keeps the lock.
EndsOnSuccess(w, result) ==
  /\ holder' = IF result = "failed" THEN holder ELSE Nobody
  /\ \E next \in After(job[w].runs) : job' = [job EXCEPT ![w] = next]
  /\ Noted(job[w].runs, result)

Ends(w, result) ==
  /\ holder' = Nobody
  /\ \E next \in After(job[w].runs) : job' = [job EXCEPT ![w] = next]
  /\ Noted(job[w].runs, result)

Goes(w, at, todo) ==
  /\ job' = [job EXCEPT ![w].at = at, ![w].todo = todo]
  /\ UNCHANGED <<holder, last>>

\* A command fails under set -e, or the script is killed after 120 s.
Fail(w) ==
  /\ holder = w
  /\ Fault
  /\ Ends(w, "failed")
  /\ UNCHANGED <<lists, conf, dns, ipset, outside>>

\* The API dies with all that it runs or was about to run.
ApiDies ==
  /\ Fault
  /\ job' = [w \in Workers |-> Idle] /\ holder' = Nobody
  /\ last' = [s \in DOMAIN last |->
       IF \E w \in Workers : job[w].runs \in Scripts /\ (job[w].runs = "domains" <=> s = "domains")
       THEN "failed" ELSE last[s]]
  /\ UNCHANGED <<lists, conf, dns, ipset, outside>>

---------------------------------------------------------------------------
(* vpngw-update-domains.sh                                                 *)

\* All generated files are removed first, one by one.
Wipe(w) ==
  /\ job[w].at = "wipe"
  /\ \E c \in job[w].todo :
       /\ conf' = [conf EXCEPT ![c] = {}]
       /\ IF job[w].todo = {c}
            THEN Goes(w, "write", {x \in Categories : cats[x] # Absent})
            ELSE Goes(w, "wipe", job[w].todo \ {c})
  /\ UNCHANGED <<lists, dns, ipset, outside>> /\ Counted

Write(w) ==
  /\ job[w].at = "write"
  /\ \E c \in job[w].todo :
       /\ conf' = [conf EXCEPT ![c] = ListedIn(c)]
       /\ Goes(w, IF job[w].todo = {c} THEN "restart" ELSE "write", job[w].todo \ {c})
  /\ UNCHANGED <<lists, dns, ipset, outside>> /\ Counted

\* dnsmasq reads its configuration when it starts, or does not start.
Started(success) == dns' = IF success THEN Configured ELSE Down

\* Mutant: dnsmasq is told to go on.
RestartDnsmasqReload(w, success) ==
  /\ job[w].runs = "domains" /\ job[w].at = "restart"
  /\ Ends(w, "ok")
  /\ UNCHANGED <<lists, conf, dns, ipset, outside>> /\ Counted

\* Only a dnsmasq that runs is restarted.
RestartDnsmasq(w, success) ==
  /\ job[w].runs = "domains" /\ job[w].at = "restart"
  /\ IF dns = Down THEN Ends(w, "ok") /\ UNCHANGED dns
     ELSE Started(success) /\ Ends(w, IF success THEN "ok" ELSE "failed")
  /\ IF success THEN Counted ELSE Fault
  /\ UNCHANGED <<lists, conf, ipset, outside>>

\* POST /dns/flush, at any time and without the lock.
FlushDns(success) ==
  /\ Started(success)
  /\ IF success THEN Counted ELSE Fault
  /\ UNCHANGED <<lists, conf, ipset, job, holder, outside, last>>

---------------------------------------------------------------------------
(* vpngw-setup-routing.sh and vpngw-teardown-routing.sh, as far as the     *)
(* lists go.  A command refused because of a script beside this one fails  *)
(* as any command does: a set that was made meanwhile is not made again,   *)
(* one that a rule names is not destroyed.                                 *)

NetFiles == {n \in Nets : nets[n] # Absent}

Stage(files) == IF files = {} THEN "restart" ELSE "load"
Loads(w, files) == Goes(w, Stage(files), files)

Made == ipset' = IF ipset = Absent THEN {} ELSE ipset

\* A file that is gone by now is passed over, and so is a set.
Filled(n) == ipset' = IF ipset = Absent \/ nets[n] = Absent THEN ipset ELSE ipset \cup nets[n]

Destroyed == ipset' = Absent

\* The result of a teardown beside these.
Apart(others) == IF others = {} THEN "ok" ELSE "beside"
AboutToMake == {w \in Workers : job[w].at = "set"} \cup {h \in Hooks : beside[h].at = "set"}

\* Mutant: networks are loaded into a new set only.
MakeSetAtFirst(w) ==
  /\ job[w].at = "set"
  /\ Made
  /\ Loads(w, IF ipset = Absent THEN NetFiles ELSE {})
  /\ UNCHANGED <<lists, conf, dns, outside>> /\ Counted

MakeSet(w) ==
  /\ job[w].at = "set"
  /\ Made
  /\ Loads(w, NetFiles)
  /\ UNCHANGED <<lists, conf, dns, outside>> /\ Counted

\* The other modes need no set.
Skip(w) ==
  /\ job[w].at = "skip"
  /\ Ends(w, "ok")
  /\ UNCHANGED <<lists, conf, dns, ipset, outside>> /\ Counted

Load(w) ==
  /\ job[w].at = "load"
  /\ \E n \in job[w].todo : Filled(n) /\ Loads(w, job[w].todo \ {n})
  /\ UNCHANGED <<lists, conf, dns, outside>> /\ Counted

\* A dnsmasq that has failed is started, too.
Attach(w, success) ==
  /\ job[w].runs \in Setups /\ job[w].at = "restart"
  /\ Started(success) /\ Ends(w, IF success THEN "ok" ELSE "failed")
  /\ IF success THEN Counted ELSE Fault
  /\ UNCHANGED <<lists, conf, ipset, outside>>

\* Mutant: the set is kept for the next mode.
DestroyNothing(w) ==
  /\ job[w].at = "destroy"
  /\ Ends(w, Apart(AboutToMake))
  /\ UNCHANGED <<lists, conf, dns, ipset, outside>> /\ Counted

Destroy(w) ==
  /\ job[w].at = "destroy"
  /\ Destroyed
  /\ Ends(w, Apart(AboutToMake))
  /\ UNCHANGED <<lists, conf, dns, outside>> /\ Counted

---------------------------------------------------------------------------
(* The same scripts without the lock.                                      *)

HookStep(h, job2) ==
  /\ beside' = [beside EXCEPT ![h] = job2]
  /\ UNCHANGED <<lists, conf, job, holder, timer>>

HookStarts(h, script) ==
  /\ beside[h] = Idle
  /\ Request
  /\ HookStep(h, [Idle EXCEPT !.runs = script, !.at = First(script)])
  /\ UNCHANGED <<dns, ipset, last>>

HookLoads(h, files) == HookStep(h, [beside[h] EXCEPT !.at = Stage(files), !.todo = files])

HookMakesSet(h) ==
  /\ beside[h].at = "set"
  /\ Made
  /\ HookLoads(h, NetFiles)
  /\ UNCHANGED <<dns, last>> /\ Counted

HookLoadsFile(h) ==
  /\ beside[h].at = "load"
  /\ \E n \in beside[h].todo : Filled(n) /\ HookLoads(h, beside[h].todo \ {n})
  /\ UNCHANGED <<dns, last>> /\ Counted

HookAttaches(h, success) ==
  /\ beside[h].at = "restart"
  /\ Started(success)
  /\ HookStep(h, Idle)
  /\ IF success THEN Counted ELSE Fault
  /\ UNCHANGED <<ipset, last>>

HookDestroys(h) ==
  /\ beside[h].at = "destroy"
  /\ Destroyed
  /\ HookStep(h, Idle) /\ Noted("teardown", Apart(AboutToMake))
  /\ UNCHANGED dns /\ Counted

\* It ends, in a mode without a set, or fails.
HookEnds(h) ==
  /\ beside[h] # Idle
  /\ HookStep(h, Idle)
  /\ IF beside[h].at = "skip" THEN Counted ELSE Fault
  /\ UNCHANGED <<dns, ipset, last>>

Hook(h) ==
  \/ \E script \in {"setup", "teardown"} : HookStarts(h, script)
  \/ HookMakesSet(h) \/ HookLoadsFile(h) \/ HookDestroys(h) \/ HookEnds(h)
  \/ \E success \in BOOLEAN : HookAttaches(h, success)

---------------------------------------------------------------------------
(* vpngw-update-iplists.sh                                                 *)

\* Without a set there is nothing to do until the next time.
TimerFires ==
  /\ timer = Absent /\ ipset # Absent
  /\ timer' = Ranges
  /\ UNCHANGED <<lists, conf, dns, ipset, job, holder, beside, last>> /\ Counted

TimerGoes(left) ==
  timer' = (IF left = {} THEN Absent ELSE left)

\* Mutant: a range that is there already ends the script.
AddRangeStrict(r) ==
  /\ timer # Absent /\ r \in timer
  /\ ipset' = IF ipset = Absent THEN Absent ELSE ipset \cup {r}
  /\ TimerGoes(IF ipset # Absent /\ r \in ipset THEN {} ELSE timer \ {r})
  /\ UNCHANGED <<lists, conf, dns, job, holder, beside, last>> /\ Counted

\* The set is named when a range is added: it may be gone, or another one.
AddRange(r) ==
  /\ timer # Absent /\ r \in timer
  /\ ipset' = IF ipset = Absent THEN Absent ELSE ipset \cup {r}
  /\ TimerGoes(timer \ {r})
  /\ UNCHANGED <<lists, conf, dns, job, holder, beside, last>> /\ Counted

SkipRange(r) ==
  /\ timer # Absent /\ r \in timer
  /\ Fault
  /\ TimerGoes(timer \ {r})
  /\ UNCHANGED <<lists, conf, dns, ipset, job, holder, beside, last>>

---------------------------------------------------------------------------
\* install.sh has run update-domains and the gateway has come up.
Init ==
  /\ cats \in [Categories -> {Absent} \cup [Domains -> 0..1]] /\ cats[Main] # Absent
  /\ nets \in [Nets -> {Absent, Cidrs}]
  /\ mode \in {"split", "other"}
  /\ conf = [c \in Categories |-> ListedIn(c)]
  /\ dns = Configured
  /\ ipset = IF mode = "split" THEN Networks ELSE Absent
  /\ job = [w \in Workers |-> Idle] /\ holder = Nobody
  /\ timer = Absent /\ beside = [h \in Hooks |-> Idle]
  /\ last = [s \in {"domains", "setup", "teardown"} |-> "ok"]
  /\ requests = 0 /\ faults = 0

Edit(w) ==
  \/ \E c \in Categories, asked \in [Domains -> 0..MaxCopies] : AddDomains(w, c, asked)
  \/ \E ds \in SUBSET Domains, from \in {{c} : c \in Categories} \cup {Categories} :
       DeleteDomains(w, ds, from)
  \/ \E c \in Categories, raw \in [Domains -> 0..MaxCopies] : ReplaceDomains(w, c, raw)
  \/ \E n \in Nets, xs \in SUBSET Cidrs :
       CreateNetwork(w, n, xs) \/ AddCidrs(w, n, xs) \/ DeleteCidrs(w, n, xs)
  \/ \E n \in Nets : DeleteNetwork(w, n)
  \/ \E m \in {"split", "other"} : SetMode(w, m)
  \/ \E script \in {"setup", "teardown"} : Call(w, script)

Script(w) ==
  \/ Acquire(w) \/ Wipe(w) \/ Write(w) \/ MakeSet(w) \/ Skip(w) \/ Load(w) \/ Destroy(w)
  \/ \E success \in BOOLEAN : RestartDnsmasq(w, success) \/ Attach(w, success)

Iplists == TimerFires \/ \E r \in Ranges : AddRange(r)

Next ==
  \/ \E w \in Workers : Edit(w) \/ Script(w) \/ Fail(w)
  \/ \E h \in Hooks : Hook(h)
  \/ ApiDies \/ \E success \in BOOLEAN : FlushDns(success)
  \/ Iplists \/ \E r \in Ranges : SkipRange(r)

Spec == Init /\ [][Next]_vars

\* Scripts end, of themselves or by the limit of 120 s, and the timer fires.
FairSpec == Spec /\ WF_vars(\E w \in Workers : Script(w)) /\ WF_vars(Iplists)

---------------------------------------------------------------------------
(* Properties.                                                             *)

Busy(script) == holder # Nobody /\ job[holder].runs = script

\* Unless the latest run of update-domains failed or was cut short, what
\* dnsmasq is configured with differs from the lists only where an edit still
\* waits for the lock: files wiped by one run are written by the same run, and
\* an edit made during a run is followed by its own.
Regenerated ==
  last["domains"] = "ok" /\ ~Busy("domains") =>
    \A c \in Categories :
      conf[c] = ListedIn(c) \/ \E w \in Workers : c \in job[w].files

\* ... and a dnsmasq that runs has read all of it, whoever restarted it while
\* files were being wiped and written.
Served ==
  last["domains"] = "ok" /\ ~Busy("domains") => dns \in {Down, Configured}

\* Unless the latest setup under the lock failed or was torn down since it
\* began, in split mode every listed network is in the set as soon as no edit
\* or mode change is on its way, whatever setups run beside.
NetworksLoaded ==
  /\ last["setup"] = "ok" /\ mode = "split"
  /\ \A w \in Workers : job[w].runs \notin Setups \cup {"mode"}
  => ipset # Absent /\ Networks \subseteq ipset

\* ... and in the other modes there is no set for dnsmasq to fill, so that it
\* starts afresh with the next split mode, if no script failed and the latest
\* teardown did not pass a setup that had read the split mode and had not made
\* its set yet.  (One outside the lock may have: the set then outlives its mode.)
SetFollowsMode ==
  /\ faults = 0 /\ last["setup"] = "ok" /\ last["teardown"] = "ok"
  /\ \A w \in Workers : job[w] = Idle
  => (ipset # Absent <=> mode = "split")

\* Every request is answered, though all wait for one lock: whenever requests
\* pause, there comes a time when none is in flight.
Answered == []<>(\A w \in Workers : job[w] = Idle)

\* A mode change destroys the downloaded ranges together with the set; as long
\* as there is a set they come back.
RangesReturn == []<>(ipset = Absent \/ Ranges \subseteq ipset)

\* An edit of a category leaves a text of which update-domains and the API
\* read what was there before, less one copy of each domain deleted, and what
\* was added, in the group asked for; a network file that the API has made and
\* edited is read whole by setup, which drops a last line that no newline ends.
ListTextExact ==
  (\E w \in Workers : job[w].at = "wait") => GroupsWhole /\ AddExact /\ DeleteExact /\ NetworksWhole
=============================================================================
