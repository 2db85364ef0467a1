--------------------------- MODULE TunnelSelect ---------------------------
(***************************************************************************)
(* The external-tunnel selector: the file that names the chosen tunnel,    *)
(* the two systemd units (AmneziaWG and the XRay client) and the scripts   *)
(* that the API, systemd and the administrator run over them.  Nothing     *)
(* locks these scripts against each other: every command of a script is a  *)
(* step, and the commands of several scripts interleave.                   *)
(*                                                                         *)
(* Jobs of systemd on one unit are serialised by systemd itself.  Routes   *)
(* are the subject of module RouteScripts.                                 *)
(***************************************************************************)
EXTENDS Naturals, FiniteSets

CONSTANTS
  Workers,     \* processes started by API requests, one request each at a time
  Boot,        \* the process of vpngw-external-tunnel.service
  Configs,     \* XRay client configs in the library
  Bad,         \* those of them that do not render
  NoConfig,    \* configs/.active is missing or empty
  Requests,    \* the API requests that arrive
  OneAtATime,  \* TRUE: a request arrives only when no script is running
  MaxRequests, MaxExits, MaxStops, MaxKills  \* bounds of a behaviour

ASSUME ProcAssumption == Boot \notin Workers
ASSUME ConfigAssumption == Bad \subseteq Configs /\ NoConfig \notin Configs
ASSUME FlagAssumption == OneAtATime \in BOOLEAN
ASSUME BoundAssumption ==
  MaxRequests \in Nat /\ MaxExits \in Nat /\ MaxStops \in Nat /\ MaxKills \in Nat

Procs == Workers \cup {Boot}
Targets == {"amnezia", "xray", "none"}

\* Requests that run vpngw-select-external-tunnel.sh (or, where the choice is
\* another tunnel already, stop one unit).
SelectRequests ==
  {"vpn/start", "vpn/stop", "xray/enable", "xray/disable", "xray/activate"}

\* Requests that move the units without the selector script.
OtherRequests ==
  {"vpn/activate", "vpn/restart", "services/vpn/start", "services/xray/restart"}

ASSUME RequestAssumption == Requests \subseteq SelectRequests \cup OtherRequests

Jobs == Targets \cup {"switch", "restart", "startvpn", "startxray", "stopvpn", "stopxray"}

VARIABLES
  sel,      \* content of config/external-tunnel; "" while missing or empty
  active,   \* the XRay config named by xray-client/configs/.active
  vpn,      \* unit vpngw-vpn
  xray,     \* unit vpngw-xray-client; "restarting" is systemd's auto-restart
  runs,     \* the config that the unit rendered when it last started
  job, pc,  \* what each process runs, and its next command
  budget    \* what is left of the bounds

vars == <<sel, active, vpn, xray, runs, job, pc, budget>>

Commands ==
  {"idle", "mark", "decide", "has_active", "render", "start_xray", "wait_xray",
   "start_vpn", "wait_vpn", "trunc", "write", "stop_xray", "stop_vpn"}

\* Steps of an API handler, which no other handler interrupts.
HandlerSteps == {"mark", "decide"}

\* What happens a bounded number of times.
Bounded == {"requests", "exits", "stops", "kills"}

TypeOK ==
  /\ sel \in Targets \cup {""}
  /\ active \in Configs \cup {NoConfig}
  /\ vpn \in {"inactive", "starting", "active"}
  /\ xray \in {"inactive", "starting", "active", "restarting"}
  /\ runs \in Configs \cup {NoConfig}
  /\ job \in [Procs -> Jobs]
  /\ pc \in [Procs -> Commands]
  /\ budget \in [Bounded -> Nat]

AllIdle == \A p \in Procs : pc[p] = "idle"
Renders == active \notin Bad \cup {NoConfig}

Goto(p, c) == pc' = [pc EXCEPT ![p] = c]

Spend(kind) ==
  /\ budget[kind] > 0
  /\ budget' = [budget EXCEPT ![kind] = @ - 1]

\* The first command of each job.
Entry(j) ==
  CASE j \in {"amnezia", "startvpn"}         -> "start_vpn"
    [] j = "xray"                            -> "has_active"
    [] j \in {"none", "switch"}              -> "trunc"
    [] j \in {"restart", "stopvpn"}          -> "stop_vpn"
    [] j = "startxray"                       -> "start_xray"
    [] j = "stopxray"                        -> "stop_xray"

\* How the API reads the choice: anything unreadable counts as amnezia.
Choice == IF sel = "" THEN "amnezia" ELSE sel

---------------------------------------------------------------------------
(* Requests.  A handler decides what to run before it awaits anything.     *)

Launch(w, j) ==
  /\ job' = [job EXCEPT ![w] = j]
  /\ Goto(w, Entry(j))

\* The file is read here; the script it leads to runs later.
JobOf(r) ==
  CASE r = "vpn/start"             -> "amnezia"
    [] r = "vpn/stop"              -> IF Choice = "amnezia" THEN "none" ELSE "stopvpn"
    [] r = "vpn/activate"          -> "switch"
    [] r = "vpn/restart"           -> "restart"
    [] r = "xray/enable"           -> "xray"
    [] r = "xray/disable"          -> IF Choice = "xray" THEN "none" ELSE "stopxray"
    [] r = "services/vpn/start"    -> "startvpn"
    [] r = "services/xray/restart" -> "startxray"

MayArrive(w) ==
  /\ pc[w] = "idle" /\ pc[Boot] = "idle"
  /\ \A x \in Workers : pc[x] # "mark"
  /\ OneAtATime => AllIdle

Request(w, r) ==
  /\ MayArrive(w)
  /\ r \in Requests \ {"xray/activate"}
  /\ r = "xray/enable" => active # NoConfig
  /\ Spend("requests")
  /\ Launch(w, JobOf(r))
  /\ UNCHANGED <<sel, active, vpn, xray, runs>>

\* POST /xray-client/configs/{name}/activate: write_text truncates .active,
\* then writes the name ...
Activate(w) ==
  /\ MayArrive(w)
  /\ "xray/activate" \in Requests
  /\ Spend("requests")
  /\ active' = NoConfig
  /\ job' = [job EXCEPT ![w] = "xray"]
  /\ Goto(w, "mark")
  /\ UNCHANGED <<sel, vpn, xray, runs>>

Mark(w, c) ==
  /\ pc[w] = "mark"
  /\ active' = c
  /\ Goto(w, "decide")
  /\ UNCHANGED <<sel, vpn, xray, runs, job, budget>>

\* ... and only then the handler looks whether XRay is running or chosen.
Decide(w) ==
  /\ pc[w] = "decide"
  /\ Goto(w, IF xray = "active" \/ Choice = "xray" THEN "has_active" ELSE "idle")
  /\ UNCHANGED <<sel, active, vpn, xray, runs, job, budget>>

---------------------------------------------------------------------------
(* The commands of the scripts.  `set -e`: a failing command ends one.     *)

HasActive(p) ==
  /\ pc[p] = "has_active"
  /\ Goto(p, IF active = NoConfig THEN "idle" ELSE "render")
  /\ UNCHANGED <<sel, active, vpn, xray, runs, job, budget>>

RenderCheck(p) ==
  /\ pc[p] = "render"
  /\ Goto(p, IF Renders THEN "start_xray" ELSE "idle")
  /\ UNCHANGED <<sel, active, vpn, xray, runs, job, budget>>

\* Mutant: `systemctl start` also where XRay is active.
StartXrayNoRestart(p) ==
  /\ pc[p] = "start_xray"
  /\ Goto(p, "wait_xray")
  /\ xray' = "starting"
  /\ runs' = IF xray \in {"starting", "active"} THEN runs ELSE active
  /\ UNCHANGED <<sel, active, vpn, job, budget>>

\* ExecStartPre renders .active again.  A unit that is starting is not
\* is-active, so the selector starts it and gets the start in progress; the
\* restart of the services endpoint begins anew.
StartXray(p) ==
  /\ pc[p] = "start_xray"
  /\ Goto(p, "wait_xray")
  /\ xray' = "starting"
  /\ runs' = IF xray = "starting" /\ job[p] = "xray" THEN runs ELSE active
  /\ UNCHANGED <<sel, active, vpn, job, budget>>

AfterXrayUp(p) == IF job[p] = "xray" THEN "trunc" ELSE "idle"
AfterVpnUp(p) == IF job[p] = "amnezia" THEN "trunc" ELSE "idle"

StartVpn(p) ==
  /\ pc[p] = "start_vpn"
  /\ IF vpn = "active"
       THEN Goto(p, AfterVpnUp(p)) /\ UNCHANGED vpn
       ELSE Goto(p, "wait_vpn") /\ vpn' = "starting"
  /\ UNCHANGED <<sel, active, xray, runs, job, budget>>

\* printf > file truncates, then writes.
Truncate(p) ==
  /\ pc[p] = "trunc"
  /\ sel' = ""
  /\ Goto(p, "write")
  /\ UNCHANGED <<active, vpn, xray, runs, job, budget>>

WriteChoice(p) ==
  /\ pc[p] = "write"
  /\ sel' = IF job[p] = "switch" THEN "amnezia" ELSE job[p]
  /\ Goto(p, IF job[p] = "xray" THEN "stop_vpn" ELSE "stop_xray")
  /\ UNCHANGED <<active, vpn, xray, runs, job, budget>>

\* Mutant: a selection of none leaves Amnezia up.
StopXrayOnly(p) ==
  /\ pc[p] = "stop_xray"
  /\ xray' = "inactive"
  /\ pc' = [x \in Procs |->
              CASE x = p -> IF job[p] = "switch" THEN "stop_vpn" ELSE "idle"
                [] x # p /\ pc[x] = "wait_xray" -> "idle"
                [] OTHER -> pc[x]]
  /\ UNCHANGED <<sel, active, vpn, runs, job, budget>>

\* Mutant: the stop is skipped where the unit is not is-active.
StopXrayIfActive(p) ==
  /\ pc[p] = "stop_xray"
  /\ xray' = IF xray = "active" THEN "inactive" ELSE xray
  /\ Goto(p, IF job[p] \in {"none", "switch"} THEN "stop_vpn" ELSE "idle")
  /\ UNCHANGED <<sel, active, vpn, runs, job, budget>>

\* A stop cancels a start in progress; whoever waits for it sees it fail.
StopXray(p) ==
  /\ pc[p] = "stop_xray"
  /\ xray' = "inactive"
  /\ pc' = [x \in Procs |->
              CASE x = p -> IF job[p] \in {"none", "switch"} THEN "stop_vpn" ELSE "idle"
                [] x # p /\ pc[x] = "wait_xray" -> "idle"
                [] OTHER -> pc[x]]
  /\ UNCHANGED <<sel, active, vpn, runs, job, budget>>

StopVpn(p) ==
  /\ pc[p] = "stop_vpn"
  /\ vpn' = "inactive"
  /\ pc' = [x \in Procs |->
              CASE x = p -> IF job[p] \in {"switch", "restart"} THEN "start_vpn" ELSE "idle"
                [] x # p /\ pc[x] = "wait_vpn" -> "idle"
                [] OTHER -> pc[x]]
  /\ UNCHANGED <<sel, active, xray, runs, job, budget>>

Command(p) ==
  \/ Decide(p) \/ HasActive(p) \/ RenderCheck(p) \/ StartXray(p) \/ StartVpn(p)
  \/ Truncate(p) \/ WriteChoice(p) \/ StopXray(p) \/ StopVpn(p)

---------------------------------------------------------------------------
(* systemd and the environment.                                            *)

\* Mutant: whoever waits for a start that fails is not told.
VpnStartedQuietly(success) ==
  /\ vpn = "starting"
  /\ vpn' = IF success THEN "active" ELSE "inactive"
  /\ pc' = [x \in Procs |->
              IF pc[x] = "wait_vpn" /\ success THEN AfterVpnUp(x) ELSE pc[x]]
  /\ UNCHANGED <<sel, active, xray, runs, job, budget>>

\* Mutant: the selector goes on after a start that failed.
VpnStartedAnyway(success) ==
  /\ vpn = "starting"
  /\ vpn' = IF success THEN "active" ELSE "inactive"
  /\ pc' = [x \in Procs |-> IF pc[x] = "wait_vpn" THEN AfterVpnUp(x) ELSE pc[x]]
  /\ UNCHANGED <<sel, active, xray, runs, job, budget>>

\* awg-quick up ends; every systemctl start that waits gets the result.
VpnStarted(success) ==
  /\ vpn = "starting"
  /\ vpn' = IF success THEN "active" ELSE "inactive"
  /\ pc' = [x \in Procs |->
              IF pc[x] = "wait_vpn" THEN IF success THEN AfterVpnUp(x) ELSE "idle"
              ELSE pc[x]]
  /\ UNCHANGED <<sel, active, xray, runs, job, budget>>

\* ExecStartPre ends.  Type=simple: the unit is active as soon as the
\* launcher is forked.  A failed start is retried by systemd.
XrayStarted ==
  /\ xray = "starting"
  /\ LET success == runs \notin Bad \cup {NoConfig}
     IN  /\ xray' = IF success THEN "active" ELSE "restarting"
         /\ pc' = [x \in Procs |->
                     IF pc[x] = "wait_xray" THEN IF success THEN AfterXrayUp(x) ELSE "idle"
                     ELSE pc[x]]
  /\ UNCHANGED <<sel, active, vpn, runs, job, budget>>

\* The XRay process ends: 78 and 203 are not restarted, other codes are.
XrayExits ==
  /\ xray = "active"
  /\ Spend("exits")
  /\ xray' \in {"inactive", "restarting"}
  /\ UNCHANGED <<sel, active, vpn, runs, job, pc>>

XrayRestarts ==
  /\ xray = "restarting"
  /\ xray' = "starting"
  /\ runs' = active
  /\ UNCHANGED <<sel, active, vpn, job, pc, budget>>

\* The API gives up on a script (40 s, 30 s) and kills it where it is;
\* a unit job it had started goes on.
Timeout(w) ==
  /\ pc[w] \notin HandlerSteps \cup {"idle"}
  /\ Spend("kills")
  /\ Goto(w, "idle")
  /\ UNCHANGED <<sel, active, vpn, xray, runs, job>>

\* The host goes down and comes up again: the unit selects the stored tunnel.
\* An orderly stop runs ExecStop (select none) first; a power loss does not.
BootTarget(stored) == IF stored = "" THEN "amnezia" ELSE stored

BootPc(stored) ==
  [p \in Procs |-> IF p = Boot THEN Entry(BootTarget(stored)) ELSE "idle"]

Reboot(stored) ==
  /\ Spend("stops")
  /\ sel' = stored
  /\ vpn' = "inactive" /\ xray' = "inactive"
  /\ job' = [job EXCEPT ![Boot] = BootTarget(stored)]
  /\ pc' = BootPc(stored)
  /\ UNCHANGED <<active, runs>>

PowerLoss == Reboot(sel)
OrderlyReboot == Reboot("none")

\* The gateway boots with whatever an earlier run stored.
Init ==
  /\ sel \in Targets \cup {""} /\ active \in Configs \cup {NoConfig}
  /\ vpn = "inactive" /\ xray = "inactive" /\ runs = NoConfig
  /\ job = [p \in Procs |-> BootTarget(sel)]
  /\ pc = BootPc(sel)
  /\ budget = [b \in Bounded |-> CASE b = "requests" -> MaxRequests
                                   [] b = "exits"    -> MaxExits
                                   [] b = "stops"    -> MaxStops
                                   [] b = "kills"    -> MaxKills]

Next ==
  \/ \E w \in Workers : \E r \in Requests : Request(w, r)
  \/ \E w \in Workers : Activate(w)
  \/ \E w \in Workers : \E c \in Configs : Mark(w, c)
  \/ \E p \in Procs : Command(p)
  \/ \E success \in BOOLEAN : VpnStarted(success)
  \/ XrayStarted
  \/ XrayExits
  \/ XrayRestarts
  \/ \E w \in Workers : Timeout(w)
  \/ PowerLoss
  \/ OrderlyReboot

Spec == Init /\ [][Next]_vars

\* Scripts run to their end and unit jobs finish.
Fairness ==
  /\ \A p \in Procs : WF_vars(Command(p))
  /\ \A w \in Workers : WF_vars(\E c \in Configs : Mark(w, c))
  /\ WF_vars(\E success \in BOOLEAN : VpnStarted(success))
  /\ WF_vars(XrayStarted)

FairSpec == Spec /\ Fairness

---------------------------------------------------------------------------
(* Properties.                                                             *)

\* When no script is running, a running tunnel is the chosen one: what
\* vpngw-select-external-tunnel.sh leaves behind, whatever other selections
\* it overlapped with.
RestConsistent ==
  AllIdle => /\ vpn # "inactive" => sel = "amnezia"
             /\ xray # "inactive" => sel = "xray"

\* As long as no XRay process has died, XRay at rest runs the config that
\* .active names: what the API reports as active is what carries the traffic.
RunsTheActive ==
  AllIdle /\ xray = "active" /\ Renders /\ budget["exits"] = MaxExits => runs = active

\* A selection that runs to its end with no other script around leaves a
\* consistent gateway, whatever a killed script, a bare service restart or a
\* dead XRay process left behind.
SelectionRepairs ==
  [][\A p \in Procs :
       (StopXray(p) \/ StopVpn(p)) /\ job[p] \in Targets /\ AllIdle' => RestConsistent']_vars

\* Every request is answered: no selection waits for another for ever.
Terminates == \A p \in Procs : pc[p] # "idle" ~> pc[p] = "idle"

---------------------------------------------------------------------------
(* Refinement: with one selection at a time, the scripts carry out what    *)
(* ExternalTunnel promises.                                                *)

Busy == {p \in Procs : pc[p] # "idle" /\ job[p] \in Targets}
Runner == CHOOSE p \in Busy : TRUE

UpTunnels ==
  (IF vpn = "active" THEN {"amnezia"} ELSE {})
    \cup (IF xray = "inactive" THEN {} ELSE {"xray"})

Goal == IF Busy = {} THEN "idle" ELSE job[Runner]

PhaseAt(c) ==
  CASE c \in {"trunc", "write"}         -> "made"
    [] c \in {"stop_xray", "stop_vpn"}  -> "recorded"
    [] OTHER                            -> "making"

Phase == IF Busy = {} THEN "idle" ELSE PhaseAt(pc[Runner])

Selection == INSTANCE ExternalTunnel WITH
  chosen <- sel, up <- UpTunnels, goal <- Goal, phase <- Phase

\* A selection makes before it breaks, and one that fails takes nothing away.
MakeBeforeBreak == Selection!Spec
===========================================================================
