------------------------ MODULE TunnelSelect_proof ------------------------
(***************************************************************************)
(* Theorems about TunnelSelect, for every set of workers and of configs    *)
(* and for every overlap of the scripts.                                   *)
(***************************************************************************)
EXTENDS TunnelSelect, TLAPS

\* Only scripts that choose a tunnel write the selection file.
WritersChoose ==
  \A p \in Procs : pc[p] \in {"trunc", "write"} => job[p] \in Targets \cup {"switch"}

TypeInv == TypeOK /\ WritersChoose

LEMMA EntryOf ==
  ASSUME NEW j \in Jobs
  PROVE  /\ Entry(j) \in Commands \ {"idle", "wait_vpn", "wait_xray", "write", "render", "mark", "decide"}
         /\ Entry(j) = "trunc" => j \in {"none", "switch"}
         /\ j = "xray" => Entry(j) = "has_active"
         /\ Entry(j) = "start_vpn" => j \in {"amnezia", "startvpn"}
         /\ Entry(j) = "start_xray" => j = "startxray"
  BY DEF Entry, Jobs, Targets, Commands

LEMMA JobOfType ==
  ASSUME NEW r \in SelectRequests \cup OtherRequests, r # "xray/activate",
         sel \in Targets \cup {""}
  PROVE  /\ JobOf(r) \in Jobs
         /\ r \in SelectRequests => JobOf(r) \in Targets \cup {"stopvpn", "stopxray"}
<1>1. CASE r = "vpn/start"
  BY <1>1 DEF JobOf, Jobs, Targets
<1>2. CASE r = "vpn/stop"
  BY <1>2 DEF JobOf, Jobs, Targets
<1>3. CASE r = "xray/enable"
  BY <1>3 DEF JobOf, Jobs, Targets
<1>4. CASE r = "xray/disable"
  BY <1>4 DEF JobOf, Jobs, Targets
<1>5. CASE r \in OtherRequests
  BY <1>5 DEF JobOf, OtherRequests, SelectRequests, Jobs, Targets
<1>6. QED
  BY <1>1, <1>2, <1>3, <1>4, <1>5 DEF SelectRequests

---------------------------------------------------------------------------
(* Type correctness.                                                       *)

LEMMA TypeInvInit == Init => TypeInv
<1> SUFFICES ASSUME Init PROVE TypeInv
  OBVIOUS
<1>1. budget \in [Bounded -> Nat]
  BY BoundAssumption DEF Init, Bounded
<1>2. job \in [Procs -> Jobs] /\ pc \in [Procs -> Commands]
  <2>1. BootTarget(sel) \in Jobs
    BY DEF Init, BootTarget, Jobs, Targets
  <2>2. QED
    BY <2>1, EntryOf DEF Init, BootPc, Commands
<1>3. BootTarget(sel) \in Targets /\ job = [p \in Procs |-> BootTarget(sel)]
  BY DEF Init, BootTarget, Targets
<1>4. QED
  BY <1>1, <1>2, <1>3 DEF Init, TypeInv, TypeOK, WritersChoose, Targets

LEMMA SpendType ==
  ASSUME TypeOK, NEW kind \in Bounded, Spend(kind)
  PROVE  budget' \in [Bounded -> Nat]
<1>1. budget \in [Bounded -> Nat]
  BY DEF TypeOK
<1>2. budget[kind] - 1 \in Nat /\ budget' = [budget EXCEPT ![kind] = budget[kind] - 1]
  BY <1>1 DEF Spend
<1>3. QED
  BY <1>1, <1>2

LEMMA TypeInvNext ==
  ASSUME TypeInv, [Next]_vars
  PROVE  TypeInv'
<1> USE DEF TypeInv, WritersChoose
<1>1. ASSUME NEW w \in Workers, NEW r \in Requests, Request(w, r)
      PROVE  TypeInv'
  <2>1. JobOf(r) \in Jobs
    BY <1>1, JobOfType, RequestAssumption DEF Request, TypeOK
  <2>2. Entry(JobOf(r)) \in Commands
        /\ (Entry(JobOf(r)) \in {"trunc", "write"} => JobOf(r) \in {"none", "switch"})
    BY <2>1, EntryOf
  <2>3. budget' \in [Bounded -> Nat]
    BY <1>1, SpendType DEF Request, Bounded
  <2>4. QED
    BY <1>1, <2>1, <2>2, <2>3 DEF Request, Launch, Goto, TypeOK, Procs, Targets
<1>2. ASSUME NEW w \in Workers, Activate(w)
      PROVE  TypeInv'
  <2>1. budget' \in [Bounded -> Nat]
    BY <1>2, SpendType DEF Activate, Bounded
  <2>2. QED
    BY <1>2, <2>1 DEF Activate, Goto, TypeOK, Procs, Jobs, Targets, Commands
<1>11. ASSUME NEW w \in Workers, NEW c \in Configs, Mark(w, c)
      PROVE  TypeInv'
  BY <1>11 DEF Mark, Goto, TypeOK, Procs, Commands
<1>3. ASSUME NEW p \in Procs, Command(p)
      PROVE  TypeInv'
  <2>1. CASE Decide(p)
    BY <2>1 DEF Decide, Goto, TypeOK, Commands
  <2>2. CASE HasActive(p)
    BY <2>2 DEF HasActive, Goto, TypeOK, Commands
  <2>3. CASE RenderCheck(p)
    BY <2>3 DEF RenderCheck, Goto, TypeOK, Commands
  <2>4. CASE StartXray(p)
    BY <2>4 DEF StartXray, Goto, TypeOK, Commands
  <2>5. CASE StartVpn(p)
    BY <2>5 DEF StartVpn, AfterVpnUp, Goto, TypeOK, Commands, Targets
  <2>6. CASE Truncate(p)
    BY <2>6 DEF Truncate, Goto, TypeOK, Commands
  <2>7. CASE WriteChoice(p)
    BY <2>7 DEF WriteChoice, Goto, TypeOK, Commands, Targets
  <2>8. CASE StopXray(p)
    BY <2>8 DEF StopXray, Goto, TypeOK, Commands
  <2>9. CASE StopVpn(p)
    BY <2>9 DEF StopVpn, TypeOK, Commands
  <2>10. QED
    BY <1>3, <2>1, <2>2, <2>3, <2>4, <2>5, <2>6, <2>7, <2>8, <2>9 DEF Command
<1>4. ASSUME NEW success \in BOOLEAN, VpnStarted(success)
      PROVE  TypeInv'
  BY <1>4 DEF VpnStarted, AfterVpnUp, TypeOK, Commands, Targets
<1>5. CASE XrayExits
  BY <1>5, SpendType DEF XrayExits, Bounded, TypeOK
<1>6. CASE XrayRestarts
  BY <1>6 DEF XrayRestarts, TypeOK
<1>12. CASE XrayStarted
  BY <1>12 DEF XrayStarted, AfterXrayUp, TypeOK, Commands, Targets
<1>7. ASSUME NEW w \in Workers, Timeout(w)
      PROVE  TypeInv'
  BY <1>7, SpendType DEF Timeout, Bounded, Goto, TypeOK, Commands
<1>8. ASSUME NEW stored \in Targets \cup {""}, Reboot(stored)
      PROVE  TypeInv'
  <2>1. BootTarget(stored) \in Targets /\ BootTarget(stored) \in Jobs
    BY DEF BootTarget, Targets, Jobs
  <2>2. /\ Entry(BootTarget(stored)) \in Commands
        /\ Entry(BootTarget(stored)) \notin {"write"}
        /\ Entry(BootTarget(stored)) = "trunc" => BootTarget(stored) \in {"none", "switch"}
    BY <2>1, EntryOf
  <2>3. budget' \in [Bounded -> Nat]
    BY <1>8, SpendType DEF Reboot, Bounded
  <2>4. QED
    BY <1>8, <2>1, <2>2, <2>3 DEF Reboot, BootPc, TypeOK, Targets, Commands, Procs
<1>9. CASE UNCHANGED vars
  BY <1>9 DEF vars, TypeOK
<1>10. QED
  BY <1>1, <1>2, <1>3, <1>4, <1>5, <1>6, <1>7, <1>8, <1>9, <1>11, <1>12
  DEF Next, PowerLoss, OrderlyReboot, TypeOK, Targets

\* The variables keep their types, whatever requests arrive.
THEOREM TypeCorrect == Spec => []TypeOK
<1>1. TypeInv => TypeOK
  BY DEF TypeInv
<1>2. QED
  BY <1>1, TypeInvInit, TypeInvNext, PTL DEF Spec

LEMMA TypeInvAlways == Spec => []TypeInv
  BY TypeInvInit, TypeInvNext, PTL DEF Spec

---------------------------------------------------------------------------
(* Overlapping selections leave a consistent gateway.                      *)

\* The requests of the theorem: selections that leave .active alone and that
\* the API does not give up on.
SelectionsOnly == Requests \subseteq SelectRequests \ {"xray/activate"} /\ MaxKills = 0

\* Which script is where.
ScriptsFlow ==
  /\ budget["kills"] = 0
  /\ \A p \in Procs :
       /\ job[p] \in Targets \cup {"stopvpn", "stopxray"}
       /\ pc[p] \notin HandlerSteps
       /\ pc[p] \in {"start_vpn", "wait_vpn"} => job[p] = "amnezia"
       /\ pc[p] \in {"has_active", "render", "start_xray", "wait_xray"} => job[p] = "xray"
       /\ pc[p] \in {"trunc", "write"} => job[p] \in Targets

\* XRay is started only with a config that renders, and runs it.
XrayGood ==
  /\ \A p \in Procs : pc[p] = "start_xray" => Renders
  /\ xray # "inactive" => Renders /\ runs = active

\* A running Amnezia tunnel is the choice, or a script is about to choose it,
\* or a script that chose otherwise is about to stop it.
VpnAccounted ==
  vpn # "inactive" =>
    \/ sel = "amnezia"
    \/ \E p \in Procs : job[p] = "amnezia" /\ pc[p] \in {"wait_vpn", "trunc", "write"}
    \/ \E p \in Procs : job[p] \in {"xray", "none"} /\ pc[p] \in {"write", "stop_vpn"}
    \/ \E p \in Procs : job[p] = "none" /\ pc[p] = "stop_xray"

\* The same for XRay.
XrayAccounted ==
  xray # "inactive" =>
    \/ sel = "xray"
    \/ \E p \in Procs : job[p] = "xray" /\ pc[p] \in {"wait_xray", "trunc", "write"}
    \/ \E p \in Procs : job[p] \in {"amnezia", "none"} /\ pc[p] \in {"write", "stop_xray"}

OverlapInv == ScriptsFlow /\ XrayGood /\ VpnAccounted /\ XrayAccounted

LEMMA BootEntry ==
  ASSUME NEW stored \in Targets \cup {""}
  PROVE  /\ BootTarget(stored) \in Targets
         /\ Entry(BootTarget(stored)) \in {"start_vpn", "has_active", "trunc"}
         /\ Entry(BootTarget(stored)) = "trunc" => BootTarget(stored) = "none"
         /\ Entry(BootTarget(stored)) = "start_vpn" => BootTarget(stored) = "amnezia"
         /\ Entry(BootTarget(stored)) = "has_active" => BootTarget(stored) = "xray"
  BY DEF Entry, BootTarget, Targets

LEMMA OverlapInit == SelectionsOnly /\ Init => OverlapInv
<1> SUFFICES ASSUME SelectionsOnly, Init PROVE OverlapInv
  OBVIOUS
<1>1. budget["kills"] = 0
  BY BoundAssumption DEF Init, Bounded, SelectionsOnly
<1>2. ScriptsFlow
  BY <1>1, BootEntry DEF Init, BootPc, ScriptsFlow, HandlerSteps, Targets
<1>3. XrayGood
  BY BootEntry DEF Init, BootPc, XrayGood
<1>4. QED
  BY <1>2, <1>3 DEF Init, OverlapInv, VpnAccounted, XrayAccounted

LEMMA OverlapNext ==
  ASSUME SelectionsOnly, TypeInv, OverlapInv, [Next]_vars
  PROVE  OverlapInv'
<1> USE DEF OverlapInv, ScriptsFlow, XrayGood, Renders, VpnAccounted, XrayAccounted
<1>1. ASSUME NEW w \in Workers, NEW r \in Requests, Request(w, r)
      PROVE  OverlapInv'
  <2>1. JobOf(r) \in Jobs /\ JobOf(r) \in Targets \cup {"stopvpn", "stopxray"}
    BY <1>1, JobOfType DEF Request, TypeInv, TypeOK, SelectionsOnly
  <2>2. /\ Entry(JobOf(r)) = "trunc" => JobOf(r) = "none"
        /\ Entry(JobOf(r)) \notin {"wait_vpn", "wait_xray", "write", "render", "mark", "decide",
                                  "start_xray"}
        /\ Entry(JobOf(r)) = "start_vpn" => JobOf(r) = "amnezia"
        /\ Entry(JobOf(r)) = "has_active" => JobOf(r) = "xray"
    BY <2>1 DEF Entry, Targets
  <2>3. /\ pc[w] = "idle" /\ UNCHANGED <<sel, active, vpn, xray, runs>>
        /\ budget' = [budget EXCEPT !["requests"] = @ - 1]
        /\ job' = [job EXCEPT ![w] = JobOf(r)]
        /\ pc' = [pc EXCEPT ![w] = Entry(JobOf(r))]
    BY <1>1 DEF Request, Launch, Goto, Spend, MayArrive
  <2>4. ScriptsFlow' /\ XrayGood'
    BY <2>1, <2>2, <2>3 DEF TypeInv, TypeOK, Procs, Targets, Bounded, HandlerSteps
  <2>5. \A p \in Procs : pc[p] # "idle" => pc'[p] = pc[p] /\ job'[p] = job[p]
    BY <2>3 DEF TypeInv, TypeOK
  <2>6. VpnAccounted' /\ XrayAccounted'
    BY <2>3, <2>5
  <2>7. QED
    BY <2>4, <2>6
<1>2. ASSUME NEW w \in Workers, Activate(w)
      PROVE  OverlapInv'
  BY <1>2 DEF Activate, SelectionsOnly
<1>11. ASSUME NEW w \in Workers, NEW c \in Configs, Mark(w, c)
      PROVE  OverlapInv'
  BY <1>11 DEF Mark, Procs, HandlerSteps
<1>3. ASSUME NEW p \in Procs, Command(p)
      PROVE  OverlapInv'
  <2>1. CASE Decide(p)
    BY <2>1 DEF Decide, HandlerSteps
  <2>2. CASE HasActive(p)
    BY <2>2, ZenonT(40) DEF HasActive, Goto, TypeInv, TypeOK, HandlerSteps
  <2>3. CASE RenderCheck(p)
    BY <2>3, ZenonT(40) DEF RenderCheck, Goto, TypeInv, TypeOK, HandlerSteps
  <2>4. CASE StartXray(p)
    <3>1. /\ job[p] = "xray" /\ pc[p] = "start_xray"
          /\ pc' = [pc EXCEPT ![p] = "wait_xray"]
          /\ xray' = "starting" /\ UNCHANGED <<sel, active, vpn, job, budget>>
          /\ Renders /\ runs' = active
      BY <2>4 DEF StartXray, Goto
    <3>2. QED
      BY <3>1 DEF TypeInv, TypeOK, HandlerSteps
  <2>5. CASE StartVpn(p)
    <3>1. job[p] = "amnezia" /\ pc[p] = "start_vpn"
      BY <2>5 DEF StartVpn
    <3>2. /\ \/ pc' = [pc EXCEPT ![p] = "trunc"] /\ vpn' = vpn
             \/ pc' = [pc EXCEPT ![p] = "wait_vpn"]
          /\ UNCHANGED <<sel, active, xray, runs, job, budget>>
      BY <2>5, <3>1 DEF StartVpn, Goto, AfterVpnUp
    <3>3. QED
      BY <3>1, <3>2, ZenonT(40) DEF TypeInv, TypeOK, Targets, HandlerSteps
  <2>6. CASE Truncate(p)
    <3>1. /\ pc[p] = "trunc" /\ pc' = [pc EXCEPT ![p] = "write"]
          /\ sel' = "" /\ UNCHANGED <<active, vpn, xray, runs, job, budget>>
      BY <2>6 DEF Truncate, Goto
    <3>2. job[p] \in Targets /\ job'[p] = job[p] /\ pc'[p] = "write"
      BY <3>1 DEF TypeInv, TypeOK
    <3>3. VpnAccounted'
      BY <3>1, <3>2 DEF Targets
    <3>4. XrayAccounted'
      BY <3>1, <3>2 DEF Targets
    <3>5. QED
      BY <3>1, <3>2, <3>3, <3>4, ZenonT(40) DEF TypeInv, TypeOK, HandlerSteps
  <2>7. CASE WriteChoice(p)
    <3>1. job[p] \in Targets /\ pc[p] = "write"
      BY <2>7 DEF WriteChoice
    <3>2. /\ pc' = [pc EXCEPT ![p] = IF job[p] = "xray" THEN "stop_vpn" ELSE "stop_xray"]
          /\ sel' = job[p] /\ UNCHANGED <<active, vpn, xray, runs, job, budget>>
      BY <2>7, <3>1 DEF WriteChoice, Goto, Targets
    <3>3. job'[p] = job[p] /\ pc'[p] = IF job[p] = "xray" THEN "stop_vpn" ELSE "stop_xray"
      BY <3>2 DEF TypeInv, TypeOK
    <3>4. VpnAccounted'
      BY <3>1, <3>2, <3>3 DEF Targets
    <3>5. XrayAccounted'
      BY <3>1, <3>2, <3>3 DEF Targets
    <3>6. \A x \in Procs : x # p => pc'[x] = pc[x]
      BY <3>2 DEF TypeInv, TypeOK
    <3>7. ScriptsFlow'
      BY <3>1, <3>2, <3>3, <3>6 DEF HandlerSteps
    <3>8. XrayGood'
      BY <3>2, <3>3, <3>6
    <3>9. QED
      BY <3>4, <3>5, <3>7, <3>8
  <2>8. CASE StopXray(p)
    <3>1. /\ pc[p] = "stop_xray" /\ xray' = "inactive"
          /\ pc' = [x \in Procs |->
                      CASE x = p -> IF job[p] = "none" THEN "stop_vpn" ELSE "idle"
                        [] x # p /\ pc[x] = "wait_xray" -> "idle"
                        [] OTHER -> pc[x]]
          /\ UNCHANGED <<sel, active, vpn, runs, job, budget>>
      BY <2>8 DEF StopXray, Targets
    <3>2. /\ job[p] = "none" => pc'[p] = "stop_vpn"
          /\ \A x \in Procs :
               pc[x] \notin {"stop_xray", "wait_xray"} => pc'[x] = pc[x]
          /\ \A x \in Procs : pc'[x] \in {pc[x], "idle", "stop_vpn"}
          /\ \A x \in Procs :
               x # p /\ pc[x] = "stop_xray" => pc'[x] = pc[x]
      BY <3>1 DEF TypeInv, TypeOK
    <3>3. VpnAccounted'
      BY <3>1, <3>2
    <3>4. ScriptsFlow' /\ XrayGood' /\ XrayAccounted'
      BY <3>1, <3>2 DEF HandlerSteps
    <3>5. QED
      BY <3>3, <3>4
  <2>9. CASE StopVpn(p)
    <3>1. job[p] \notin {"switch", "restart"}
      BY DEF Targets
    <3>2. /\ pc[p] = "stop_vpn" /\ vpn' = "inactive"
          /\ pc' = [x \in Procs |->
                      IF x = p \/ pc[x] = "wait_vpn" THEN "idle" ELSE pc[x]]
          /\ UNCHANGED <<sel, active, xray, runs, job, budget>>
      BY <2>9, <3>1 DEF StopVpn
    <3>3. XrayAccounted'
      BY <3>2
    <3>4. QED
      BY <3>2, <3>3 DEF HandlerSteps
  <2>10. QED
    BY <1>3, <2>1, <2>2, <2>3, <2>4, <2>5, <2>6, <2>7, <2>8, <2>9 DEF Command
<1>4. ASSUME NEW success \in BOOLEAN, VpnStarted(success)
      PROVE  OverlapInv'
  <2>1. CASE success
    BY <1>4, <2>1 DEF VpnStarted, AfterVpnUp, Targets, HandlerSteps
  <2>2. CASE ~success
    BY <1>4, <2>2 DEF VpnStarted, AfterVpnUp, Targets, HandlerSteps
  <2>3. QED
    BY <2>1, <2>2
<1>5. CASE XrayExits
  BY <1>5 DEF XrayExits, Spend, Bounded, TypeInv, TypeOK
<1>6. CASE XrayRestarts
  BY <1>6 DEF XrayRestarts
<1>12. CASE XrayStarted
  <2>1. runs \notin Bad \cup {NoConfig}
    BY <1>12 DEF XrayStarted
  <2>2. /\ xray = "starting" /\ xray' = "active"
        /\ pc' = [x \in Procs |-> IF pc[x] = "wait_xray" THEN AfterXrayUp(x) ELSE pc[x]]
        /\ UNCHANGED <<sel, active, vpn, runs, job, budget>>
    BY <1>12, <2>1 DEF XrayStarted
  <2>3. \A x \in Procs : pc[x] = "wait_xray" => AfterXrayUp(x) = "trunc"
    BY DEF AfterXrayUp
  <2>4. QED
    BY <2>2, <2>3 DEF HandlerSteps, Targets
<1>7. ASSUME NEW w \in Workers, Timeout(w)
      PROVE  OverlapInv'
  BY <1>7 DEF Timeout, Spend
<1>8. ASSUME NEW stored \in Targets \cup {""}, Reboot(stored)
      PROVE  OverlapInv'
  <2>1. /\ vpn' = "inactive" /\ xray' = "inactive" /\ UNCHANGED active
        /\ job' = [job EXCEPT ![Boot] = BootTarget(stored)]
        /\ pc' = [p \in Procs |-> IF p = Boot THEN Entry(BootTarget(stored)) ELSE "idle"]
        /\ budget' = [budget EXCEPT !["stops"] = @ - 1]
    BY <1>8 DEF Reboot, BootPc, Spend
  <2>2. QED
    BY <2>1, BootEntry DEF TypeInv, TypeOK, Procs, Bounded, HandlerSteps
<1>9. CASE UNCHANGED vars
  BY <1>9 DEF vars
<1>10. QED
  BY <1>1, <1>2, <1>3, <1>4, <1>5, <1>6, <1>7, <1>8, <1>9, <1>11, <1>12
  DEF Next, PowerLoss, OrderlyReboot, TypeInv, TypeOK, Targets

LEMMA OverlapAlways ==
  ASSUME SelectionsOnly
  PROVE  Spec => []OverlapInv
<1>1. Init => OverlapInv
  BY OverlapInit
<1>2. TypeInv /\ OverlapInv /\ [Next]_vars => OverlapInv'
  BY OverlapNext
<1>3. QED
  BY <1>1, <1>2, TypeInvAlways, PTL DEF Spec

\* However many selections overlap, at rest a running tunnel is the chosen
\* one: selections need no lock among themselves, as long as nobody activates
\* another config under them and no script is killed.
THEOREM OverlapConsistent == SelectionsOnly => (Spec => []RestConsistent)
<1> SUFFICES ASSUME SelectionsOnly PROVE Spec => []RestConsistent
  OBVIOUS
<1>1. OverlapInv => RestConsistent
  BY DEF OverlapInv, VpnAccounted, XrayAccounted, RestConsistent, AllIdle
<1>2. QED
  BY <1>1, OverlapAlways, PTL

---------------------------------------------------------------------------
(* One request at a time: XRay runs what .active names.                    *)

SelectionsAlone == OneAtATime /\ Requests \subseteq SelectRequests /\ MaxKills = 0

\* Where a script is that will still look at .active.
Ahead == {"mark", "decide", "has_active", "render", "start_xray"}

OneBusy == \A p, x \in Procs : pc[p] # "idle" /\ pc[x] # "idle" => p = x

\* As long as no XRay process has died, XRay starts only under a selector that
\* waits for it, with the config it has just tried to render.
RunsWhatIsNamed ==
  /\ xray # "restarting"
  /\ xray = "starting" => runs = active /\ Renders /\ \E p \in Procs : pc[p] = "wait_xray"
  /\ xray = "active" => runs = active \/ ~Renders \/ \E p \in Procs : pc[p] \in Ahead

ActiveInv ==
  /\ budget["kills"] = 0 /\ budget["exits"] <= MaxExits
  /\ OneBusy
  /\ \A p \in Procs : pc[p] = "start_xray" => Renders
  /\ budget["exits"] = MaxExits => RunsWhatIsNamed

LEMMA ActiveInit == SelectionsAlone /\ Init => ActiveInv
<1> SUFFICES ASSUME SelectionsAlone, Init PROVE ActiveInv
  OBVIOUS
<1>1. budget["kills"] = MaxKills /\ budget["exits"] = MaxExits
  BY DEF Init, Bounded
<1>2. \A p \in Procs : pc[p] # "start_xray" /\ (p # Boot => pc[p] = "idle")
  BY BootEntry DEF Init, BootPc
<1>3. budget["kills"] = 0 /\ budget["exits"] <= MaxExits
  BY <1>1, BoundAssumption DEF SelectionsAlone
<1>4. OneBusy
  BY <1>2 DEF OneBusy
<1>5. RunsWhatIsNamed
  BY DEF Init, RunsWhatIsNamed
<1> QED
  BY <1>2, <1>3, <1>4, <1>5 DEF ActiveInv

\* A script goes on without touching XRay or .active.
LEMMA ActiveOn ==
  ASSUME TypeInv, ActiveInv, NEW p \in Procs, NEW at, pc[p] # "idle",
         pc' = [pc EXCEPT ![p] = at], at # "start_xray",
         pc[p] \in Ahead /\ xray = "active" /\ Renders => at \in Ahead,
         pc[p] # "wait_xray",
         UNCHANGED <<active, xray, runs, budget>>
  PROVE  ActiveInv'
<1>1. pc'[p] = at /\ \A x \in Procs \ {p} : pc'[x] = pc[x]
  BY DEF TypeInv, TypeOK
<1>2. OneBusy'
  BY <1>1 DEF ActiveInv, OneBusy
<1>3. Renders' = Renders
  BY DEF Renders
<1>4. ASSUME NEW x \in Procs, pc'[x] = "start_xray" PROVE Renders
  <2>1. pc[x] = "start_xray"
    BY <1>1, <1>4
  <2> QED
    BY <2>1 DEF ActiveInv
<1>5. ASSUME RunsWhatIsNamed PROVE RunsWhatIsNamed'
  <2>1. xray = "starting" => runs = active /\ Renders' /\ \E x \in Procs : pc'[x] = "wait_xray"
    BY <1>1, <1>3, <1>5 DEF RunsWhatIsNamed
  <2>2. xray = "active" => runs = active \/ ~Renders' \/ \E x \in Procs : pc'[x] \in Ahead
    BY <1>1, <1>3, <1>5 DEF RunsWhatIsNamed
  <2> QED
    BY <1>5, <2>1, <2>2 DEF RunsWhatIsNamed
<1>6. budget["kills"] = 0 /\ budget["exits"] <= MaxExits
      /\ (budget["exits"] = MaxExits => RunsWhatIsNamed)
  BY DEF ActiveInv
<1> QED
  BY <1>2, <1>3, <1>4, <1>5, <1>6 DEF ActiveInv

LEMMA ActiveNext ==
  ASSUME SelectionsAlone, TypeInv, ActiveInv, [Next]_vars
  PROVE  ActiveInv'
<1>1. ASSUME NEW w \in Workers, NEW r \in Requests, Request(w, r)
      PROVE  ActiveInv'
  <2>1. /\ AllIdle /\ UNCHANGED <<active, xray, runs>>
        /\ budget' = [budget EXCEPT !["requests"] = @ - 1]
        /\ pc' = [pc EXCEPT ![w] = Entry(JobOf(r))]
    BY <1>1 DEF Request, MayArrive, Launch, Goto, Spend, SelectionsAlone
  <2>2. Entry(JobOf(r)) # "start_xray"
    <3>1. JobOf(r) \in Jobs /\ JobOf(r) # "startxray"
      BY <1>1, JobOfType DEF Request, TypeInv, TypeOK, SelectionsAlone, Targets
    <3> QED
      BY <3>1, EntryOf
  <2>3. \A x \in Procs : pc'[x] # "start_xray" /\ (x # w => pc'[x] = "idle")
    BY <2>1, <2>2 DEF AllIdle, TypeInv, TypeOK
  <2>4. budget["kills"] = budget'["kills"] /\ budget["exits"] = budget'["exits"]
    BY <2>1 DEF TypeInv, TypeOK, Bounded
  <2> QED
    BY <2>1, <2>3, <2>4 DEF ActiveInv, OneBusy, RunsWhatIsNamed, AllIdle, Ahead, Renders
<1>2. ASSUME NEW w \in Workers, Activate(w)
      PROVE  ActiveInv'
  <2>1. /\ AllIdle /\ UNCHANGED <<xray, runs>>
        /\ budget' = [budget EXCEPT !["requests"] = @ - 1]
        /\ pc' = [pc EXCEPT ![w] = "mark"]
    BY <1>2 DEF Activate, MayArrive, Goto, Spend, SelectionsAlone
  <2>2. pc'[w] = "mark" /\ \A x \in Procs : x # w => pc'[x] = "idle"
    BY <2>1 DEF AllIdle, TypeInv, TypeOK, Procs
  <2>3. budget["kills"] = budget'["kills"] /\ budget["exits"] = budget'["exits"]
    BY <2>1 DEF TypeInv, TypeOK, Bounded
  <2> QED
    BY <2>1, <2>2, <2>3 DEF ActiveInv, OneBusy, RunsWhatIsNamed, AllIdle, Ahead, Procs
<1>3. ASSUME NEW w \in Workers, NEW c \in Configs, Mark(w, c)
      PROVE  ActiveInv'
  <2>1. /\ pc[w] = "mark" /\ pc' = [pc EXCEPT ![w] = "decide"] /\ w \in Procs
        /\ UNCHANGED <<xray, runs, budget>>
    BY <1>3 DEF Mark, Goto, Procs
  <2>2. \A x \in Procs : x # w => pc[x] = "idle" /\ pc'[x] = "idle"
    BY <2>1 DEF ActiveInv, OneBusy, TypeInv, TypeOK
  <2>3. pc'[w] = "decide"
    BY <2>1 DEF TypeInv, TypeOK
  <2>4. OneBusy' /\ \A x \in Procs : pc'[x] = "start_xray" => Renders'
    BY <2>2, <2>3 DEF OneBusy
  <2>5. budget["exits"] = MaxExits => RunsWhatIsNamed'
    BY <2>1, <2>2, <2>3 DEF ActiveInv, RunsWhatIsNamed, Ahead
  <2> QED
    BY <2>1, <2>4, <2>5 DEF ActiveInv
<1>4. ASSUME NEW p \in Procs, Command(p)
      PROVE  ActiveInv'
  <2>1. CASE Decide(p)
    BY <2>1, ActiveOn DEF Decide, Goto, Ahead
  <2>2. CASE HasActive(p)
    <3>1. active = NoConfig => ~Renders
      BY DEF Renders
    <3> QED
      BY <2>2, <3>1, ActiveOn DEF HasActive, Goto, Ahead
  <2>3. CASE RenderCheck(p) /\ ~Renders
    BY <2>3, ActiveOn DEF RenderCheck, Goto, Ahead
  <2>4. CASE RenderCheck(p) /\ Renders
    <3>1. /\ pc[p] = "render" /\ pc' = [pc EXCEPT ![p] = "start_xray"]
          /\ UNCHANGED <<active, xray, runs, budget>>
      BY <2>4 DEF RenderCheck, Goto
    <3>2. pc'[p] = "start_xray" /\ \A x \in Procs \ {p} : pc'[x] = pc[x]
      BY <3>1 DEF TypeInv, TypeOK
    <3>3. Renders'
      BY <2>4, <3>1 DEF Renders
    <3>4. OneBusy'
      BY <3>1, <3>2 DEF ActiveInv, OneBusy
    <3>5. budget["exits"] = MaxExits => RunsWhatIsNamed'
      BY <3>1, <3>2 DEF ActiveInv, OneBusy, RunsWhatIsNamed, Ahead
    <3> QED
      BY <3>1, <3>3, <3>4, <3>5 DEF ActiveInv
  <2>5. CASE StartXray(p)
    <3>1. /\ pc[p] = "start_xray" /\ pc' = [pc EXCEPT ![p] = "wait_xray"]
          /\ xray' = "starting" /\ UNCHANGED <<active, budget>>
          /\ xray # "starting" => runs' = active
      BY <2>5 DEF StartXray, Goto
    <3>2. pc'[p] = "wait_xray" /\ \A x \in Procs \ {p} : pc'[x] = pc[x]
      BY <3>1 DEF TypeInv, TypeOK
    <3>3. Renders /\ (Renders' <=> Renders)
      BY <3>1 DEF ActiveInv, Renders
    <3>4. OneBusy'
      BY <3>1, <3>2 DEF ActiveInv, OneBusy
    <3>5. budget["exits"] = MaxExits => RunsWhatIsNamed'
      BY <3>1, <3>2, <3>3 DEF ActiveInv, OneBusy, RunsWhatIsNamed
    <3> QED
      BY <3>1, <3>3, <3>4, <3>5 DEF ActiveInv
  <2>6. CASE StartVpn(p)
    <3>1. PICK at \in {"trunc", "idle", "wait_vpn"} :
            pc[p] = "start_vpn" /\ pc' = [pc EXCEPT ![p] = at] /\ UNCHANGED <<active, xray, runs, budget>>
      BY <2>6 DEF StartVpn, Goto, AfterVpnUp
    <3> QED
      BY <3>1, ActiveOn DEF Ahead
  <2>7. CASE Truncate(p)
    BY <2>7, ActiveOn DEF Truncate, Goto, Ahead
  <2>8. CASE WriteChoice(p)
    BY <2>8, ActiveOn DEF WriteChoice, Goto, Ahead
  <2>9. CASE StopXray(p)
    <3>1. /\ pc[p] = "stop_xray" /\ xray' = "inactive" /\ UNCHANGED <<active, runs, budget>>
          /\ \A x \in Procs : pc'[x] # "idle" => pc[x] # "idle"
          /\ \A x \in Procs : pc'[x] = "start_xray" => pc[x] = "start_xray"
      BY <2>9 DEF StopXray
    <3> QED
      BY <3>1 DEF ActiveInv, OneBusy, RunsWhatIsNamed, Renders
  <2>10. CASE StopVpn(p)
    <3>1. /\ pc[p] = "stop_vpn" /\ UNCHANGED <<active, xray, runs, budget>>
          /\ \A x \in Procs : pc'[x] # "idle" => pc[x] # "idle"
          /\ \A x \in Procs : pc'[x] = "start_xray" => pc[x] = "start_xray"
      BY <2>10 DEF StopVpn
    <3>2. \A x \in Procs : pc[x] \in Ahead \cup {"wait_xray"} => pc'[x] = pc[x]
      BY <2>10, <3>1 DEF StopVpn, Ahead
    <3> QED
      BY <3>1, <3>2 DEF ActiveInv, OneBusy, RunsWhatIsNamed, Renders
  <2> QED
    BY <1>4, <2>1, <2>2, <2>3, <2>4, <2>5, <2>6, <2>7, <2>8, <2>9, <2>10 DEF Command
<1>5. ASSUME NEW success \in BOOLEAN, VpnStarted(success)
      PROVE  ActiveInv'
  <2>1. /\ UNCHANGED <<active, xray, runs, budget>>
        /\ \A x \in Procs : pc'[x] # "idle" => pc[x] # "idle"
        /\ \A x \in Procs : pc'[x] = "start_xray" => pc[x] = "start_xray"
    BY <1>5 DEF VpnStarted, AfterVpnUp
  <2>2. \A x \in Procs : pc[x] \in Ahead \cup {"wait_xray"} => pc'[x] = pc[x]
    BY <1>5 DEF VpnStarted, Ahead
  <2> QED
    BY <2>1, <2>2 DEF ActiveInv, OneBusy, RunsWhatIsNamed, Renders
<1>6. CASE XrayStarted
  <2>1. /\ xray = "starting" /\ UNCHANGED <<active, runs, budget>>
        /\ \A x \in Procs : pc'[x] # "idle" => pc[x] # "idle"
        /\ \A x \in Procs : pc'[x] = "start_xray" => pc[x] = "start_xray"
    BY <1>6 DEF XrayStarted, AfterXrayUp
  <2>2. runs = active /\ Renders => xray' = "active"
    BY <1>6 DEF XrayStarted, Renders
  <2>3. Renders' <=> Renders
    BY <2>1 DEF Renders
  <2>4. OneBusy'
    BY <2>1 DEF ActiveInv, OneBusy
  <2>5. budget["exits"] = MaxExits => RunsWhatIsNamed'
    BY <2>1, <2>2 DEF ActiveInv, RunsWhatIsNamed
  <2> QED
    BY <2>1, <2>3, <2>4, <2>5 DEF ActiveInv
<1>7. CASE XrayExits
  <2>1. /\ UNCHANGED <<active, runs, pc>> /\ budget["exits"] > 0
        /\ budget' = [budget EXCEPT !["exits"] = @ - 1]
    BY <1>7 DEF XrayExits, Spend
  <2>2. budget["exits"] \in Nat /\ budget'["exits"] = budget["exits"] - 1
        /\ budget'["kills"] = budget["kills"]
    BY <2>1 DEF TypeInv, TypeOK, Bounded
  <2>3. budget'["exits"] < MaxExits /\ budget'["kills"] = 0
    BY <2>2, BoundAssumption DEF ActiveInv
  <2> QED
    BY <2>1, <2>2, <2>3, BoundAssumption DEF ActiveInv, OneBusy, Renders
<1>8. CASE XrayRestarts
  BY <1>8 DEF XrayRestarts, ActiveInv, OneBusy, RunsWhatIsNamed, Renders
<1>9. ASSUME NEW w \in Workers, Timeout(w)
      PROVE  ActiveInv'
  BY <1>9 DEF Timeout, Spend, ActiveInv
<1>10. ASSUME NEW stored \in Targets \cup {""}, Reboot(stored)
       PROVE  ActiveInv'
  <2>1. /\ xray' = "inactive" /\ UNCHANGED active
        /\ pc' = [p \in Procs |-> IF p = Boot THEN Entry(BootTarget(stored)) ELSE "idle"]
        /\ budget' = [budget EXCEPT !["stops"] = @ - 1]
    BY <1>10 DEF Reboot, BootPc, Spend
  <2>2. budget["kills"] = budget'["kills"] /\ budget["exits"] = budget'["exits"]
    BY <2>1 DEF TypeInv, TypeOK, Bounded
  <2>3. \A p \in Procs : pc'[p] # "start_xray"
    BY <2>1, BootEntry
  <2> QED
    BY <2>1, <2>2, <2>3 DEF ActiveInv, OneBusy, RunsWhatIsNamed
<1>11. CASE UNCHANGED vars
  BY <1>11 DEF vars, ActiveInv, OneBusy, RunsWhatIsNamed, Renders
<1> QED
  BY <1>1, <1>2, <1>3, <1>4, <1>5, <1>6, <1>7, <1>8, <1>9, <1>10, <1>11
  DEF Next, PowerLoss, OrderlyReboot, TypeInv, TypeOK, Targets

\* With one request at a time and no script killed, XRay at rest runs the
\* config that .active names, as long as no XRay process has died: activate
\* (xray_client.py:909-932) leaves no XRay running that it should restart.
THEOREM XrayRunsTheActive == SelectionsAlone => (Spec => []RunsTheActive)
<1> SUFFICES ASSUME SelectionsAlone PROVE Spec => []RunsTheActive
  OBVIOUS
<1>1. ActiveInv => RunsTheActive
  BY DEF ActiveInv, RunsWhatIsNamed, RunsTheActive, AllIdle, Ahead
<1>2. Init => ActiveInv
  BY ActiveInit
<1>3. TypeInv /\ ActiveInv /\ [Next]_vars => ActiveInv'
  BY ActiveNext
<1> QED
  BY <1>1, <1>2, <1>3, TypeInvAlways, PTL DEF Spec

---------------------------------------------------------------------------
(* One script at a time: a selection repairs, and makes before it breaks.  *)

\* Which job a process is at a command of, and what the selection has settled
\* by then.
Placed(p) ==
  /\ pc[p] \in {"start_vpn", "wait_vpn"} => job[p] \in {"amnezia", "startvpn", "switch", "restart"}
  /\ pc[p] \in {"mark", "decide", "has_active", "render"} => job[p] = "xray"
  /\ pc[p] \in {"start_xray", "wait_xray"} => job[p] \in {"xray", "startxray"}
  /\ pc[p] = "stop_xray" => job[p] \in {"amnezia", "none", "switch", "stopxray"}
  /\ pc[p] = "stop_vpn" => job[p] \in {"xray", "none", "switch", "restart", "stopvpn"}
  /\ pc[p] \in {"stop_xray", "stop_vpn"} /\ job[p] \in Targets => sel = job[p]
  /\ pc[p] = "stop_vpn" /\ job[p] = "none" => xray = "inactive"

AloneInv == OneBusy /\ \A p \in Procs : Placed(p)

LEMMA AloneInit == Init => AloneInv
<1> SUFFICES ASSUME Init PROVE AloneInv
  OBVIOUS
<1>1. \A p \in Procs : pc[p] = (IF p = Boot THEN Entry(BootTarget(sel)) ELSE "idle")
  BY DEF Init, BootPc
<1>2. job = [p \in Procs |-> BootTarget(sel)] /\ sel \in Targets \cup {""}
  BY DEF Init
<1>3. OneBusy
  BY <1>1 DEF OneBusy
<1>4. \A p \in Procs : Placed(p)
  BY <1>1, <1>2, BootEntry DEF Placed, Targets
<1> QED
  BY <1>3, <1>4 DEF AloneInv

\* Where only one process is busy, the invariant is about that one alone.
LEMMA AloneOn ==
  ASSUME NEW p \in Procs, Placed(p)', \A x \in Procs \ {p} : pc'[x] = "idle"
  PROVE  AloneInv'
<1>1. \A x \in Procs : Placed(x)'
  BY DEF Placed
<1> QED
  BY <1>1 DEF AloneInv, OneBusy

\* What a command of the one busy process does to the program counters.
LEMMA CommandAlone ==
  ASSUME TypeInv, OneBusy, NEW p \in Procs, Command(p)
  PROVE  /\ pc[p] # "idle" /\ UNCHANGED <<active, job, budget>>
         /\ \A x \in Procs \ {p} : pc[x] = "idle" /\ pc'[x] = "idle"
<1>1. pc[p] # "idle" /\ UNCHANGED <<active, job, budget>>
  BY DEF Command, Decide, HasActive, RenderCheck, StartXray, StartVpn, Truncate, WriteChoice,
         StopXray, StopVpn
<1>2. \A x \in Procs \ {p} : pc[x] = "idle"
  BY <1>1 DEF OneBusy
<1>3. CASE StopXray(p)
  BY <1>1, <1>2, <1>3 DEF StopXray
<1>4. CASE StopVpn(p)
  BY <1>1, <1>2, <1>4 DEF StopVpn
<1>5. CASE ~StopXray(p) /\ ~StopVpn(p)
  <2>1. PICK at : pc' = [pc EXCEPT ![p] = at]
    BY <1>5 DEF Command, Decide, HasActive, RenderCheck, StartXray, StartVpn, Truncate, WriteChoice,
                Goto
  <2> QED
    BY <1>1, <1>2, <2>1 DEF TypeInv, TypeOK
<1> QED
  BY <1>3, <1>4, <1>5

LEMMA AloneNext ==
  ASSUME OneAtATime, TypeInv, AloneInv, [Next]_vars
  PROVE  AloneInv'
<1> USE DEF Targets
<1>1. ASSUME NEW w \in Workers, NEW r \in Requests, Request(w, r)
      PROVE  AloneInv'
  <2>1. AllIdle /\ pc' = [pc EXCEPT ![w] = Entry(JobOf(r))] /\ job' = [job EXCEPT ![w] = JobOf(r)]
    BY <1>1 DEF Request, MayArrive, Launch, Goto
  <2>2. JobOf(r) \in Jobs
    BY <1>1, JobOfType, RequestAssumption DEF Request, TypeInv, TypeOK
  <2>3. w \in Procs /\ pc'[w] = Entry(JobOf(r)) /\ job'[w] = JobOf(r)
    BY <2>1 DEF TypeInv, TypeOK, Procs
  <2>4. \A x \in Procs \ {w} : pc'[x] = "idle"
    BY <2>1 DEF AllIdle, TypeInv, TypeOK
  <2>5. Placed(w)'
    BY <2>2, <2>3 DEF Placed, Entry, Jobs
  <2> QED
    BY <2>3, <2>4, <2>5, AloneOn
<1>2. ASSUME NEW w \in Workers, Activate(w)
      PROVE  AloneInv'
  <2>1. AllIdle /\ pc' = [pc EXCEPT ![w] = "mark"] /\ job' = [job EXCEPT ![w] = "xray"]
    BY <1>2 DEF Activate, MayArrive, Goto
  <2>2. w \in Procs /\ pc'[w] = "mark" /\ job'[w] = "xray"
    BY <2>1 DEF TypeInv, TypeOK, Procs
  <2>3. \A x \in Procs \ {w} : pc'[x] = "idle"
    BY <2>1 DEF AllIdle, TypeInv, TypeOK
  <2> QED
    BY <2>2, <2>3, AloneOn DEF Placed
<1>3. ASSUME NEW w \in Workers, NEW c \in Configs, Mark(w, c)
      PROVE  AloneInv'
  <2>1. w \in Procs /\ pc[w] = "mark" /\ pc' = [pc EXCEPT ![w] = "decide"] /\ job' = job
    BY <1>3 DEF Mark, Goto, Procs
  <2>2. pc'[w] = "decide" /\ job'[w] = "xray" /\ \A x \in Procs \ {w} : pc'[x] = "idle"
    BY <2>1 DEF TypeInv, TypeOK, AloneInv, OneBusy, Placed
  <2> QED
    BY <2>1, <2>2, AloneOn DEF Placed
<1>4. ASSUME NEW p \in Procs, Command(p)
      PROVE  AloneInv'
  <2>1. job'[p] = job[p] /\ Placed(p) /\ \A x \in Procs \ {p} : pc'[x] = "idle"
    BY <1>4, CommandAlone DEF AloneInv
  <2>2. pc \in [Procs -> Commands]
    BY DEF TypeInv, TypeOK
  <2>3. CASE Decide(p) \/ HasActive(p) \/ RenderCheck(p)
    <3>1. /\ pc[p] \in {"decide", "has_active", "render"}
          /\ pc'[p] \in {"idle", "has_active", "render", "start_xray"}
      BY <2>2, <2>3 DEF Decide, HasActive, RenderCheck, Goto
    <3>2. Placed(p)'
      BY <2>1, <3>1 DEF Placed
    <3> QED
      BY <2>1, <3>2, AloneOn
  <2>4. CASE StartXray(p)
    <3>1. pc[p] = "start_xray" /\ pc'[p] = "wait_xray"
      BY <2>2, <2>4 DEF StartXray, Goto
    <3>2. Placed(p)'
      BY <2>1, <3>1 DEF Placed
    <3> QED
      BY <2>1, <3>2, AloneOn
  <2>5. CASE StartVpn(p)
    <3>1. pc[p] = "start_vpn" /\ pc'[p] \in {"wait_vpn", "trunc", "idle"}
          /\ (pc'[p] = "trunc" => job[p] = "amnezia")
      BY <2>2, <2>5 DEF StartVpn, Goto, AfterVpnUp
    <3>2. Placed(p)'
      BY <2>1, <3>1 DEF Placed
    <3> QED
      BY <2>1, <3>2, AloneOn
  <2>6. CASE Truncate(p)
    <3>1. pc[p] = "trunc" /\ pc'[p] = "write"
      BY <2>2, <2>6 DEF Truncate, Goto
    <3>2. Placed(p)'
      BY <2>1, <3>1 DEF Placed
    <3> QED
      BY <2>1, <3>2, AloneOn
  <2>7. CASE WriteChoice(p)
    <3>1. /\ pc[p] = "write" /\ (job[p] \in Targets => sel' = job[p])
          /\ pc'[p] = IF job[p] = "xray" THEN "stop_vpn" ELSE "stop_xray"
          /\ job[p] \in Targets \cup {"switch"}
      BY <2>2, <2>7 DEF WriteChoice, Goto, TypeInv, WritersChoose
    <3>2. Placed(p)'
      BY <2>1, <3>1 DEF Placed
    <3> QED
      BY <2>1, <3>2, AloneOn
  <2>8. CASE StopXray(p)
    <3>1. /\ pc[p] = "stop_xray" /\ sel' = sel /\ xray' = "inactive"
          /\ pc'[p] = IF job[p] \in {"none", "switch"} THEN "stop_vpn" ELSE "idle"
      BY <2>8 DEF StopXray
    <3>2. Placed(p)'
      BY <2>1, <3>1 DEF Placed
    <3> QED
      BY <2>1, <3>2, AloneOn
  <2>9. CASE StopVpn(p)
    <3>1. pc[p] = "stop_vpn" /\ pc'[p] = IF job[p] \in {"switch", "restart"} THEN "start_vpn" ELSE "idle"
      BY <2>9 DEF StopVpn
    <3>2. Placed(p)'
      BY <2>1, <3>1 DEF Placed
    <3> QED
      BY <2>1, <3>2, AloneOn
  <2> QED
    BY <1>4, <2>3, <2>4, <2>5, <2>6, <2>7, <2>8, <2>9 DEF Command
<1>5. ASSUME NEW success \in BOOLEAN, VpnStarted(success)
      PROVE  AloneInv'
  <2>1. /\ UNCHANGED <<sel, xray, job>>
        /\ \A x \in Procs :
             \/ pc'[x] = pc[x]
             \/ pc[x] = "wait_vpn" /\ pc'[x] \in {"idle", AfterVpnUp(x)}
    BY <1>5 DEF VpnStarted
  <2>2. OneBusy'
    BY <2>1 DEF AloneInv, OneBusy
  <2>3. \A x \in Procs : Placed(x)'
    BY <2>1 DEF AloneInv, Placed, AfterVpnUp
  <2> QED
    BY <2>2, <2>3 DEF AloneInv
<1>6. CASE XrayStarted
  <2>1. /\ UNCHANGED <<sel, job>> /\ xray = "starting"
        /\ \A x \in Procs :
             \/ pc'[x] = pc[x]
             \/ pc[x] = "wait_xray" /\ pc'[x] \in {"idle", AfterXrayUp(x)}
    BY <1>6 DEF XrayStarted
  <2>2. OneBusy'
    BY <2>1 DEF AloneInv, OneBusy
  <2>3. \A x \in Procs : Placed(x)'
    BY <2>1 DEF AloneInv, Placed, AfterXrayUp
  <2> QED
    BY <2>2, <2>3 DEF AloneInv
<1>7. CASE XrayExits \/ XrayRestarts
  <2>1. UNCHANGED <<sel, job, pc>> /\ xray # "inactive"
    BY <1>7 DEF XrayExits, XrayRestarts
  <2> QED
    BY <2>1 DEF AloneInv, OneBusy, Placed
<1>8. ASSUME NEW w \in Workers, Timeout(w)
      PROVE  AloneInv'
  <2>1. UNCHANGED <<sel, xray, job>> /\ \A x \in Procs : pc'[x] \in {pc[x], "idle"}
    BY <1>8 DEF Timeout, Goto, TypeInv, TypeOK
  <2> QED
    BY <2>1 DEF AloneInv, OneBusy, Placed
<1>9. ASSUME NEW stored \in Targets \cup {""}, Reboot(stored)
      PROVE  AloneInv'
  <2>1. /\ \A p \in Procs : pc'[p] = (IF p = Boot THEN Entry(BootTarget(stored)) ELSE "idle")
        /\ job'[Boot] = BootTarget(stored)
    BY <1>9 DEF Reboot, BootPc, TypeInv, TypeOK, Procs
  <2>2. Boot \in Procs /\ Placed(Boot)'
    BY <2>1, BootEntry DEF Placed, Procs
  <2> QED
    BY <2>1, <2>2, AloneOn
<1>10. CASE UNCHANGED vars
  BY <1>10 DEF vars, AloneInv, OneBusy, Placed
<1> QED
  BY <1>1, <1>2, <1>3, <1>4, <1>5, <1>6, <1>7, <1>8, <1>9, <1>10
  DEF Next, PowerLoss, OrderlyReboot, TypeInv, TypeOK

LEMMA AloneAlways == ASSUME OneAtATime PROVE Spec => []AloneInv
<1>1. Init => AloneInv
  BY AloneInit
<1>2. TypeInv /\ AloneInv /\ [Next]_vars => AloneInv'
  BY AloneNext
<1> QED
  BY <1>1, <1>2, TypeInvAlways, PTL DEF Spec

\* One script at a time, whatever requests arrive, scripts are killed and
\* tunnels die: a selection that runs to its end leaves only the chosen tunnel
\* up (the stops that end vpngw-select-external-tunnel.sh).
THEOREM SelectionsRepair == OneAtATime => (Spec => SelectionRepairs)
<1> SUFFICES ASSUME OneAtATime PROVE Spec => SelectionRepairs
  OBVIOUS
<1> DEFINE Repairs == \A p \in Procs :
      (StopXray(p) \/ StopVpn(p)) /\ job[p] \in Targets /\ AllIdle' => RestConsistent'
<1>1. ASSUME AloneInv PROVE Repairs
  <2> SUFFICES ASSUME NEW p \in Procs, StopXray(p) \/ StopVpn(p), job[p] \in Targets, AllIdle'
               PROVE  RestConsistent'
    OBVIOUS
  <2>1. Placed(p)
    BY <1>1 DEF AloneInv
  <2>2. CASE StopXray(p)
    <3>1. pc[p] = "stop_xray" /\ sel' = sel /\ xray' = "inactive"
      BY <2>2 DEF StopXray
    <3>2. job[p] # "none"
      BY <2>2 DEF StopXray, AllIdle
    <3> QED
      BY <2>1, <3>1, <3>2 DEF Placed, RestConsistent, Targets
  <2>3. CASE StopVpn(p)
    <3>1. pc[p] = "stop_vpn" /\ sel' = sel /\ vpn' = "inactive" /\ xray' = xray
      BY <2>3 DEF StopVpn
    <3> QED
      BY <2>1, <3>1 DEF Placed, RestConsistent, Targets
  <2> QED
    BY <2>2, <2>3
<1>2. AloneInv /\ [Next]_vars => [Repairs]_vars
  BY <1>1
<1> QED
  BY <1>2, AloneAlways, PTL DEF Spec, SelectionRepairs

\* A start of Amnezia always has a selection that waits for it, and the only
\* scripts are selections and stops of the unit that is not chosen.
WaitedInv ==
  /\ budget["kills"] = 0
  /\ \A p \in Procs : job[p] \in Targets \cup {"stopvpn", "stopxray"}
  /\ vpn = "starting" => \E p \in Procs : pc[p] = "wait_vpn"

SelectionInv == AloneInv /\ WaitedInv

LEMMA WaitedInit == SelectionsAlone /\ Init => WaitedInv
<1> SUFFICES ASSUME SelectionsAlone, Init PROVE WaitedInv
  OBVIOUS
<1>1. budget["kills"] = 0
  BY BoundAssumption DEF Init, Bounded, SelectionsAlone
<1>2. \A p \in Procs : job[p] \in Targets
  BY BootEntry DEF Init
<1> QED
  BY <1>1, <1>2 DEF Init, WaitedInv

LEMMA WaitedNext ==
  ASSUME SelectionsAlone, TypeInv, AloneInv, WaitedInv, [Next]_vars
  PROVE  WaitedInv'
<1>1. ASSUME NEW w \in Workers, NEW r \in Requests, Request(w, r)
      PROVE  WaitedInv'
  <2>1. /\ AllIdle /\ UNCHANGED vpn /\ job' = [job EXCEPT ![w] = JobOf(r)]
        /\ budget' = [budget EXCEPT !["requests"] = @ - 1]
    BY <1>1 DEF Request, MayArrive, Launch, Spend, SelectionsAlone
  <2>2. JobOf(r) \in Targets \cup {"stopvpn", "stopxray"}
    BY <1>1, JobOfType DEF Request, TypeInv, TypeOK, SelectionsAlone
  <2>3. vpn # "starting"
    BY <2>1 DEF WaitedInv, AllIdle
  <2> QED
    BY <2>1, <2>2, <2>3 DEF WaitedInv, TypeInv, TypeOK, Bounded
<1>2. ASSUME NEW w \in Workers, Activate(w)
      PROVE  WaitedInv'
  <2>1. /\ AllIdle /\ UNCHANGED vpn /\ job' = [job EXCEPT ![w] = "xray"]
        /\ budget' = [budget EXCEPT !["requests"] = @ - 1]
    BY <1>2 DEF Activate, MayArrive, Spend, SelectionsAlone
  <2>2. vpn # "starting"
    BY <2>1 DEF WaitedInv, AllIdle
  <2> QED
    BY <2>1, <2>2 DEF WaitedInv, TypeInv, TypeOK, Bounded, Targets
<1>3. ASSUME NEW w \in Workers, NEW c \in Configs, Mark(w, c)
      PROVE  WaitedInv'
  <2>1. /\ UNCHANGED <<vpn, job, budget>>
        /\ \A x \in Procs : pc[x] = "wait_vpn" => pc'[x] = "wait_vpn"
    BY <1>3 DEF Mark, Goto, TypeInv, TypeOK
  <2> QED
    BY <2>1 DEF WaitedInv
<1>4. ASSUME NEW p \in Procs, Command(p)
      PROVE  WaitedInv'
  <2>1. UNCHANGED <<job, budget>>
    BY <1>4, CommandAlone DEF AloneInv
  <2>2. CASE StopVpn(p)
    BY <2>1, <2>2 DEF StopVpn, WaitedInv
  <2>3. CASE StartVpn(p)
    <3>1. vpn' = "starting" => vpn # "active"
      BY <2>3 DEF StartVpn
    <3>2. vpn' = "starting" => pc'[p] = "wait_vpn"
      BY <2>3, <3>1 DEF StartVpn, Goto, TypeInv, TypeOK
    <3> QED
      BY <2>1, <3>2 DEF WaitedInv
  <2>4. CASE ~StopVpn(p) /\ ~StartVpn(p)
    <3>1. vpn' = vpn /\ pc[p] # "wait_vpn" /\ pc[p] # "idle"
      BY <1>4, <2>4 DEF Command, Decide, HasActive, RenderCheck, StartXray, Truncate,
                        WriteChoice, StopXray
    <3>2. vpn # "starting"
      BY <3>1 DEF WaitedInv, AloneInv, OneBusy
    <3> QED
      BY <2>1, <3>1, <3>2 DEF WaitedInv
  <2> QED
    BY <2>2, <2>3, <2>4
<1>5. ASSUME NEW success \in BOOLEAN, VpnStarted(success)
      PROVE  WaitedInv'
  BY <1>5 DEF VpnStarted, WaitedInv
<1>6. CASE XrayStarted
  <2>1. /\ UNCHANGED <<vpn, job, budget>>
        /\ \A x \in Procs : pc[x] = "wait_vpn" => pc'[x] = "wait_vpn"
    BY <1>6 DEF XrayStarted
  <2> QED
    BY <2>1 DEF WaitedInv
<1>7. CASE XrayExits
  BY <1>7 DEF XrayExits, Spend, WaitedInv, TypeInv, TypeOK, Bounded
<1>8. CASE XrayRestarts
  BY <1>8 DEF XrayRestarts, WaitedInv
<1>9. ASSUME NEW w \in Workers, Timeout(w)
      PROVE  WaitedInv'
  BY <1>9 DEF Timeout, Spend, WaitedInv
<1>10. ASSUME NEW stored \in Targets \cup {""}, Reboot(stored)
       PROVE  WaitedInv'
  <2>1. /\ vpn' = "inactive" /\ job' = [job EXCEPT ![Boot] = BootTarget(stored)]
        /\ budget' = [budget EXCEPT !["stops"] = @ - 1]
    BY <1>10 DEF Reboot, Spend
  <2>2. BootTarget(stored) \in Targets
    BY BootEntry
  <2> QED
    BY <2>1, <2>2 DEF WaitedInv, TypeInv, TypeOK, Bounded
<1>11. CASE UNCHANGED vars
  BY <1>11 DEF vars, WaitedInv
<1> QED
  BY <1>1, <1>2, <1>3, <1>4, <1>5, <1>6, <1>7, <1>8, <1>9, <1>10, <1>11
  DEF Next, PowerLoss, OrderlyReboot, TypeInv, TypeOK, Targets

\* The selection in progress, seen from the only process that is busy.
View(p) ==
  IF pc[p] # "idle" /\ job[p] \in Targets
    THEN Goal = job[p] /\ Phase = PhaseAt(pc[p])
    ELSE Goal = "idle" /\ Phase = "idle"

Watched(p) == \A x \in Procs \ {p} : pc[x] = "idle"

LEMMA ViewsAll == \A p \in Procs : Watched(p) => View(p)
<1> SUFFICES ASSUME NEW p \in Procs, Watched(p) PROVE View(p)
  OBVIOUS
<1>1. CASE pc[p] # "idle" /\ job[p] \in Targets
  <2>1. Busy = {p}
    BY <1>1 DEF Busy, Watched
  <2>2. Runner = p
    BY <2>1 DEF Runner
  <2> QED
    BY <1>1, <2>1, <2>2 DEF View, Goal, Phase
<1>2. CASE ~(pc[p] # "idle" /\ job[p] \in Targets)
  <2>1. Busy = {}
    BY <1>2 DEF Busy, Watched
  <2> QED
    BY <1>2, <2>1 DEF View, Goal, Phase
<1> QED
  BY <1>1, <1>2

LEMMA ViewsAllNext == \A p \in Procs : Watched(p)' => View(p)'
<1> SUFFICES ASSUME NEW p \in Procs, Watched(p)' PROVE View(p)'
  OBVIOUS
<1>1. CASE pc'[p] # "idle" /\ job'[p] \in Targets
  <2>1. Busy' = {p}
    BY <1>1 DEF Busy, Watched
  <2>2. Runner' = p
    BY <2>1 DEF Runner
  <2> QED
    BY <1>1, <2>1, <2>2 DEF View, Goal, Phase
<1>2. CASE ~(pc'[p] # "idle" /\ job'[p] \in Targets)
  <2>1. Busy' = {}
    BY <1>2 DEF Busy, Watched
  <2> QED
    BY <1>2, <2>1 DEF View, Goal, Phase
<1> QED
  BY <1>1, <1>2

SelectionStep == [Selection!Next]_(Selection!vars)

\* A command of a stop takes one tunnel down; a command of a selection is the
\* step of ExternalTunnel that its phase allows.
LEMMA CommandRefines ==
  ASSUME TypeInv, SelectionInv, NEW p \in Procs, Command(p)
  PROVE  SelectionStep
<1> USE DEF Targets
<1>1. /\ pc[p] # "idle" /\ job'[p] = job[p] /\ Placed(p)
      /\ View(p) /\ View(p)'
  <2>1. Watched(p) /\ Watched(p)' /\ pc[p] # "idle" /\ job' = job
    BY CommandAlone DEF SelectionInv, AloneInv, Watched
  <2> QED
    BY <2>1, ViewsAll, ViewsAllNext DEF SelectionInv, AloneInv
<1>2. /\ pc \in [Procs -> Commands] /\ job[p] \in Targets \cup {"stopvpn", "stopxray"}
      /\ sel \in Targets \cup {""}
  BY DEF TypeInv, TypeOK, SelectionInv, WaitedInv
<1>3. CASE job[p] \notin Targets
  <2>1. Goal = "idle" /\ Phase = "idle" /\ Goal' = "idle" /\ Phase' = "idle"
    BY <1>1, <1>3 DEF View
  <2>2. pc[p] \in {"stop_xray", "stop_vpn"}
    BY <1>1, <1>2, <1>3 DEF Placed, TypeInv, WritersChoose, Command, Decide, HasActive,
                             RenderCheck, StartXray, StartVpn, Truncate, WriteChoice, StopXray, StopVpn
  <2>3. sel' = sel /\ \E t \in {"amnezia", "xray"} : UpTunnels' = UpTunnels \ {t}
    <3>1. CASE StopXray(p)
      BY <3>1 DEF StopXray, UpTunnels
    <3>2. CASE StopVpn(p)
      BY <3>2 DEF StopVpn, UpTunnels
    <3> QED
      BY <2>2, <3>1, <3>2 DEF Command, Decide, HasActive, RenderCheck, StartXray, StartVpn, Truncate,
                              WriteChoice
  <2>4. PICK t : UpTunnels' = UpTunnels \ {t}
    BY <2>3
  <2>5. CASE t \in UpTunnels
    BY <2>1, <2>3, <2>4, <2>5 DEF SelectionStep, Selection!Next, Selection!Die
  <2>6. CASE t \notin UpTunnels
    BY <2>1, <2>3, <2>4, <2>6 DEF SelectionStep, Selection!vars
  <2> QED
    BY <2>5, <2>6
<1>4. CASE job[p] \in Targets
  <2>1. Goal = job[p] /\ Phase = PhaseAt(pc[p])
    BY <1>1, <1>4 DEF View
  <2>2. pc'[p] # "idle" => Goal' = job[p] /\ Phase' = PhaseAt(pc'[p])
    BY <1>1, <1>4 DEF View
  <2>3. pc'[p] = "idle" => Goal' = "idle" /\ Phase' = "idle"
    BY <1>1 DEF View
  <2>4. CASE Decide(p) \/ HasActive(p) \/ RenderCheck(p)
    <3>1. /\ pc[p] \in {"decide", "has_active", "render"}
          /\ pc'[p] \in {"idle", "has_active", "render", "start_xray"}
          /\ UNCHANGED <<sel, vpn, xray>>
      BY <1>2, <2>4 DEF Decide, HasActive, RenderCheck, Goto
    <3>2. UpTunnels' = UpTunnels /\ Phase = "making"
      BY <2>1, <3>1 DEF UpTunnels, PhaseAt
    <3>3. CASE pc'[p] = "idle"
      BY <2>3, <3>1, <3>2, <3>3 DEF SelectionStep, Selection!Next, Selection!Abandon
    <3>4. CASE pc'[p] # "idle"
      <4>1. Phase' = "making" /\ Goal' = Goal
        BY <2>1, <2>2, <3>1, <3>4 DEF PhaseAt
      <4> QED
        BY <3>1, <3>2, <4>1 DEF SelectionStep, Selection!vars
    <3> QED
      BY <3>3, <3>4
  <2>5. CASE StartXray(p)
    <3>1. /\ pc[p] = "start_xray" /\ pc'[p] = "wait_xray" /\ job[p] = "xray"
          /\ UNCHANGED <<sel, vpn>> /\ xray' = "starting"
      BY <1>1, <1>2, <1>4, <2>5 DEF StartXray, Goto, Placed
    <3>2. UpTunnels' = UpTunnels \cup {"xray"}
      BY <3>1 DEF UpTunnels
    <3>3. Phase = "making" /\ Phase' = "making" /\ Goal = "xray" /\ Goal' = Goal
      BY <2>1, <2>2, <3>1 DEF PhaseAt
    <3> QED
      BY <3>1, <3>2, <3>3 DEF SelectionStep, Selection!Next, Selection!Make
  <2>6. CASE StartVpn(p)
    <3>1. pc[p] = "start_vpn" /\ job[p] = "amnezia" /\ UNCHANGED <<sel, xray>>
      BY <1>1, <1>4, <2>6 DEF StartVpn, Placed
    <3>2. Phase = "making" /\ Goal = "amnezia"
      BY <2>1, <3>1 DEF PhaseAt
    <3>3. CASE vpn = "active"
      <4>1. vpn' = vpn /\ pc'[p] = "trunc"
        BY <1>2, <2>6, <3>1, <3>3 DEF StartVpn, Goto, AfterVpnUp
      <4>2. UpTunnels' = UpTunnels \cup {"amnezia"}
        BY <3>1, <3>3, <4>1 DEF UpTunnels
      <4>3. Phase' = "made" /\ Goal' = Goal
        BY <2>1, <2>2, <4>1 DEF PhaseAt
      <4> QED
        BY <3>1, <3>2, <4>2, <4>3 DEF SelectionStep, Selection!Next, Selection!Make
    <3>4. CASE vpn # "active"
      <4>1. vpn' = "starting" /\ pc'[p] = "wait_vpn"
        BY <1>2, <2>6, <3>4 DEF StartVpn, Goto
      <4>2. UpTunnels' = UpTunnels
        BY <3>1, <3>4, <4>1 DEF UpTunnels
      <4>3. Phase' = "making" /\ Goal' = Goal
        BY <2>1, <2>2, <4>1 DEF PhaseAt
      <4> QED
        BY <3>1, <3>2, <4>2, <4>3 DEF SelectionStep, Selection!vars
    <3> QED
      BY <3>3, <3>4
  <2>7. CASE Truncate(p)
    <3>1. pc[p] = "trunc" /\ pc'[p] = "write" /\ sel' = "" /\ UNCHANGED <<vpn, xray>>
      BY <1>2, <2>7 DEF Truncate, Goto
    <3>2. UpTunnels' = UpTunnels /\ Phase = "made" /\ Phase' = "made" /\ Goal' = Goal
      BY <2>1, <2>2, <3>1 DEF UpTunnels, PhaseAt
    <3> QED
      BY <3>1, <3>2 DEF SelectionStep, Selection!Next, Selection!Forget
  <2>8. CASE WriteChoice(p)
    <3>1. /\ pc[p] = "write" /\ pc'[p] \in {"stop_vpn", "stop_xray"}
          /\ sel' = job[p] /\ UNCHANGED <<vpn, xray>>
      BY <1>2, <1>4, <2>8 DEF WriteChoice, Goto
    <3>2. UpTunnels' = UpTunnels /\ Phase = "made" /\ Phase' = "recorded" /\ Goal' = Goal
      BY <2>1, <2>2, <3>1 DEF UpTunnels, PhaseAt
    <3> QED
      BY <2>1, <3>1, <3>2 DEF SelectionStep, Selection!Next, Selection!Record
  <2>9. CASE StopXray(p)
    <3>1. /\ pc[p] = "stop_xray" /\ UNCHANGED <<sel, vpn>> /\ xray' = "inactive"
          /\ pc'[p] = IF job[p] = "none" THEN "stop_vpn" ELSE "idle"
      BY <1>4, <2>9 DEF StopXray
    <3>2. job[p] \in {"amnezia", "none"} /\ sel = job[p]
      BY <1>1, <1>4, <3>1 DEF Placed
    <3>3. UpTunnels' = UpTunnels \ {"xray"} /\ Phase = "recorded"
      BY <2>1, <3>1 DEF UpTunnels, PhaseAt
    <3>4. CASE job[p] = "none"
      <4>1. Phase' = "recorded" /\ Goal' = Goal /\ Goal = "none"
        BY <2>1, <2>2, <3>1, <3>4 DEF PhaseAt
      <4> QED
        BY <3>1, <3>3, <4>1 DEF SelectionStep, Selection!Next, Selection!Break, Selection!Tunnels
    <3>5. CASE job[p] = "amnezia"
      <4>1. UpTunnels' \subseteq {"amnezia"}
        BY <3>1 DEF UpTunnels
      <4>2. Phase' = "idle" /\ Goal' = "idle" /\ Goal = "amnezia" /\ sel = Goal
        BY <2>1, <2>3, <3>1, <3>2, <3>5
      <4> QED
        BY <3>1, <3>3, <4>1, <4>2
        DEF SelectionStep, Selection!Next, Selection!BreakAndFinish, Selection!Tunnels
    <3> QED
      BY <3>2, <3>4, <3>5
  <2>10. CASE StopVpn(p)
    <3>1. pc[p] = "stop_vpn" /\ UNCHANGED <<sel, xray>> /\ vpn' = "inactive" /\ pc'[p] = "idle"
      BY <1>4, <2>10 DEF StopVpn
    <3>2. /\ job[p] \in {"xray", "none"} /\ sel = job[p]
          /\ job[p] = "none" => xray = "inactive"
      BY <1>1, <1>4, <3>1 DEF Placed
    <3>3. UpTunnels' = UpTunnels \ {"amnezia"} /\ Phase = "recorded"
      BY <2>1, <3>1 DEF UpTunnels, PhaseAt
    <3>4. UpTunnels' \subseteq {job[p]}
      BY <3>1, <3>2 DEF UpTunnels
    <3>5. Phase' = "idle" /\ Goal' = "idle" /\ Goal = job[p] /\ sel = Goal
      BY <2>1, <2>3, <3>1, <3>2
    <3> QED
      BY <3>1, <3>2, <3>3, <3>4, <3>5
      DEF SelectionStep, Selection!Next, Selection!BreakAndFinish, Selection!Tunnels
  <2> QED
    BY <2>4, <2>5, <2>6, <2>7, <2>8, <2>9, <2>10 DEF Command
<1> QED
  BY <1>3, <1>4

\* Where no process moves, the selection is where it was.
LEMMA GoalStays == UNCHANGED <<job, pc>> => UNCHANGED <<Goal, Phase>>
<1> SUFFICES ASSUME UNCHANGED <<job, pc>> PROVE UNCHANGED <<Goal, Phase>>
  OBVIOUS
<1>1. Busy' = Busy
  BY DEF Busy
<1>2. Runner' = Runner
  BY <1>1 DEF Runner
<1> QED
  BY <1>1, <1>2 DEF Goal, Phase

LEMMA StepRefines ==
  ASSUME SelectionsAlone, TypeInv, SelectionInv, [Next]_vars
  PROVE  SelectionStep
<1> USE DEF Targets
<1>1. ASSUME NEW w \in Workers, NEW r \in Requests, Request(w, r)
      PROVE  SelectionStep
  <2>1. /\ AllIdle /\ UNCHANGED <<sel, vpn, xray>> /\ w \in Procs
        /\ pc' = [pc EXCEPT ![w] = Entry(JobOf(r))] /\ job' = [job EXCEPT ![w] = JobOf(r)]
    BY <1>1 DEF Request, MayArrive, Launch, Goto, SelectionsAlone, Procs
  <2>2. JobOf(r) \in Targets \cup {"stopvpn", "stopxray"}
    BY <1>1, JobOfType DEF Request, TypeInv, TypeOK, SelectionsAlone
  <2>3. View(w) /\ View(w)' /\ pc[w] = "idle"
    <3>1. Watched(w) /\ Watched(w)'
      BY <2>1 DEF Watched, AllIdle, TypeInv, TypeOK
    <3> QED
      BY <2>1, <3>1, ViewsAll, ViewsAllNext DEF AllIdle
  <2>4. Goal = "idle" /\ Phase = "idle" /\ UpTunnels' = UpTunnels /\ sel' = sel
    BY <2>1, <2>3 DEF View, UpTunnels
  <2>5. pc'[w] = Entry(JobOf(r)) /\ job'[w] = JobOf(r)
    BY <2>1 DEF TypeInv, TypeOK
  <2>6. CASE JobOf(r) \in Targets
    <3>1. Entry(JobOf(r)) # "idle"
          /\ PhaseAt(Entry(JobOf(r))) = IF JobOf(r) = "none" THEN "made" ELSE "making"
      BY <2>6 DEF Entry, PhaseAt
    <3>2. Goal' = JobOf(r) /\ Phase' = IF JobOf(r) = "none" THEN "made" ELSE "making"
      BY <2>3, <2>5, <2>6, <3>1 DEF View
    <3>3. Selection!Begin(JobOf(r))
      BY <2>4, <3>2 DEF Selection!Begin
    <3> QED
      BY <2>6, <3>3 DEF SelectionStep, Selection!Next, Selection!Tunnels
  <2>7. CASE JobOf(r) \notin Targets
    <3>1. Goal' = "idle" /\ Phase' = "idle"
      BY <2>3, <2>5, <2>7 DEF View
    <3> QED
      BY <2>4, <3>1 DEF SelectionStep, Selection!vars
  <2> QED
    BY <2>6, <2>7
<1>2. ASSUME NEW w \in Workers, Activate(w)
      PROVE  SelectionStep
  <2>1. /\ AllIdle /\ UNCHANGED <<sel, vpn, xray>> /\ w \in Procs
        /\ pc' = [pc EXCEPT ![w] = "mark"] /\ job' = [job EXCEPT ![w] = "xray"]
    BY <1>2 DEF Activate, MayArrive, Goto, SelectionsAlone, Procs
  <2>2. Watched(w) /\ Watched(w)' /\ pc[w] = "idle" /\ pc'[w] = "mark" /\ job'[w] = "xray"
    BY <2>1 DEF Watched, AllIdle, TypeInv, TypeOK
  <2>3. View(w) /\ View(w)'
    BY <2>1, <2>2, ViewsAll, ViewsAllNext
  <2>4. Goal = "idle" /\ Phase = "idle" /\ UpTunnels' = UpTunnels /\ sel' = sel
    BY <2>1, <2>2, <2>3 DEF View, UpTunnels
  <2>5. Goal' = "xray" /\ Phase' = "making"
    BY <2>2, <2>3 DEF View, PhaseAt
  <2>6. Selection!Begin("xray")
    BY <2>4, <2>5 DEF Selection!Begin
  <2> QED
    BY <2>6 DEF SelectionStep, Selection!Next, Selection!Tunnels
<1>3. ASSUME NEW w \in Workers, NEW c \in Configs, Mark(w, c)
      PROVE  SelectionStep
  <2>1. /\ w \in Procs /\ pc[w] = "mark" /\ pc' = [pc EXCEPT ![w] = "decide"]
        /\ UNCHANGED <<sel, vpn, xray, job>>
    BY <1>3 DEF Mark, Goto, Procs
  <2>2. Watched(w) /\ Watched(w)' /\ pc'[w] = "decide" /\ job[w] = "xray"
    BY <2>1 DEF SelectionInv, AloneInv, OneBusy, Placed, Watched, TypeInv, TypeOK
  <2>3. View(w) /\ View(w)'
    BY <2>1, <2>2, ViewsAll, ViewsAllNext
  <2>4. Goal' = Goal /\ Phase' = Phase /\ UpTunnels' = UpTunnels
    BY <2>1, <2>2, <2>3 DEF View, PhaseAt, UpTunnels
  <2> QED
    BY <2>1, <2>4 DEF SelectionStep, Selection!vars
<1>4. ASSUME NEW p \in Procs, Command(p)
      PROVE  SelectionStep
  BY <1>4, CommandRefines
<1>5. ASSUME NEW success \in BOOLEAN, VpnStarted(success)
      PROVE  SelectionStep
  <2>1. PICK p \in Procs : pc[p] = "wait_vpn"
    BY <1>5 DEF VpnStarted, SelectionInv, WaitedInv
  <2>2. Watched(p) /\ job[p] = "amnezia"
    BY <2>1 DEF Watched, SelectionInv, AloneInv, OneBusy, Placed, WaitedInv
  <2>3. /\ Watched(p)' /\ UNCHANGED <<sel, xray, job>> /\ vpn = "starting"
        /\ pc'[p] = (IF success THEN "trunc" ELSE "idle")
        /\ vpn' = (IF success THEN "active" ELSE "inactive")
    BY <1>5, <2>1, <2>2 DEF VpnStarted, Watched, AfterVpnUp
  <2>4. View(p) /\ View(p)'
    BY <2>2, <2>3, ViewsAll, ViewsAllNext
  <2>5. Goal = "amnezia" /\ Phase = "making"
    BY <2>1, <2>2, <2>4 DEF View, PhaseAt
  <2>6. CASE success
    <3>1. Goal' = "amnezia" /\ Phase' = "made" /\ UpTunnels' = UpTunnels \cup {"amnezia"}
      BY <2>2, <2>3, <2>4, <2>6 DEF View, PhaseAt, UpTunnels
    <3> QED
      BY <2>3, <2>5, <3>1 DEF SelectionStep, Selection!Next, Selection!Make
  <2>7. CASE ~success
    <3>1. Goal' = "idle" /\ Phase' = "idle" /\ UpTunnels' = UpTunnels
      BY <2>3, <2>4, <2>7 DEF View, UpTunnels
    <3> QED
      BY <2>3, <2>5, <3>1 DEF SelectionStep, Selection!Next, Selection!Abandon
  <2> QED
    BY <2>6, <2>7
<1>6. CASE XrayStarted
  <2>1. UNCHANGED <<sel, vpn, job>> /\ UpTunnels' = UpTunnels
    BY <1>6 DEF XrayStarted, UpTunnels
  <2>2. CASE \E p \in Procs : pc[p] = "wait_xray"
    <3>1. PICK p \in Procs : pc[p] = "wait_xray"
      BY <2>2
    <3>2. Watched(p) /\ job[p] = "xray"
      BY <3>1 DEF Watched, SelectionInv, AloneInv, OneBusy, Placed, WaitedInv
    <3>3. Watched(p)' /\ pc'[p] \in {"trunc", "idle"}
      BY <1>6, <3>1, <3>2 DEF XrayStarted, Watched, AfterXrayUp
    <3>4. View(p) /\ View(p)'
      BY <3>2, <3>3, ViewsAll, ViewsAllNext
    <3>5. Goal = "xray" /\ Phase = "making" /\ "xray" \in UpTunnels
      BY <1>6, <3>1, <3>2, <3>4 DEF View, PhaseAt, UpTunnels, XrayStarted
    <3>6. CASE pc'[p] = "trunc"
      <4>1. Goal' = "xray" /\ Phase' = "made"
        BY <2>1, <3>2, <3>4, <3>6 DEF View, PhaseAt
      <4> QED
        BY <2>1, <3>5, <4>1 DEF SelectionStep, Selection!Next, Selection!Make
    <3>7. CASE pc'[p] = "idle"
      <4>1. Goal' = "idle" /\ Phase' = "idle"
        BY <3>4, <3>7 DEF View
      <4> QED
        BY <2>1, <3>5, <4>1 DEF SelectionStep, Selection!Next, Selection!Abandon
    <3> QED
      BY <3>3, <3>6, <3>7
  <2>3. CASE ~ \E p \in Procs : pc[p] = "wait_xray"
    <3>1. pc' = pc
      BY <1>6, <2>3 DEF XrayStarted, TypeInv, TypeOK
    <3> QED
      BY <2>1, <3>1, GoalStays DEF SelectionStep, Selection!vars
  <2> QED
    BY <2>2, <2>3
<1>7. CASE XrayExits \/ XrayRestarts
  <2>1. /\ UNCHANGED <<sel, vpn, Goal, Phase>>
        /\ UpTunnels' \in {UpTunnels, UpTunnels \ {"xray"}} /\ "xray" \in UpTunnels
    BY <1>7, GoalStays DEF XrayExits, XrayRestarts, UpTunnels
  <2>2. CASE UpTunnels' = UpTunnels
    BY <2>1, <2>2 DEF SelectionStep, Selection!vars
  <2>3. CASE UpTunnels' = UpTunnels \ {"xray"}
    BY <2>1, <2>3 DEF SelectionStep, Selection!Next, Selection!Die
  <2> QED
    BY <2>1, <2>2, <2>3
<1>8. ASSUME NEW w \in Workers, Timeout(w)
      PROVE  SelectionStep
  BY <1>8 DEF Timeout, Spend, SelectionInv, WaitedInv
<1>9. ASSUME NEW stored \in {sel, "none"}, Reboot(stored)
      PROVE  SelectionStep
  <2>1. /\ sel' = stored /\ vpn' = "inactive" /\ xray' = "inactive" /\ Boot \in Procs
        /\ \A p \in Procs : pc'[p] = (IF p = Boot THEN Entry(BootTarget(stored)) ELSE "idle")
        /\ job'[Boot] = BootTarget(stored)
    BY <1>9 DEF Reboot, BootPc, TypeInv, TypeOK, Procs
  <2>2. stored \in Targets \cup {""}
    BY DEF TypeInv, TypeOK
  <2>3. View(Boot)'
    BY <2>1, ViewsAllNext DEF Watched
  <2>4. /\ BootTarget(stored) = (IF stored = "" THEN "amnezia" ELSE stored)
        /\ Entry(BootTarget(stored)) # "idle"
        /\ BootTarget(stored) = "none" => Entry(BootTarget(stored)) = "trunc"
        /\ BootTarget(stored) # "none" => Entry(BootTarget(stored)) \in {"start_vpn", "has_active"}
    BY <2>2 DEF BootTarget, Entry
  <2>5. Goal' = BootTarget(stored) /\ Phase' = PhaseAt(Entry(BootTarget(stored)))
    BY <2>1, <2>2, <2>3, <2>4 DEF View
  <2>6. Goal' = (IF sel' = "" THEN "amnezia" ELSE sel')
    BY <2>1, <2>4, <2>5
  <2>7. Phase' = (IF Goal' = "none" THEN "made" ELSE "making")
    BY <2>4, <2>5 DEF PhaseAt
  <2>8. UpTunnels' = {}
    BY <2>1 DEF UpTunnels
  <2> QED
    BY <2>1, <2>6, <2>7, <2>8 DEF SelectionStep, Selection!Next, Selection!GoDown
<1>10. CASE UNCHANGED vars
  BY <1>10, GoalStays DEF vars, SelectionStep, Selection!vars, UpTunnels
<1> QED
  BY <1>1, <1>2, <1>3, <1>4, <1>5, <1>6, <1>7, <1>8, <1>9, <1>10
  DEF Next, PowerLoss, OrderlyReboot

LEMMA InitRefines == Init => Selection!Init
<1> SUFFICES ASSUME Init PROVE Selection!Init
  OBVIOUS
<1> USE DEF Targets
<1>1. /\ Boot \in Procs /\ job[Boot] = BootTarget(sel) /\ sel \in Targets \cup {""}
      /\ \A p \in Procs : pc[p] = (IF p = Boot THEN Entry(BootTarget(sel)) ELSE "idle")
  BY DEF Init, BootPc, Procs
<1>2. View(Boot)
  BY <1>1, ViewsAll DEF Watched
<1>3. /\ BootTarget(sel) = (IF sel = "" THEN "amnezia" ELSE sel)
      /\ Entry(BootTarget(sel)) # "idle"
      /\ BootTarget(sel) = "none" => Entry(BootTarget(sel)) = "trunc"
      /\ BootTarget(sel) # "none" => Entry(BootTarget(sel)) \in {"start_vpn", "has_active"}
  BY <1>1 DEF BootTarget, Entry
<1>4. Goal = BootTarget(sel) /\ Phase = PhaseAt(Entry(BootTarget(sel)))
  BY <1>1, <1>2, <1>3 DEF View
<1>5. Goal = (IF sel = "" THEN "amnezia" ELSE sel)
  BY <1>3, <1>4
<1>6. Phase = (IF Goal = "none" THEN "made" ELSE "making")
  BY <1>3, <1>4 DEF PhaseAt
<1>7. UpTunnels = {}
  BY DEF Init, UpTunnels
<1> QED
  BY <1>1, <1>5, <1>6, <1>7 DEF Selection!Init, Selection!Tunnels

\* With one selection at a time and no script killed, the scripts carry out
\* ExternalTunnel: vpngw-select-external-tunnel.sh brings the goal up before
\* it records it and records it before it takes the other tunnel down, and a
\* selection that fails takes nothing away.
THEOREM SelectionsMakeBeforeBreak == SelectionsAlone => (Spec => MakeBeforeBreak)
<1> SUFFICES ASSUME SelectionsAlone PROVE Spec => MakeBeforeBreak
  OBVIOUS
<1>1. Init => WaitedInv /\ Selection!Init
  BY WaitedInit, InitRefines
<1>2. TypeInv /\ AloneInv /\ WaitedInv /\ [Next]_vars => WaitedInv'
  BY WaitedNext
<1>3. TypeInv /\ AloneInv /\ WaitedInv /\ [Next]_vars => [Selection!Next]_(Selection!vars)
  BY StepRefines DEF SelectionInv, SelectionStep
<1>4. OneAtATime
  BY DEF SelectionsAlone
<1>5. Spec => []AloneInv
  BY <1>4, AloneAlways
<1> QED
  BY <1>1, <1>2, <1>3, <1>5, TypeInvAlways, PTL DEF Spec, MakeBeforeBreak, Selection!Spec
===========================================================================
