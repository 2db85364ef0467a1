------------------------- MODULE RouteScripts_proof -------------------------
(***************************************************************************)
(* What the routing scripts leave behind, proved for every kernel, mode,   *)
(* choice and set of interfaces: each keeps the tables well formed, setup  *)
(* and fix-routes make the traffic follow mode and choice from any tables  *)
(* that are merely ready for them, and a second run changes nothing.       *)
(*                                                                         *)
(* Of any number of overlapping setups (RouteRaces): what one of them has  *)
(* put in place another may take away only if it is going to put it back,  *)
(* and one that gives up has been overtaken by one that has got further.   *)
(***************************************************************************)
EXTENDS RouteScripts, RouteRaces, SequenceTheorems, TLAPS

Devices == Tunnels \cup {"none"}

\* What setup needs of the tables it starts from, in mode m.
Ready(t, m) ==
  /\ m = "split" => t.default = "lan"
  /\ m # "split" => ~t.rule
  /\ m = "all-direct" => t.default = "lan"

\* What it leaves behind.
Good(t, m, d, ls) ==
  /\ Ready(t, m)
  /\ m = "split" =>
       /\ t.rule /\ t.ipset /\ t.attached
       /\ d \in ls => t.marks > 0 /\ t.table = d /\ ForwardRules(d) \subseteq t.rules
       /\ d \notin ls => t.table = "none"
  /\ m = "all-vpn" =>
       /\ d \in ls => t.default = d /\ ForwardRules(d) \subseteq t.rules
       /\ d \notin ls => t.default \in {"lan", "none"}

\* The strengthening that makes RestTraffic and PathsCarried inductive.
Sound ==
  /\ trust # "unknown" => Ready(k, mode)
  /\ trust = "installed" => Good(k, mode, Dev, links)

---------------------------------------------------------------------------
(* The scripts map kernels to kernels.                                     *)

LEMMA RulesTyped ==
  ASSUME NEW d \in Devices PROVE /\ ForwardRules(d) \subseteq RuleNames
                                 /\ SplitRules(d) \subseteq RuleNames
BY DEF ForwardRules, SplitRules, Devices, Tunnels, RuleNames, LanRules

LEMMA DeviceTyped == ASSUME NEW s \in Choices PROVE DeviceOf(s) \in Devices
BY DEF DeviceOf, Choices, Devices, Tunnels

\* What a run of setup in split mode makes of tables t.
SplitResult(s, t, d, ls) ==
  /\ s \in Kernel
  /\ s.default = t.default /\ s.dns = t.dns
  /\ s.rule = TRUE /\ s.ipset = TRUE /\ s.attached = TRUE
  /\ s.table = IF d \in ls THEN d ELSE "none"
  /\ d \in ls => s.marks = IF OneLess(t.marks) = 0 THEN 1 ELSE OneLess(t.marks)
  /\ d \notin ls => s.marks = OneLess(t.marks)
  /\ s.rules = t.rules \cup SplitRules(IF d \in ls THEN d ELSE "none")

LEMMA SplitTyped ==
  ASSUME NEW t \in Kernel, NEW d \in Devices, NEW ls \in SUBSET Tunnels
  PROVE  SplitResult(SetupSplit(t, d, ls), t, d, ls)
<1> DEFINE e == IF d \in ls THEN d ELSE "none"
           a == MakeSet(t)
           b == AddRule(a)
           c == PointTable(b, d, ls)
           f == Unmark(c)
           g == IF d \in ls THEN Mark(f) ELSE f
           h == AddRules(g, SplitRules(e))
<1>1. a \in Kernel /\ a.default = t.default /\ a.dns = t.dns /\ a.ipset = TRUE
        /\ a.marks = t.marks /\ a.rules = t.rules
  BY DEF MakeSet, Kernel, KernelWith
<1>2. b \in Kernel /\ b.default = t.default /\ b.dns = t.dns /\ b.ipset = TRUE
        /\ b.marks = t.marks /\ b.rules = t.rules /\ b.rule = TRUE
  BY <1>1 DEF AddRule, Kernel, KernelWith
<1>3. c \in Kernel /\ c.default = t.default /\ c.dns = t.dns /\ c.ipset = TRUE
        /\ c.marks = t.marks /\ c.rules = t.rules /\ c.rule = TRUE /\ c.table = e
  BY <1>2 DEF PointTable, Kernel, KernelWith, Devices, Tunnels
<1>4. f \in Kernel /\ f.default = t.default /\ f.dns = t.dns /\ f.ipset = TRUE
        /\ f.marks = OneLess(t.marks) /\ f.rules = t.rules /\ f.rule = TRUE /\ f.table = e
  BY <1>3 DEF Unmark, OneLess, Kernel, KernelWith
<1>5. g \in Kernel /\ g.default = t.default /\ g.dns = t.dns /\ g.ipset = TRUE
        /\ g.marks = (IF d \in ls THEN IF OneLess(t.marks) = 0 THEN 1 ELSE OneLess(t.marks)
                                  ELSE OneLess(t.marks))
        /\ g.rules = t.rules /\ g.rule = TRUE /\ g.table = e
  BY <1>4 DEF Mark, Kernel, KernelWith
<1>6. SplitRules(e) \subseteq RuleNames
  BY RulesTyped DEF Devices
<1>7. h \in Kernel /\ h.default = g.default /\ h.dns = g.dns /\ h.ipset = g.ipset
        /\ h.marks = g.marks /\ h.rules = g.rules \cup SplitRules(e) /\ h.rule = g.rule
        /\ h.table = g.table
  BY <1>5, <1>6 DEF AddRules, Kernel, KernelWith
<1>8. SetupSplit(t, d, ls) = RestartDnsmasq(h)
  BY DEF SetupSplit
<1> HIDE DEF a, b, c, f, g, h
<1>9. QED
  BY <1>5, <1>7, <1>8, ZenonT(40) DEF SplitResult, RestartDnsmasq, Kernel, KernelWith

\* What each script returns, field by field.
LEMMA AllVpnTyped ==
  ASSUME NEW t \in Kernel, NEW d \in Devices, NEW ls \in SUBSET Tunnels
  PROVE  /\ SetupAllVpn(t, d, ls) \in Kernel
         /\ LET s == SetupAllVpn(t, d, ls)
            IN  /\ s.default = IF d \in ls THEN d ELSE "lan"
                /\ s.table = IF d = "none" THEN "none" ELSE t.table
                /\ s.dns = t.dns /\ s.rule = t.rule /\ s.ipset = t.ipset
                /\ s.attached = t.attached /\ s.marks = t.marks
                /\ s.rules = t.rules \cup ForwardRules(d)
<1>1. CASE d = "none"
  BY <1>1 DEF SetupAllVpn, EnsureLan, ForwardRules, Kernel, KernelWith, Tunnels
<1>2. CASE d # "none"
  <2> DEFINE a == AddRules(t, ForwardRules(d))
  <2>1. a \in Kernel /\ a = [t EXCEPT !.rules = t.rules \cup ForwardRules(d)]
    BY RulesTyped DEF AddRules, Kernel, KernelWith
  <2>2. SetupAllVpn(t, d, ls) = [a EXCEPT !.default = IF d \in ls THEN d ELSE "lan"]
    BY <1>2 DEF SetupAllVpn
  <2> QED
    BY <1>2, <2>1, <2>2, ZenonT(40) DEF Kernel, KernelWith, Devices
<1>3. QED
  BY <1>1, <1>2

LEMMA AllDirectTyped ==
  ASSUME NEW t \in Kernel
  PROVE  /\ SetupAllDirect(t) \in Kernel
         /\ SetupAllDirect(t) = [t EXCEPT !.default = "lan", !.rules = @ \cup LanRules]
BY DEF SetupAllDirect, EnsureLan, AddRules, LanRules, RuleNames, Kernel, KernelWith

LEMMA SetupTyped ==
  ASSUME NEW t \in Kernel, NEW m \in Modes, NEW d \in Devices, NEW ls \in SUBSET Tunnels
  PROVE  Setup(t, m, d, ls) \in Kernel
<1>1. SetupSplit(t, d, ls) \in Kernel
  BY SplitTyped DEF SplitResult
<1>2. QED
  BY <1>1, AllVpnTyped, AllDirectTyped DEF Setup, Modes

LEMMA FixRoutesTyped ==
  ASSUME NEW t \in Kernel, NEW m \in Modes, NEW d \in Tunnels
  PROVE  FixRoutes(t, m, d) \in Kernel
BY DEF FixRoutes, Modes, Kernel, KernelWith

LEMMA FixTyped ==
  ASSUME NEW t \in Kernel, NEW m \in Modes, NEW d \in Devices, NEW ls \in SUBSET Tunnels
  PROVE  Fix(t, m, d, ls) \in Kernel
BY SetupTyped, FixRoutesTyped DEF Fix

LEMMA TeardownTyped ==
  ASSUME NEW t \in Kernel PROVE Teardown(t) \in Kernel
<1>1. OneLess(t.marks) \in 0..2 /\ (t.ipset /\ OneLess(t.marks) > 0) \in BOOLEAN
  BY DEF OneLess, Kernel, KernelWith
<1>2. t.rules \cap {"nat private"} \in SUBSET RuleNames
  BY DEF RuleNames
<1>3. QED
  BY <1>1, <1>2 DEF Teardown, Kernel, KernelWith

LEMMA DownTyped ==
  ASSUME NEW t \in Kernel, NEW d \in Tunnels, NEW s \in Choices
  PROVE  Without(t, d) \in Kernel /\ OnVpnDown(t, s) \in Kernel
BY DEF Without, OnVpnDown, EnsureLan, Kernel, KernelWith

---------------------------------------------------------------------------
(* The scripts make tables sound.                                          *)

\* Setup repairs any tables that are ready for the mode, whatever marks,
\* table 100 and rules they hold.
LEMMA SetupGood ==
  ASSUME NEW t \in Kernel, NEW m \in Modes, NEW d \in Devices, NEW ls \in SUBSET Tunnels,
         Ready(t, m)
  PROVE  Good(Setup(t, m, d, ls), m, d, ls)
<1>1. CASE m = "split"
  <2> DEFINE s == SetupSplit(t, d, ls)
  <2>0. SplitResult(s, t, d, ls)
    BY SplitTyped
  <2> HIDE DEF s
  <2>1. s.default = "lan" /\ s.rule /\ s.ipset /\ s.attached
    BY <1>1, <2>0 DEF Ready, SplitResult
  <2>2. ASSUME d \in ls PROVE s.marks > 0 /\ s.table = d /\ ForwardRules(d) \subseteq s.rules
    <3>1. OneLess(t.marks) \in 0..1
      <4>1. t.marks \in 0..2
        BY DEF Kernel, KernelWith
      <4> QED
        BY <4>1 DEF OneLess
    <3>2. s.marks > 0 /\ s.table = d
      BY <2>2, <3>1, <2>0 DEF SplitResult
    <3>3. s.rules = t.rules \cup SplitRules(d)
      BY <2>2, <2>0 DEF SplitResult
    <3> QED
      BY <3>2, <3>3 DEF SplitRules
  <2>3. d \notin ls => s.table = "none"
    BY <2>0 DEF SplitResult
  <2> QED
    BY <1>1, <2>1, <2>2, <2>3 DEF Setup, Good, Ready, s
<1>2. CASE m = "all-vpn"
  <2> DEFINE s == SetupAllVpn(t, d, ls)
  <2>1. ~s.rule
    BY <1>2, AllVpnTyped DEF Ready
  <2>2. /\ d \in ls => s.default = d /\ ForwardRules(d) \subseteq s.rules
        /\ d \notin ls => s.default = "lan"
    BY AllVpnTyped
  <2> HIDE DEF s
  <2> QED
    BY <1>2, <2>1, <2>2 DEF Setup, Good, Ready, s
<1>3. CASE m = "all-direct"
  <2> DEFINE s == SetupAllDirect(t)
  <2>1. ~s.rule /\ s.default = "lan"
    BY <1>3 DEF SetupAllDirect, EnsureLan, AddRules, Ready, Kernel, KernelWith
  <2> HIDE DEF s
  <2> QED
    BY <1>3, <2>1 DEF Setup, Good, Ready, s
<1>4. QED
  BY <1>1, <1>2, <1>3 DEF Modes

LEMMA FixGood ==
  ASSUME NEW t \in Kernel, NEW m \in Modes, NEW d \in Devices, NEW ls \in SUBSET Tunnels,
         Ready(t, m)
  PROVE  Good(Fix(t, m, d, ls), m, d, ls)
<1>1. CASE d \in ls
  <2> DEFINE f == FixRoutes(t, m, d)
  <2>1. f \in Kernel
    BY <1>1, FixRoutesTyped
  <2>2. Ready(f, m)
    BY DEF FixRoutes, Ready, Modes, Kernel, KernelWith
  <2> HIDE DEF f
  <2> QED
    BY <1>1, <2>1, <2>2, SetupGood DEF Fix, f
<1>2. CASE d \notin ls
  BY <1>2, SetupGood DEF Fix
<1>3. QED
  BY <1>1, <1>2

\* After a teardown any mode can be set up.
LEMMA TeardownReady ==
  ASSUME NEW t \in Kernel, NEW m \in Modes PROVE Ready(Teardown(t), m)
BY DEF Teardown, Ready, Kernel, KernelWith

\* An interface that disappears takes only its own routes with it.
LEMMA WithoutGood ==
  ASSUME NEW t \in Kernel, NEW m \in Modes, NEW d \in Devices, NEW ls \in SUBSET Tunnels,
         NEW e \in Tunnels
  PROVE  /\ Ready(t, m) => Ready(Without(t, e), m)
         /\ Good(t, m, d, ls) => Good(Without(t, e), m, d, ls \ {e})
<1> DEFINE s == Without(t, e)
<1>1. /\ s.default = IF t.default = e THEN "none" ELSE t.default
      /\ s.table = IF t.table = e THEN "none" ELSE t.table
      /\ s.rule = t.rule /\ s.ipset = t.ipset /\ s.attached = t.attached
      /\ s.marks = t.marks /\ s.rules = t.rules
  BY DEF Without, Kernel, KernelWith
<1> HIDE DEF s
<1>2. "lan" # e /\ "none" # e
  BY DEF Tunnels
<1>3. Ready(t, m) => Ready(s, m)
  BY <1>1, <1>2 DEF Ready
<1>4. Good(t, m, d, ls) => Good(s, m, d, ls \ {e})
  BY <1>1, <1>2, <1>3 DEF Good
<1>5. QED
  BY <1>3, <1>4 DEF s

LEMMA OnVpnDownGood ==
  ASSUME NEW t \in Kernel, NEW m \in Modes, NEW s \in Choices, NEW ls \in SUBSET Tunnels
  PROVE  /\ Ready(t, m) => Ready(OnVpnDown(t, s), m)
         /\ "amn0" \notin ls /\ Good(t, m, DeviceOf(s), ls)
              => Good(OnVpnDown(t, s), m, DeviceOf(s), ls)
<1> DEFINE u == OnVpnDown(t, s)
<1>1. CASE s = "xray"
  BY <1>1 DEF OnVpnDown
<1>2. CASE s # "xray"
  <2>1. /\ u.default = "lan" /\ u.table = "none"
        /\ u.rule = t.rule /\ u.ipset = t.ipset /\ u.attached = t.attached
        /\ u.marks = t.marks /\ u.rules = t.rules
    BY <1>2 DEF OnVpnDown, EnsureLan, Kernel, KernelWith
  <2>2. DeviceOf(s) \in {"amn0", "none"} /\ "none" \notin ls
    BY <1>2 DEF DeviceOf, Choices, Tunnels
  <2> HIDE DEF u
  <2>3. Ready(t, m) => Ready(u, m)
    BY <2>1 DEF Ready
  <2>4. "amn0" \notin ls /\ Good(t, m, DeviceOf(s), ls) => Good(u, m, DeviceOf(s), ls)
    BY <2>1, <2>2, <2>3 DEF Good
  <2> QED
    BY <2>3, <2>4 DEF u
<1>3. QED
  BY <1>1, <1>2

---------------------------------------------------------------------------
(* Type correctness.                                                       *)

LEMMA TypeInit == Init => TypeOK
<1> SUFFICES ASSUME Init PROVE TypeOK
  OBVIOUS
<1>1. CASE AnyKernel
  BY <1>1 DEF Init, TypeOK, Kernel, KernelWith
<1>2. CASE ~AnyKernel
  <2>1. Clean \in Kernel
    BY DEF Clean, Kernel, KernelWith
  <2>2. Setup(Clean, mode, Dev, {}) \in Kernel
    BY <2>1, SetupTyped, DeviceTyped DEF Init, Dev
  <2> QED
    BY <1>2, <2>2 DEF Init, TypeOK
<1>3. QED
  BY <1>1, <1>2

LEMMA TypeNext == TypeOK /\ [Next]_vars => TypeOK'
<1> SUFFICES ASSUME TypeOK, [Next]_vars PROVE TypeOK'
  OBVIOUS
<1> USE DEF TypeOK
<1>1. Dev \in Devices
  BY DeviceTyped DEF Dev
<1>2. ASSUME NEW m \in Modes, SetMode(m) PROVE TypeOK'
  <2>1. Setup(Teardown(k), m, Dev, links) \in Kernel
    BY <1>1, SetupTyped, TeardownTyped
  <2> QED
    BY <1>1, <1>2, <2>1, FixTyped DEF SetMode
<1>3. ASSUME NEW c \in Calls, Call(c) PROVE TypeOK'
  BY <1>1, <1>3, SetupTyped, FixTyped, TeardownTyped DEF Call, Calls, Reinstall
<1>4. CASE RestartService
  <2>1. Setup(Teardown(k), mode, Dev, links) \in Kernel
    BY <1>1, SetupTyped, TeardownTyped
  <2> QED
    BY <1>1, <1>4, <2>1, FixTyped DEF RestartService, Reinstall
<1>5. ASSUME NEW d \in Tunnels, LinkUp(d) PROVE TypeOK'
  BY <1>1, <1>5, FixTyped DEF LinkUp, Reinstall
<1>6. CASE VpnDown
  <2>1. Without(k, "amn0") \in Kernel
    BY DownTyped DEF Tunnels
  <2> QED
    BY <1>6, <2>1, DownTyped DEF VpnDown, Tunnels
<1>7. CASE XrayDown
  BY <1>7, DownTyped DEF XrayDown, Tunnels
<1>8. ASSUME NEW s \in Choices, Select(s) PROVE TypeOK'
  <2> DEFINE d == DeviceOf(s)
             up == IF d \in Tunnels \ links \/ d = "xray0"
                     THEN Fix(Without(k, d), mode, Dev, links \cup {d}) ELSE k
             x == Without(up, "xray0")
             off == IF s = "xray" THEN Without(up, "amn0")
                    ELSE IF s = "none" /\ "amn0" \in links
                           THEN OnVpnDown(Without(x, "amn0"), s) ELSE x
  <2>1. d \in Devices
    BY DeviceTyped
  <2>2. up \in Kernel
    BY <1>1, <2>1, FixTyped, DownTyped DEF Tunnels, Devices
  <2>3. off \in Kernel
    <3> HIDE DEF up
    <3>1. x \in Kernel /\ Without(up, "amn0") \in Kernel
      BY <2>2, DownTyped DEF Tunnels
    <3> HIDE DEF x
    <3>2. Without(x, "amn0") \in Kernel
      BY <3>1, DownTyped DEF Tunnels
    <3> QED
      BY <3>1, <3>2, DownTyped DEF Tunnels
  <2>4. /\ sel' = s /\ links' = {d} \cap Tunnels /\ mode' = mode
        /\ k' = Fix(off, mode, d, links') /\ Reinstall
    BY <1>8 DEF Select
  <2> HIDE DEF off, d
  <2> QED
    BY <2>1, <2>3, <2>4, FixTyped DEF Reinstall
<1>9. CASE Watch
  BY <1>1, <1>9, FixTyped DEF Watch, Reinstall
<1>10. CASE UNCHANGED vars
  BY <1>10 DEF vars
<1>11. QED
  BY <1>2, <1>3, <1>4, <1>5, <1>6, <1>7, <1>8, <1>9, <1>10 DEF Next

\* Every script leaves well-formed tables, and never more than the marks that
\* were there and its own.
THEOREM TablesTyped == Spec => []TypeOK
<1>1. QED
  BY TypeInit, TypeNext, PTL DEF Spec

---------------------------------------------------------------------------
(* Traffic follows mode and choice.                                        *)

LEMMA SoundInit == Init => Sound
<1> SUFFICES ASSUME Init PROVE Sound
  OBVIOUS
<1>1. CASE AnyKernel
  BY <1>1 DEF Init, Sound
<1>2. CASE ~AnyKernel
  <2>1. Clean \in Kernel /\ Ready(Clean, mode)
    BY DEF Clean, Kernel, KernelWith, Ready
  <2>2. mode \in Modes /\ Dev \in Devices /\ links = {} /\ k = Setup(Clean, mode, Dev, {})
    BY <1>2, DeviceTyped DEF Init, Dev
  <2>3. Good(k, mode, Dev, links)
    BY <2>1, <2>2, SetupGood
  <2>4. QED
    BY <2>3 DEF Sound, Good
<1>3. QED
  BY <1>1, <1>2

LEMMA SoundNext == TypeOK /\ Sound /\ [Next]_vars => Sound'
<1> SUFFICES ASSUME TypeOK, Sound, [Next]_vars PROVE Sound'
  OBVIOUS
<1> USE DEF TypeOK
<1>1. Dev \in Devices
  BY DeviceTyped DEF Dev
<1>2. ASSUME NEW m \in Modes, SetMode(m) PROVE Sound'
  <2> DEFINE s == Setup(Teardown(k), m, Dev, links)
  <2>1. Teardown(k) \in Kernel /\ Ready(Teardown(k), m)
    BY TeardownTyped, TeardownReady
  <2>2. s \in Kernel /\ Good(s, m, Dev, links)
    BY <1>1, <2>1, SetupTyped, SetupGood
  <2>3. mode' = m /\ links' = links /\ sel' = sel
        /\ k' = (IF Dev \in links THEN Fix(s, m, Dev, links) ELSE s)
    BY <1>2 DEF SetMode
  <2> HIDE DEF s
  <2>4. Good(k', m, Dev, links)
    <3>1. Ready(s, m)
      BY <2>2 DEF Good
    <3> QED
      BY <1>1, <2>2, <2>3, <3>1, FixGood
  <2> QED
    BY <2>3, <2>4 DEF Sound, Good, Dev
<1>3. ASSUME NEW c \in Calls, Call(c) PROVE Sound'
  <2>1. CASE c = "setup"
    BY <1>1, <1>3, <2>1, SetupGood DEF Call, Reinstall, Sound, Good, Dev
  <2>2. CASE c = "fix"
    BY <1>1, <1>3, <2>2, FixGood DEF Call, Reinstall, Sound, Good, Dev
  <2>3. CASE c = "teardown"
    BY <1>3, <2>3, TeardownReady DEF Call, Sound
  <2> QED
    BY <2>1, <2>2, <2>3 DEF Calls
<1>4. CASE RestartService
  <2> DEFINE s == Setup(Teardown(k), mode, Dev, links)
  <2>1. s \in Kernel /\ Good(s, mode, Dev, links)
    BY <1>1, TeardownTyped, TeardownReady, SetupTyped, SetupGood
  <2>2. mode' = mode /\ links' = links /\ sel' = sel
        /\ k' = (IF links = {} THEN s ELSE Fix(s, mode, Dev, links))
    BY <1>4 DEF RestartService
  <2> HIDE DEF s
  <2>3. Good(k', mode, Dev, links)
    <3>1. Ready(s, mode)
      BY <2>1 DEF Good
    <3> QED
      BY <1>1, <2>1, <2>2, <3>1, FixGood
  <2> QED
    BY <2>2, <2>3 DEF Sound, Good, Dev
<1>5. ASSUME NEW d \in Tunnels, LinkUp(d) PROVE Sound'
  BY <1>1, <1>5, FixGood DEF LinkUp, Reinstall, Sound, Good, Dev
<1>6. CASE VpnDown
  <2> DEFINE t == Without(k, "amn0")
  <2>1. t \in Kernel
    BY DownTyped DEF Tunnels
  <2>2. /\ trust # "unknown" => Ready(t, mode)
        /\ trust = "installed" => Good(t, mode, Dev, links \ {"amn0"})
    BY <1>1, WithoutGood DEF Sound, Tunnels
  <2>3. mode' = mode /\ sel' = sel /\ trust' = trust
        /\ links' = links \ {"amn0"} /\ k' = OnVpnDown(t, sel)
    BY <1>6 DEF VpnDown
  <2> HIDE DEF t
  <2> QED
    BY <2>1, <2>2, <2>3, OnVpnDownGood DEF Sound, Dev
<1>7. CASE XrayDown
  BY <1>1, <1>7, WithoutGood DEF XrayDown, Sound, Dev, Tunnels
<1>8. ASSUME NEW s \in Choices, Select(s) PROVE Sound'
  <2> DEFINE d == DeviceOf(s)
             up == IF d \in Tunnels \ links \/ d = "xray0"
                     THEN Fix(Without(k, d), mode, Dev, links \cup {d}) ELSE k
             x == Without(up, "xray0")
             off == IF s = "xray" THEN Without(up, "amn0")
                    ELSE IF s = "none" /\ "amn0" \in links
                           THEN OnVpnDown(Without(x, "amn0"), s) ELSE x
  <2>1. d \in Devices
    BY DeviceTyped
  <2>2. up \in Kernel /\ (Ready(k, mode) => Ready(up, mode))
    <3>1. CASE d \in Tunnels \ links \/ d = "xray0"
      <4>1. d \in Tunnels /\ links \cup {d} \in SUBSET Tunnels
        BY <3>1 DEF Tunnels
      <4>2. Without(k, d) \in Kernel /\ (Ready(k, mode) => Ready(Without(k, d), mode))
        BY <1>1, <4>1, DownTyped, WithoutGood
      <4>3. up = Fix(Without(k, d), mode, Dev, links \cup {d})
        BY <3>1
      <4> QED
        BY <1>1, <4>1, <4>2, <4>3, FixTyped, FixGood DEF Good
    <3>2. CASE ~(d \in Tunnels \ links \/ d = "xray0")
      BY <3>2
    <3> QED
      BY <3>1, <3>2
  <2>3. off \in Kernel /\ (Ready(k, mode) => Ready(off, mode))
    <3> HIDE DEF up, d
    <3>1. /\ x \in Kernel /\ (Ready(k, mode) => Ready(x, mode))
          /\ Without(up, "amn0") \in Kernel
          /\ Ready(k, mode) => Ready(Without(up, "amn0"), mode)
      BY <1>1, <2>2, DownTyped, WithoutGood DEF Tunnels
    <3> HIDE DEF x
    <3>2. Without(x, "amn0") \in Kernel
          /\ (Ready(k, mode) => Ready(Without(x, "amn0"), mode))
      BY <1>1, <3>1, DownTyped, WithoutGood DEF Tunnels
    <3> QED
      BY <3>1, <3>2, DownTyped, OnVpnDownGood DEF Tunnels
  <2>4. /\ sel' = s /\ links' = {d} \cap Tunnels /\ mode' = mode
        /\ k' = Fix(off, mode, d, links') /\ Reinstall
    BY <1>8 DEF Select
  <2>5. Dev' = d
    BY <2>4 DEF Dev
  <2> HIDE DEF off, d
  <2>6. trust # "unknown" => Good(k', mode, d, links')
    BY <2>1, <2>3, <2>4, FixGood DEF Sound
  <2> QED
    BY <2>4, <2>5, <2>6 DEF Reinstall, Sound, Good
<1>9. CASE Watch
  BY <1>1, <1>9, FixGood DEF Watch, Reinstall, Sound, Good, Dev
<1>10. CASE UNCHANGED vars
  BY <1>10 DEF vars, Sound, Dev
<1>11. QED
  BY <1>2, <1>3, <1>4, <1>5, <1>6, <1>7, <1>8, <1>9, <1>10 DEF Next

LEMMA SoundRests == TypeOK /\ Sound => RestTraffic /\ PathsCarried
<1> SUFFICES ASSUME TypeOK, Sound, trust = "installed"
             PROVE  RestTraffic /\ PathsCarried
  BY DEF RestTraffic, PathsCarried
<1>1. Good(k, mode, Dev, links) /\ Ready(k, mode)
  BY DEF Sound, Good
<1>2. Dev \in Devices /\ Dev # "lan" /\ "lan" \notin links /\ "none" \notin links
  BY DeviceTyped DEF Dev, TypeOK, Devices, Tunnels
<1>3. mode \in Modes
  BY DEF TypeOK
<1>4. k.marks \in Nat /\ ForwardRules("lan") = {} /\ ForwardRules("none") = {}
  BY DEF TypeOK, Kernel, KernelWith, ForwardRules
<1>5. CASE mode = "split"
  <2>1. OtherPath(k) = "lan"
    BY <1>1, <1>5 DEF OtherPath, Ready
  <2>2. ListedPath(k) = IF Dev \in links THEN Dev ELSE "lan"
    BY <1>1, <1>2, <1>4, <1>5 DEF ListedPath, Good, Ready
  <2>3. k.ipset /\ k.attached /\ (Dev \in links => ForwardRules(Dev) \subseteq k.rules)
    BY <1>1, <1>5 DEF Good
  <2> QED
    BY <1>4, <1>5, <2>1, <2>2, <2>3 DEF RestTraffic, PathsCarried
<1>6. CASE mode = "all-vpn"
  <2>1. ListedPath(k) = k.default /\ OtherPath(k) = k.default /\ ~k.rule
    BY <1>1, <1>6 DEF ListedPath, OtherPath, Ready
  <2>2. /\ Dev \in links => k.default = Dev /\ ForwardRules(Dev) \subseteq k.rules
        /\ Dev \notin links => k.default \in {"lan", "none"}
    BY <1>1, <1>6 DEF Good
  <2> QED
    BY <1>4, <1>6, <2>1, <2>2 DEF RestTraffic, PathsCarried
<1>7. CASE mode = "all-direct"
  <2>1. ListedPath(k) = "lan" /\ OtherPath(k) = "lan" /\ ~k.rule
    BY <1>1, <1>7 DEF ListedPath, OtherPath, Ready
  <2> QED
    BY <1>4, <1>7, <2>1 DEF RestTraffic, PathsCarried
<1>8. QED
  BY <1>3, <1>5, <1>6, <1>7 DEF Modes

\* In any order of mode changes, selections, restarts, endpoint calls and
\* tunnel ups and downs, from any tables a mode change has once repaired,
\* traffic goes where mode and choice say.
THEOREM TrafficFollows == Spec => []RestTraffic
<1>1. Init => TypeOK /\ Sound
  BY TypeInit, SoundInit
<1>2. TypeOK /\ Sound /\ [Next]_vars => (TypeOK /\ Sound)'
  BY TypeNext, SoundNext
<1>3. TypeOK /\ Sound => RestTraffic
  BY SoundRests
<1>4. QED
  BY <1>1, <1>2, <1>3, PTL DEF Spec

\* ... and every path through a tunnel has the rules that carry it.
THEOREM TrafficCarried == Spec => []PathsCarried
<1>1. Init => TypeOK /\ Sound
  BY TypeInit, SoundInit
<1>2. TypeOK /\ Sound /\ [Next]_vars => (TypeOK /\ Sound)'
  BY TypeNext, SoundNext
<1>3. TypeOK /\ Sound => PathsCarried
  BY SoundRests
<1>4. QED
  BY <1>1, <1>2, <1>3, PTL DEF Spec

---------------------------------------------------------------------------
(* A second run changes nothing.                                           *)

\* Two kernels with the same fields are the same kernel.
LEMMA KernelEqual ==
  ASSUME NEW s \in Kernel, NEW t \in Kernel,
         s.default = t.default, s.table = t.table, s.dns = t.dns, s.rule = t.rule,
         s.marks = t.marks, s.ipset = t.ipset, s.attached = t.attached, s.rules = t.rules
  PROVE  s = t
BY DEF Kernel, KernelWith

LEMMA SplitTwice ==
  ASSUME NEW t \in Kernel, t.marks < 2, NEW d \in Devices, NEW ls \in SUBSET Tunnels
  PROVE  LET s == SetupSplit(t, d, ls) IN SetupSplit(s, d, ls) = s
<1> DEFINE s == SetupSplit(t, d, ls)
           u == SetupSplit(s, d, ls)
<1>1. SplitResult(s, t, d, ls)
  BY SplitTyped
<1>s. s \in Kernel
  BY <1>1 DEF SplitResult
<1> HIDE DEF s
<1>2. SplitResult(u, s, d, ls)
  BY <1>s, SplitTyped
<1> HIDE DEF u
<1>3. t.marks \in 0..1 /\ OneLess(t.marks) = 0
  <2>1. t.marks \in 0..2
    BY DEF Kernel, KernelWith
  <2> QED
    BY <2>1 DEF OneLess
<1>4. u.marks = s.marks
  BY <1>1, <1>2, <1>3 DEF SplitResult, OneLess
<1>5. u.rules = s.rules
  BY <1>1, <1>2 DEF SplitResult
<1>6. u = s
  BY <1>1, <1>2, <1>4, <1>5, KernelEqual DEF SplitResult
<1>7. QED
  BY <1>6 DEF s, u

LEMMA SetupTwice ==
  ASSUME NEW t \in Kernel, t.marks < 2, NEW m \in Modes, NEW d \in Devices,
         NEW ls \in SUBSET Tunnels
  PROVE  LET s == Setup(t, m, d, ls) IN Setup(s, m, d, ls) = s
<1>1. CASE m = "split"
  BY <1>1, SplitTwice DEF Setup
<1>2. CASE m = "all-vpn"
  <2> DEFINE s == SetupAllVpn(t, d, ls)
             u == SetupAllVpn(s, d, ls)
  <2>1. /\ s \in Kernel
        /\ s.default = IF d \in ls THEN d ELSE "lan"
        /\ s.table = IF d = "none" THEN "none" ELSE t.table
        /\ s.rules = t.rules \cup ForwardRules(d)
    BY AllVpnTyped
  <2> HIDE DEF s
  <2>2. /\ u \in Kernel
        /\ u.default = IF d \in ls THEN d ELSE "lan"
        /\ u.table = IF d = "none" THEN "none" ELSE s.table
        /\ u.dns = s.dns /\ u.rule = s.rule /\ u.ipset = s.ipset
        /\ u.attached = s.attached /\ u.marks = s.marks
        /\ u.rules = s.rules \cup ForwardRules(d)
    BY <2>1, AllVpnTyped
  <2> HIDE DEF u
  <2>3. u = s
    BY <2>1, <2>2, KernelEqual, ZenonT(40)
  <2> QED
    BY <1>2, <2>3 DEF Setup, s, u
<1>3. CASE m = "all-direct"
  <2> DEFINE s == SetupAllDirect(t)
  <2>1. s \in Kernel /\ s.default = "lan" /\ LanRules \subseteq s.rules
    BY DEF SetupAllDirect, EnsureLan, AddRules, LanRules, RuleNames, Kernel, KernelWith
  <2> HIDE DEF s
  <2>2. SetupAllDirect(s) \in Kernel
        /\ SetupAllDirect(s) = [s EXCEPT !.default = "lan", !.rules = @ \cup LanRules]
    BY <2>1, AllDirectTyped
  <2>3. SetupAllDirect(s) = [s EXCEPT !.default = s.default, !.rules = s.rules]
    BY <2>1, <2>2
  <2>4. SetupAllDirect(s) = s
    BY <2>1, <2>3 DEF Kernel, KernelWith
  <2> QED
    BY <1>3, <2>4 DEF Setup, s
<1>4. QED
  BY <1>1, <1>2, <1>3 DEF Modes

\* fix-routes has nothing left to do on its own result.
LEMMA FixedAlready ==
  ASSUME NEW t \in Kernel, NEW m \in Modes, NEW d \in Tunnels, NEW ls \in SUBSET Tunnels,
         d \in ls
  PROVE  LET f == Setup(FixRoutes(t, m, d), m, d, ls) IN FixRoutes(f, m, d) = f
<1> DEFINE r == FixRoutes(t, m, d)
           f == Setup(r, m, d, ls)
<1>1. r \in Kernel /\ d \in Devices /\ d # "none"
  BY FixRoutesTyped DEF Devices, Tunnels
<1>2. f \in Kernel
  <2> HIDE DEF r
  <2> QED
    BY <1>1, SetupTyped
<1>3. /\ m = "split" => r.default = "lan" /\ r.table = d /\ r.dns = d
      /\ m = "all-direct" => r.default = "lan" /\ r.dns # d
  BY <1>1 DEF FixRoutes, Kernel, KernelWith
<1>4. CASE m = "split"
  <2>1. SplitResult(f, r, d, ls)
    BY <1>1, <1>4, SplitTyped DEF Setup
  <2> HIDE DEF r, f
  <2>2. f.default = "lan" /\ f.table = d /\ f.dns = d
    BY <1>3, <1>4, <2>1 DEF SplitResult
  <2>3. FixRoutes(f, m, d) = f
    BY <1>2, <1>4, <2>2 DEF FixRoutes, Kernel, KernelWith
  <2> QED
    BY <2>3 DEF r, f
<1>5. CASE m = "all-vpn"
  <2>1. f.default = d
    <3> HIDE DEF r
    <3>1. f = SetupAllVpn(r, d, ls)
      BY <1>5 DEF Setup
    <3> QED
      BY <1>1, <3>1, AllVpnTyped
  <2> HIDE DEF r, f
  <2>2. FixRoutes(f, m, d) = f
    BY <1>2, <1>5, <2>1 DEF FixRoutes, Kernel, KernelWith
  <2> QED
    BY <2>2 DEF r, f
<1>6. CASE m = "all-direct"
  <2>1. f.default = "lan" /\ f.dns # d
    <3> HIDE DEF r
    <3>1. f = SetupAllDirect(r)
      BY <1>6 DEF Setup
    <3>2. f = [r EXCEPT !.default = "lan", !.rules = @ \cup LanRules]
      BY <1>1, <3>1, AllDirectTyped
    <3> QED
      BY <1>1, <1>3, <1>6, <3>2 DEF Kernel, KernelWith
  <2> HIDE DEF r, f
  <2>2. FixRoutes(f, m, d) = f
    BY <1>2, <1>6, <2>1 DEF FixRoutes, Kernel, KernelWith
  <2> QED
    BY <2>2 DEF r, f
<1>7. QED
  BY <1>4, <1>5, <1>6 DEF Modes

LEMMA FixTwice ==
  ASSUME NEW t \in Kernel, t.marks < 2, NEW m \in Modes, NEW d \in Devices,
         NEW ls \in SUBSET Tunnels
  PROVE  LET f == Fix(t, m, d, ls) IN Fix(f, m, d, ls) = f
<1>1. CASE d \in ls
  <2> DEFINE r == FixRoutes(t, m, d)
             f == Setup(r, m, d, ls)
  <2>1. d \in Tunnels
    BY <1>1
  <2>2. r \in Kernel /\ r.marks < 2
    <3>1. r \in Kernel
      BY <2>1, FixRoutesTyped
    <3>2. r.marks = t.marks
      BY DEF FixRoutes, Modes, Kernel, KernelWith
    <3>3. QED
      BY <3>1, <3>2
  <2>3. FixRoutes(f, m, d) = f
    BY <1>1, <2>1, FixedAlready
  <2>4. Setup(f, m, d, ls) = f
    <3> HIDE DEF r
    <3> QED
      BY <2>2, SetupTwice
  <2>5. Fix(t, m, d, ls) = f
    BY <1>1 DEF Fix
  <2> HIDE DEF f
  <2>6. Fix(f, m, d, ls) = f
    BY <1>1, <2>3, <2>4 DEF Fix
  <2> QED
    BY <2>5, <2>6
<1>2. CASE d \notin ls
  BY <1>2, SetupTwice DEF Fix
<1>3. QED
  BY <1>1, <1>2

\* setup-routing and fix-routes are idempotent on every table that a race has
\* not left with a doubled mark rule, in any mode and for any choice.
THEOREM ScriptsIdempotent == Spec => []Idempotent
<1>1. TypeOK => Idempotent
  <2> SUFFICES ASSUME TypeOK, NEW m \in Modes, NEW d \in Devices,
                      NEW ls \in SUBSET Tunnels, k.marks < 2
               PROVE  /\ LET s == Setup(k, m, d, ls) IN Setup(s, m, d, ls) = s
                      /\ LET f == Fix(k, m, d, ls) IN Fix(f, m, d, ls) = f
    BY DEF Idempotent, Devices
  <2> QED
    BY SetupTwice, FixTwice DEF TypeOK
<1>2. QED
  BY <1>1, TablesTyped, PTL
---------------------------------------------------------------------------
(* The resolvers stay on the tunnel.                                       *)

\* In all-vpn mode the resolvers have no routes of their own: fix-routes adds
\* them in split mode, and a teardown comes before the mode changes.
NoOwnRoutes(t, m) == m = "all-vpn" => t.dns = "none"

DnsRight(t, m, d, ls) == m # "all-direct" /\ d \in ls => DnsPath(t) = d

DnsInv == trust # "unknown" => NoOwnRoutes(k, mode)

LEMMA SetupDns ==
  ASSUME NEW t \in Kernel, NEW m \in Modes, NEW d \in Devices, NEW ls \in SUBSET Tunnels,
         NoOwnRoutes(t, m)
  PROVE  /\ NoOwnRoutes(Setup(t, m, d, ls), m)
         /\ DnsRight(t, m, d, ls) => DnsRight(Setup(t, m, d, ls), m, d, ls)
<1>1. CASE m = "split"
  <2>1. SplitResult(SetupSplit(t, d, ls), t, d, ls)
    BY SplitTyped
  <2>2. Setup(t, m, d, ls) = SetupSplit(t, d, ls)
    BY <1>1 DEF Setup
  <2> QED
    BY <1>1, <2>1, <2>2 DEF SplitResult, NoOwnRoutes, DnsRight, DnsPath
<1>2. CASE m = "all-vpn"
  <2>1. Setup(t, m, d, ls) = SetupAllVpn(t, d, ls)
    BY <1>2 DEF Setup
  <2>2. /\ SetupAllVpn(t, d, ls).default = IF d \in ls THEN d ELSE "lan"
        /\ SetupAllVpn(t, d, ls).dns = t.dns
    BY AllVpnTyped
  <2> QED
    BY <1>2, <2>1, <2>2 DEF NoOwnRoutes, DnsRight, DnsPath
<1>3. CASE m = "all-direct"
  BY <1>3 DEF NoOwnRoutes, DnsRight
<1> QED
  BY <1>1, <1>2, <1>3 DEF Modes

LEMMA FixDns ==
  ASSUME NEW t \in Kernel, NEW m \in Modes, NEW d \in Devices, NEW ls \in SUBSET Tunnels,
         NoOwnRoutes(t, m)
  PROVE  /\ NoOwnRoutes(Fix(t, m, d, ls), m)
         /\ DnsRight(Fix(t, m, d, ls), m, d, ls)
<1>1. CASE d \notin ls
  BY <1>1, SetupDns DEF Fix, DnsRight
<1>2. CASE d \in ls
  <2> DEFINE r == FixRoutes(t, m, d)
  <2>1. d \in Tunnels /\ r \in Kernel
    BY <1>2, FixRoutesTyped
  <2>2. /\ m = "split" => r.dns = d
        /\ m = "all-vpn" => r.default = d /\ r.dns = t.dns
    BY DEF FixRoutes, Kernel, KernelWith
  <2>3. Fix(t, m, d, ls) = Setup(r, m, d, ls)
    BY <1>2 DEF Fix
  <2> HIDE DEF r
  <2>4. NoOwnRoutes(r, m) /\ DnsRight(r, m, d, ls)
    BY <2>1, <2>2 DEF NoOwnRoutes, DnsRight, DnsPath, Modes, Tunnels
  <2> QED
    BY <2>1, <2>3, <2>4, SetupDns
<1> QED
  BY <1>1, <1>2

LEMMA TeardownDns ==
  ASSUME NEW t \in Kernel, NEW m \in Modes PROVE NoOwnRoutes(Teardown(t), m)
BY DEF Teardown, NoOwnRoutes, Kernel, KernelWith

\* An interface that disappears takes the resolvers with it only if it was
\* theirs.
LEMMA WithoutDns ==
  ASSUME NEW t \in Kernel, NEW m \in Modes, NEW d \in Devices, NEW ls \in SUBSET Tunnels,
         NEW e \in Tunnels
  PROVE  /\ NoOwnRoutes(t, m) => NoOwnRoutes(Without(t, e), m)
         /\ DnsRight(t, m, d, ls) => DnsRight(Without(t, e), m, d, ls \ {e})
<1>1. /\ Without(t, e).default = IF t.default = e THEN "none" ELSE t.default
      /\ Without(t, e).dns = IF t.dns = e THEN "none" ELSE t.dns
  BY DEF Without, Kernel, KernelWith
<1>2. "none" # e
  BY DEF Tunnels
<1> QED
  BY <1>1, <1>2 DEF NoOwnRoutes, DnsRight, DnsPath

LEMMA OnVpnDownDns ==
  ASSUME NEW t \in Kernel, NEW m \in Modes, NEW s \in Choices, NEW ls \in SUBSET Tunnels,
         "amn0" \notin ls
  PROVE  /\ NoOwnRoutes(t, m) => NoOwnRoutes(OnVpnDown(t, s), m)
         /\ DnsRight(t, m, DeviceOf(s), ls) => DnsRight(OnVpnDown(t, s), m, DeviceOf(s), ls)
<1>1. CASE s = "xray"
  BY <1>1 DEF OnVpnDown
<1>2. CASE s # "xray"
  <2>1. OnVpnDown(t, s).dns = t.dns
    BY <1>2 DEF OnVpnDown, EnsureLan, Kernel, KernelWith
  <2>2. DeviceOf(s) \notin ls
    BY <1>2 DEF DeviceOf, Choices, Tunnels
  <2> QED
    BY <2>1, <2>2 DEF NoOwnRoutes, DnsRight
<1> QED
  BY <1>1, <1>2

LEMMA DnsInit == Init => DnsInv
<1> SUFFICES ASSUME Init, ~AnyKernel PROVE NoOwnRoutes(k, mode)
  BY DEF Init, DnsInv
<1>1. Clean \in Kernel /\ NoOwnRoutes(Clean, mode)
  BY DEF Clean, Kernel, KernelWith, NoOwnRoutes
<1>2. mode \in Modes /\ Dev \in Devices /\ k = Setup(Clean, mode, Dev, {})
  BY DeviceTyped DEF Init, Dev
<1> QED
  BY <1>1, <1>2, SetupDns

\* A step keeps the resolvers on the tunnel, and keeps what it needs for that.
DnsKept ==
  /\ DnsInv'
  /\ trust # "torn" /\ DnsThroughTunnel => DnsThroughTunnel'

LEMMA DnsNext == TypeOK /\ DnsInv /\ [Next]_vars => DnsKept
<1> SUFFICES ASSUME TypeOK, DnsInv, [Next]_vars PROVE DnsKept
  OBVIOUS
<1> USE DEF TypeOK
<1>1. Dev \in Devices
  BY DeviceTyped DEF Dev
<1>2. ASSUME NEW m \in Modes, SetMode(m) PROVE DnsKept
  <2> DEFINE s == Setup(Teardown(k), m, Dev, links)
  <2>1. s \in Kernel /\ NoOwnRoutes(s, m)
    BY <1>1, TeardownTyped, TeardownDns, SetupTyped, SetupDns
  <2>2. mode' = m /\ links' = links /\ sel' = sel
        /\ k' = (IF Dev \in links THEN Fix(s, m, Dev, links) ELSE s)
    BY <1>2 DEF SetMode
  <2> HIDE DEF s
  <2>3. NoOwnRoutes(k', m) /\ DnsRight(k', m, Dev, links)
    <3>1. CASE Dev \in links
      BY <1>1, <2>1, <2>2, <3>1, FixDns
    <3>2. CASE Dev \notin links
      BY <2>1, <2>2, <3>2 DEF DnsRight
    <3> QED
      BY <3>1, <3>2
  <2> QED
    BY <2>2, <2>3 DEF DnsKept, DnsInv, DnsThroughTunnel, DnsRight, Dev
<1>3. ASSUME NEW c \in Calls, Call(c) PROVE DnsKept
  <2>1. UNCHANGED <<mode, sel, links>> /\ Dev' = Dev
    BY <1>3 DEF Call, Dev
  <2>2. CASE c = "setup"
    <3>1. k' = Setup(k, mode, Dev, links) /\ Reinstall
      BY <1>3, <2>2 DEF Call
    <3>2. trust # "unknown" =>
            /\ NoOwnRoutes(k', mode)
            /\ DnsRight(k, mode, Dev, links) => DnsRight(k', mode, Dev, links)
      BY <1>1, <3>1, SetupDns DEF DnsInv
    <3> QED
      BY <2>1, <3>1, <3>2 DEF Reinstall, DnsKept, DnsInv, DnsThroughTunnel, DnsRight
  <2>3. CASE c = "fix"
    <3>1. k' = Fix(k, mode, Dev, links) /\ Reinstall
      BY <1>3, <2>3 DEF Call
    <3>2. trust # "unknown" => NoOwnRoutes(k', mode) /\ DnsRight(k', mode, Dev, links)
      BY <1>1, <3>1, FixDns DEF DnsInv
    <3> QED
      BY <2>1, <3>1, <3>2 DEF Reinstall, DnsKept, DnsInv, DnsThroughTunnel, DnsRight
  <2>4. CASE c = "teardown"
    <3>1. k' = Teardown(k) /\ trust' # "installed"
      BY <1>3, <2>4 DEF Call
    <3>2. NoOwnRoutes(k', mode)
      BY <3>1, TeardownDns
    <3> QED
      BY <2>1, <3>1, <3>2 DEF DnsKept, DnsInv, DnsThroughTunnel
  <2> QED
    BY <2>2, <2>3, <2>4 DEF Calls
<1>4. CASE RestartService
  <2> DEFINE s == Setup(Teardown(k), mode, Dev, links)
  <2>1. s \in Kernel /\ NoOwnRoutes(s, mode)
    BY <1>1, TeardownTyped, TeardownDns, SetupTyped, SetupDns
  <2>2. mode' = mode /\ links' = links /\ sel' = sel /\ Dev' = Dev
        /\ k' = (IF links = {} THEN s ELSE Fix(s, mode, Dev, links))
    BY <1>4 DEF RestartService, Dev
  <2> HIDE DEF s
  <2>3. NoOwnRoutes(k', mode) /\ DnsRight(k', mode, Dev, links)
    <3>1. CASE links # {}
      BY <1>1, <2>1, <2>2, <3>1, FixDns
    <3>2. CASE links = {}
      BY <2>1, <2>2, <3>2 DEF DnsRight
    <3> QED
      BY <3>1, <3>2
  <2> QED
    BY <2>2, <2>3 DEF DnsKept, DnsInv, DnsThroughTunnel, DnsRight
<1>5. CASE Watch \/ \E d \in Tunnels : LinkUp(d)
  <2>1. /\ k' = Fix(k, mode, Dev, links') /\ links' \in SUBSET Tunnels /\ Reinstall
        /\ mode' = mode /\ sel' = sel /\ Dev' = Dev
    BY <1>5 DEF Watch, LinkUp, Dev
  <2>2. trust # "unknown" => NoOwnRoutes(k', mode) /\ DnsRight(k', mode, Dev, links')
    BY <1>1, <2>1, FixDns DEF DnsInv
  <2> QED
    BY <2>1, <2>2 DEF Reinstall, DnsKept, DnsInv, DnsThroughTunnel, DnsRight
<1>6. CASE VpnDown
  <2> DEFINE t == Without(k, "amn0")
             ls == links \ {"amn0"}
  <2>1. t \in Kernel /\ ls \in SUBSET Tunnels
    BY DownTyped DEF Tunnels
  <2>2. mode' = mode /\ sel' = sel /\ trust' = trust /\ Dev' = Dev /\ links' = ls
        /\ k' = OnVpnDown(t, sel)
    BY <1>6 DEF VpnDown, Dev
  <2>3. /\ NoOwnRoutes(k, mode) => NoOwnRoutes(t, mode)
        /\ DnsRight(k, mode, Dev, links) => DnsRight(t, mode, Dev, ls)
    BY <1>1, WithoutDns DEF Tunnels
  <2>4. "amn0" \notin ls
    OBVIOUS
  <2> HIDE DEF t, ls
  <2>5. /\ NoOwnRoutes(t, mode) => NoOwnRoutes(k', mode)
        /\ DnsRight(t, mode, Dev, ls) => DnsRight(k', mode, Dev, ls)
    BY <2>1, <2>2, <2>4, OnVpnDownDns DEF Dev
  <2> QED
    BY <2>2, <2>3, <2>5 DEF DnsKept, DnsInv, DnsThroughTunnel, DnsRight
<1>7. CASE XrayDown
  <2>1. mode' = mode /\ sel' = sel /\ trust' = trust /\ Dev' = Dev /\ links' = links \ {"xray0"}
        /\ k' = Without(k, "xray0")
    BY <1>7 DEF XrayDown, Dev
  <2>2. /\ NoOwnRoutes(k, mode) => NoOwnRoutes(k', mode)
        /\ DnsRight(k, mode, Dev, links) => DnsRight(k', mode, Dev, links')
    BY <1>1, <2>1, WithoutDns DEF Tunnels
  <2> QED
    BY <2>1, <2>2 DEF DnsKept, DnsInv, DnsThroughTunnel, DnsRight
<1>8. ASSUME NEW s \in Choices, Select(s) PROVE DnsKept
  <2> DEFINE d == DeviceOf(s)
             up == IF d \in Tunnels \ links \/ d = "xray0"
                     THEN Fix(Without(k, d), mode, Dev, links \cup {d}) ELSE k
             x == Without(up, "xray0")
             off == IF s = "xray" THEN Without(up, "amn0")
                    ELSE IF s = "none" /\ "amn0" \in links
                           THEN OnVpnDown(Without(x, "amn0"), s) ELSE x
  <2>1. d \in Devices
    BY DeviceTyped
  <2>2. up \in Kernel /\ (NoOwnRoutes(k, mode) => NoOwnRoutes(up, mode))
    <3>1. CASE d \in Tunnels \ links \/ d = "xray0"
      <4>1. d \in Tunnels /\ links \cup {d} \in SUBSET Tunnels
        BY <3>1 DEF Tunnels
      <4>2. Without(k, d) \in Kernel /\ (NoOwnRoutes(k, mode) => NoOwnRoutes(Without(k, d), mode))
        BY <1>1, <4>1, DownTyped, WithoutDns
      <4>3. up = Fix(Without(k, d), mode, Dev, links \cup {d})
        BY <3>1
      <4> QED
        BY <1>1, <4>1, <4>2, <4>3, FixTyped, FixDns
    <3>2. CASE ~(d \in Tunnels \ links \/ d = "xray0")
      BY <3>2
    <3> QED
      BY <3>1, <3>2
  <2>3. off \in Kernel /\ (NoOwnRoutes(k, mode) => NoOwnRoutes(off, mode))
    <3> HIDE DEF up, d
    <3>1. /\ x \in Kernel /\ (NoOwnRoutes(k, mode) => NoOwnRoutes(x, mode))
          /\ Without(up, "amn0") \in Kernel
          /\ NoOwnRoutes(k, mode) => NoOwnRoutes(Without(up, "amn0"), mode)
      BY <1>1, <2>2, DownTyped, WithoutDns DEF Tunnels
    <3> HIDE DEF x
    <3>2. Without(x, "amn0") \in Kernel
          /\ (NoOwnRoutes(k, mode) => NoOwnRoutes(Without(x, "amn0"), mode))
      BY <1>1, <3>1, DownTyped, WithoutDns DEF Tunnels
    <3>3. /\ OnVpnDown(Without(x, "amn0"), s) \in Kernel
          /\ NoOwnRoutes(k, mode) => NoOwnRoutes(OnVpnDown(Without(x, "amn0"), s), mode)
      <4>1. {} \in SUBSET Tunnels /\ "amn0" \notin {}
        OBVIOUS
      <4> QED
        BY <3>2, <4>1, DownTyped, OnVpnDownDns DEF Tunnels
    <3> QED
      BY <3>1, <3>3
  <2>4. /\ sel' = s /\ links' = {d} \cap Tunnels /\ mode' = mode
        /\ k' = Fix(off, mode, d, links') /\ Reinstall
    BY <1>8 DEF Select
  <2>5. Dev' = d
    BY <2>4 DEF Dev
  <2> HIDE DEF off, d
  <2>6. trust # "unknown" => NoOwnRoutes(k', mode) /\ DnsRight(k', mode, d, links')
    BY <2>1, <2>3, <2>4, FixDns DEF DnsInv
  <2> QED
    BY <2>4, <2>5, <2>6 DEF Reinstall, DnsKept, DnsInv, DnsThroughTunnel, DnsRight
<1>9. CASE UNCHANGED vars
  BY <1>9 DEF vars, DnsKept, DnsInv, DnsThroughTunnel, Dev
<1> QED
  BY <1>2, <1>3, <1>4, <1>5, <1>6, <1>7, <1>8, <1>9 DEF Next

\* Once the resolvers are asked through the chosen tunnel, no script takes them
\* off it while it is up, except a teardown followed by a setup: every other
\* script that changes where the tunnel is ends with fix-routes.
THEOREM ResolversStay == Spec => DnsStays
<1>1. Init => TypeOK /\ DnsInv
  BY TypeInit, DnsInit
<1>2. TypeOK /\ DnsInv /\ [Next]_vars => DnsInv'
  BY DnsNext DEF DnsKept
<1>3. TypeOK /\ DnsInv /\ [Next]_vars
        => [trust # "torn" /\ DnsThroughTunnel => DnsThroughTunnel']_vars
  BY DnsNext DEF DnsKept
<1>4. TypeOK /\ [Next]_vars => TypeOK'
  BY TypeNext
<1> QED
  BY <1>1, <1>2, <1>3, <1>4, PTL DEF Spec, DnsStays

---------------------------------------------------------------------------
(* RouteRaces: overlapping runs of setup-routing.                          *)

LEMMA SetupAt ==
  /\ Len(SetupSteps) = 12 /\ DOMAIN SetupSteps = 1..12
  /\ SetupSteps[1] = <<"route", "aim">> /\ SetupSteps[2] = <<"make", "blocked">>
  /\ SetupSteps[3] = <<"drop", "reject">> /\ SetupSteps[4] = <<"drop", "accept">>
  /\ SetupSteps[5] = <<"insert", "reject">> /\ SetupSteps[6] = <<"insert", "accept">>
  /\ SetupSteps[7] = <<"create", "domains">> /\ SetupSteps[8] = <<"rule", "add">>
  /\ SetupSteps[9] = <<"route", "point">> /\ SetupSteps[10] = <<"drop", "mark">>
  /\ SetupSteps[11] = <<"append", "mark">> /\ SetupSteps[12] = <<"restart", "dnsmasq">>
BY DEF SetupSteps

RaceJobs == RoutingJobs \cup HostJobs

LEMMA StepsLen ==
  /\ \A j \in RaceJobs : Len(Steps[j]) \in 1..12
  /\ Steps["setup"] = SetupSteps
BY DEF Steps, SetupSteps, TeardownSteps, HostSteps, RaceJobs, RoutingJobs, HostJobs

\* Deleting one rule keeps the others.
LEMMA DeletionKeeps ==
  ASSUME NEW s \in Seq(HostRules), NEW i \in 1..Len(s),
         NEW x \in HostRules, x # s[i],
         NEW j \in 1..Len(s), s[j] = x
  PROVE  LET t == SubSeq(s, 1, i - 1) \o SubSeq(s, i + 1, Len(s))
         IN  \E l \in 1..Len(t) : t[l] = x
<1> DEFINE u == SubSeq(s, 1, i - 1)
           v == SubSeq(s, i + 1, Len(s))
<1>1. Len(s) \in Nat /\ i \in Nat /\ j \in Nat /\ 1 <= i /\ i <= Len(s) /\ 1 <= j /\ j <= Len(s)
  OBVIOUS
<1>2. u \in Seq(HostRules) /\ Len(u) = i - 1 /\ \A l \in 1..(i - 1) : u[l] = s[l]
  OBVIOUS
<1>3. v \in Seq(HostRules) /\ Len(v) = Len(s) - i /\ \A l \in 1..(Len(s) - i) : v[l] = s[i + l]
  OBVIOUS
<1> SUFFICES \E l \in 1..Len(u \o v) : (u \o v)[l] = x
  OBVIOUS
<1> HIDE DEF u, v
<1>4. /\ Len(u \o v) = Len(u) + Len(v)
      /\ \A l \in 1..(Len(u) + Len(v)) : (u \o v)[l] = IF l <= Len(u) THEN u[l] ELSE v[l - Len(u)]
  BY <1>2, <1>3, ConcatProperties
<1>5. CASE j < i
  <2>1. j \in 1..Len(u \o v) /\ (u \o v)[j] = u[j] /\ u[j] = s[j]
    BY <1>1, <1>2, <1>3, <1>4, <1>5
  <2>2. QED
    BY <2>1
<1>6. CASE j > i
  <2>1. j - 1 \in 1..Len(u \o v) /\ j - i \in 1..(Len(s) - i)
    BY <1>1, <1>2, <1>3, <1>4, <1>6
  <2>2. ~(j - 1 <= Len(u)) /\ (j - 1) - Len(u) = j - i /\ i + (j - i) = j
    BY <1>1, <1>2, <1>6
  <2>3. (u \o v)[j - 1] = v[j - i]
    BY <2>1, <2>2, <1>4
  <2>4. v[j - i] = s[j]
    BY <2>1, <2>2, <1>3
  <2>5. QED
    BY <2>1, <2>3, <2>4
<1>7. QED
  BY <1>1, <1>5, <1>6

LEMMA DeletionTyped ==
  ASSUME NEW s \in Seq(HostRules), NEW i \in 1..Len(s)
  PROVE  SubSeq(s, 1, i - 1) \o SubSeq(s, i + 1, Len(s)) \in Seq(HostRules)
<1>1. /\ SubSeq(s, 1, i - 1) \in Seq(HostRules)
      /\ SubSeq(s, i + 1, Len(s)) \in Seq(HostRules)
  OBVIOUS
<1>2. QED
  BY <1>1, ConcatProperties

\* What holds of the runners and of the sets at any time.
InPlace ==
  /\ RaceTypeOK
  /\ \A r \in Runners :
       /\ job[r] = "none" => found[r] = "unasked"
       /\ job[r] # "none" => at[r] <= Len(Steps[job[r]])
  /\ marks > 0 => "domains" \in sets

\* Some setup has yet to come to the last of these steps.
Ahead(first, last) ==
  \E q \in Runners : job[q] = "setup" /\ at[q] >= first /\ at[q] <= last

Marked == linked => marks > 0
TableRight == table = IF linked THEN "tunnel" ELSE "none"
Routed == fills /\ fwrule /\ TableRight

\* What a setup has behind it, as long as only setups run.
Behind(r) ==
  job[r] = "setup" =>
    /\ at[r] >= 3 => "blocked" \in sets
    /\ at[r] >= 8 => "domains" \in sets
    /\ at[r] >= 9 => fwrule
    /\ at[r] >= 10 => TableRight /\ ready[r] = linked
    /\ at[r] = 1 /\ found[r] # "unasked" => found[r] = "yes" /\ linked
    /\ at[r] = 9 /\ found[r] # "unasked" => (found[r] = "yes" <=> linked)

\* A setup that is about to fail, because another was there first, leaves one
\* that has got further or has ended.
Overtaken(r) ==
  job[r] = "setup" /\ found[r] = "no" =>
    /\ at[r] = 7 /\ "domains" \in sets =>
         (Marked \/ Ahead(8, 11)) /\ (Routed \/ Ahead(8, 12))
    /\ at[r] = 8 /\ fwrule =>
         (Marked \/ Ahead(9, 11)) /\ (Routed \/ Ahead(9, 12))

Undisturbed ==
  /\ \A r \in Runners : job[r] \notin {"teardown", "down"} /\ Behind(r) /\ Overtaken(r)
  /\ Present("reject") \/ Ahead(1, 5)
  /\ Marked \/ Ahead(1, 11)
  /\ Routed \/ Ahead(1, 12)

OnlySetups == during \in {"setup", "again", "setups"}
RaceInv ==
  /\ InPlace
  /\ during = "nothing" => AtRest
  /\ OnlySetups => Undisturbed

---------------------------------------------------------------------------
(* Undisturbed, by the kinds of steps that setups make.                    *)

\* A setup goes on to its next step, and no further setup is in its way.
Advances(r, i) ==
  /\ job[r] = "setup" /\ at[r] = i
  /\ job' = job /\ at' = [at EXCEPT ![r] = i + 1]
  /\ found' = [found EXCEPT ![r] = "unasked"]
  /\ linked' = linked /\ (fills => fills')
  /\ sets \subseteq sets' /\ (i = 7 \/ ("domains" \in sets' => "domains" \in sets))
  /\ (fwrule => fwrule') /\ (i = 8 \/ (fwrule' => fwrule))
  /\ TableRight => TableRight'
  /\ \A q \in Runners : q # r \/ i >= 10 => ready'[q] = ready[q]
  /\ i = 3 \/ (Present("reject") => Present("reject")')
  /\ i = 10 \/ (Marked => Marked')
  /\ i = 2 => "blocked" \in sets'
  /\ i = 5 => Present("reject")'
  /\ i = 7 => "domains" \in sets'
  /\ i = 8 => fwrule'
  /\ i = 9 => TableRight' /\ ready'[r] = linked
  /\ i = 11 => Marked'

LEMMA RunnersTyped ==
  ASSUME InPlace
  PROVE  /\ at \in [Runners -> Int] /\ found \in [Runners -> {"unasked", "yes", "no"}]
         /\ job \in [Runners -> RoutingJobs \cup HostJobs \cup {"none"}]
<1>1. /\ at \in [Runners -> 1..12] /\ found \in [Runners -> {"unasked", "yes", "no"}]
      /\ job \in [Runners -> RoutingJobs \cup HostJobs \cup {"none"}]
  BY Zenon DEF InPlace, RaceTypeOK
<1>2. at \in [Runners -> Int]
  BY <1>1
<1>3. QED
  BY <1>1, <1>2

LEMMA Advance ==
  ASSUME InPlace, Undisturbed, NEW r \in Runners, NEW i \in 1..11, Advances(r, i)
  PROVE  Undisturbed'
<1>1. /\ at \in [Runners -> Int] /\ found \in [Runners -> {"unasked", "yes", "no"}]
      /\ \A q \in Runners : at'[q] = IF q = r THEN i + 1 ELSE at[q]
      /\ \A q \in Runners : found'[q] = IF q = r THEN "unasked" ELSE found[q]
  <2>1. at \in [Runners -> Int] /\ found \in [Runners -> {"unasked", "yes", "no"}]
    BY RunnersTyped
  <2>2. at' = [at EXCEPT ![r] = i + 1] /\ found' = [found EXCEPT ![r] = "unasked"]
    BY DEF Advances
  <2>3. QED
    BY <2>1, <2>2
<1> USE DEF Advances
<1>2. ASSUME NEW m \in Int, NEW n \in Int, i # n, Ahead(m, n)
      PROVE  Ahead(m, n)'
  BY <1>1, <1>2 DEF Ahead
<1>3. Present("reject")' \/ Ahead(1, 5)'
  <2>1. CASE i \in {1, 2, 3, 4}
    BY <1>1, <2>1 DEF Ahead
  <2>2. CASE i \in 5..11
    BY <1>2, <2>2 DEF Undisturbed
  <2>3. QED
    BY <2>1, <2>2
<1>4. Marked' \/ Ahead(1, 11)'
  <2>1. CASE i <= 10
    BY <1>1, <2>1 DEF Ahead
  <2>2. QED
    BY <2>1
<1>5. Routed' \/ Ahead(1, 12)'
  BY <1>1 DEF Ahead
<1>6. ASSUME NEW q \in Runners
      PROVE  job'[q] \notin {"teardown", "down"} /\ Behind(q)'
  <2>1. Behind(q) /\ job[q] \notin {"teardown", "down"}
    BY DEF Undisturbed
  <2>2. CASE q = r
    BY <1>1, <2>1, <2>2 DEF Behind
  <2>3. CASE q # r
    BY <1>1, <2>1, <2>3 DEF Behind
  <2>4. QED
    BY <2>2, <2>3
<1>7. ASSUME NEW q \in Runners
      PROVE  Overtaken(q)'
  <2>1. CASE q = r
    BY <1>1, <2>1 DEF Overtaken
  <2>2. CASE q # r
    <3>1. Routed => Routed'
      BY DEF Routed
    <3>2. Marked \/ Ahead(9, 11) => Marked' \/ Ahead(9, 11)'
      <4>1. CASE i = 10
        BY <1>1, <4>1 DEF Ahead
      <4>2. CASE i # 10
        BY <1>2, <4>2
      <4>3. QED
        BY <4>1, <4>2
    <3>3. Marked \/ Ahead(8, 11) => Marked' \/ Ahead(8, 11)'
      <4>1. CASE i = 10
        BY <1>1, <4>1 DEF Ahead
      <4>2. CASE i # 10
        BY <1>2, <4>2
      <4>3. QED
        BY <4>1, <4>2
    <3>4. /\ Ahead(8, 12) => Ahead(8, 12)'
          /\ Ahead(9, 12) => Ahead(9, 12)'
      BY <1>2
    <3>5. job'[q] = job[q] /\ at'[q] = at[q] /\ found'[q] = found[q]
      BY <1>1, <2>2
    <3>6. Overtaken(q)
      BY DEF Undisturbed
    <3>7. ASSUME job[q] = "setup", found[q] = "no", at[q] = 7, "domains" \in sets'
          PROVE  (Marked' \/ Ahead(8, 11)') /\ (Routed' \/ Ahead(8, 12)')
      <4>1. CASE i = 7
        BY <1>1, <4>1 DEF Ahead
      <4>2. CASE i # 7
        BY <4>2, <3>1, <3>3, <3>4, <3>6, <3>7 DEF Overtaken
      <4>3. QED
        BY <4>1, <4>2
    <3>8. ASSUME job[q] = "setup", found[q] = "no", at[q] = 8, fwrule'
          PROVE  (Marked' \/ Ahead(9, 11)') /\ (Routed' \/ Ahead(9, 12)')
      <4>1. CASE i = 8
        BY <1>1, <4>1 DEF Ahead
      <4>2. CASE i # 8
        BY <4>2, <3>1, <3>2, <3>4, <3>6, <3>8 DEF Overtaken
      <4>3. QED
        BY <4>1, <4>2
    <3>9. QED
      BY <3>5, <3>7, <3>8 DEF Overtaken
  <2>3. QED
    BY <2>1, <2>2
<1>8. QED
  BY <1>3, <1>4, <1>5, <1>6, <1>7 DEF Undisturbed

\* The end of the last step.
LEMMA Finish ==
  ASSUME InPlace, Undisturbed, NEW r \in Runners,
         job[r] = "setup", at[r] = 12,
         job' = [job EXCEPT ![r] = "none"], at' = [at EXCEPT ![r] = 1],
         found' = [found EXCEPT ![r] = "unasked"],
         fills', UNCHANGED <<ready, chain, marks, sets, fwrule, table, linked>>
  PROVE  Undisturbed'
<1>1. /\ at \in [Runners -> Int] /\ found \in [Runners -> {"unasked", "yes", "no"}]
      /\ \A q \in Runners : at'[q] = IF q = r THEN 1 ELSE at[q]
      /\ \A q \in Runners : found'[q] = IF q = r THEN "unasked" ELSE found[q]
      /\ \A q \in Runners : job'[q] = IF q = r THEN "none" ELSE job[q]
  <2>1. /\ at \in [Runners -> Int] /\ found \in [Runners -> {"unasked", "yes", "no"}]
        /\ job \in [Runners -> RoutingJobs \cup HostJobs \cup {"none"}]
    BY RunnersTyped
  <2>2. QED
    BY <2>1
<1>2. ASSUME NEW m \in Int, NEW n \in Int, n < 12, Ahead(m, n)
      PROVE  Ahead(m, n)'
  BY <1>1, <1>2 DEF Ahead
<1>3. Routed'
  BY DEF Undisturbed, Behind, Routed, TableRight
<1>4. (Marked => Marked') /\ (Present("reject") => Present("reject")')
  BY DEF Marked, Present
<1>5. /\ Present("reject")' \/ Ahead(1, 5)'
      /\ Marked' \/ Ahead(1, 11)'
  BY <1>2, <1>4 DEF Undisturbed
<1>6. ASSUME NEW q \in Runners
      PROVE  job'[q] \notin {"teardown", "down"} /\ Behind(q)'
  <2>1. Behind(q) /\ job[q] \notin {"teardown", "down"}
    BY DEF Undisturbed
  <2>2. QED
    BY <1>1, <2>1 DEF Behind, TableRight
<1>7. ASSUME NEW q \in Runners
      PROVE  Overtaken(q)'
  <2>1. Overtaken(q)
    BY DEF Undisturbed
  <2>2. /\ Ahead(8, 11) => Ahead(8, 11)'
        /\ Ahead(9, 11) => Ahead(9, 11)'
    BY <1>2
  <2>3. QED
    BY <1>1, <1>3, <1>4, <2>1, <2>2 DEF Overtaken
<1>8. QED
  BY <1>3, <1>5, <1>6, <1>7 DEF Undisturbed

\* A setup that finds done what it was about to do, and gives up.
LEMMA GiveUp ==
  ASSUME InPlace, Undisturbed, NEW r \in Runners,
         job[r] = "setup", found[r] = "no",
         (at[r] = 7 /\ "domains" \in sets) \/ (at[r] = 8 /\ fwrule),
         job' = [job EXCEPT ![r] = "none"], at' = [at EXCEPT ![r] = 1],
         found' = [found EXCEPT ![r] = "unasked"],
         UNCHANGED <<ready, chain, marks, sets, fills, fwrule, table, linked>>
  PROVE  Undisturbed'
<1>1. /\ at \in [Runners -> Int] /\ found \in [Runners -> {"unasked", "yes", "no"}]
      /\ \A q \in Runners : at'[q] = IF q = r THEN 1 ELSE at[q]
      /\ \A q \in Runners : found'[q] = IF q = r THEN "unasked" ELSE found[q]
      /\ \A q \in Runners : job'[q] = IF q = r THEN "none" ELSE job[q]
  <2>1. /\ at \in [Runners -> Int] /\ found \in [Runners -> {"unasked", "yes", "no"}]
        /\ job \in [Runners -> RoutingJobs \cup HostJobs \cup {"none"}]
    BY RunnersTyped
  <2>2. QED
    BY <2>1
<1>2. ASSUME NEW m \in Int, NEW n \in Int, n < at[r] \/ m > at[r], Ahead(m, n)
      PROVE  Ahead(m, n)'
  <2>1. PICK q \in Runners : job[q] = "setup" /\ at[q] >= m /\ at[q] <= n
    BY <1>2 DEF Ahead
  <2>2. at[q] \in Int /\ at[r] \in Int
    BY <1>1
  <2>3. q # r
    BY <1>2, <2>1, <2>2
  <2>4. job'[q] = "setup" /\ at'[q] >= m /\ at'[q] <= n
    BY <1>1, <2>1, <2>3
  <2>5. QED
    BY <2>4 DEF Ahead
<1>3. /\ Marked => Marked'
      /\ Routed => Routed'
      /\ Present("reject") => Present("reject")'
  BY DEF Marked, Routed, TableRight, Present
<1>4. Overtaken(r)
  BY DEF Undisturbed
<1>5. /\ Marked' \/ Ahead(9, 11)' \/ (at[r] = 7 /\ Ahead(8, 11)')
      /\ Routed' \/ Ahead(9, 12)' \/ (at[r] = 7 /\ Ahead(8, 12)')
  BY <1>2, <1>3, <1>4 DEF Overtaken
<1>6. /\ Marked' \/ Ahead(8, 11)'
      /\ Routed' \/ Ahead(8, 12)'
  <2>1. /\ Ahead(9, 11)' => Ahead(8, 11)'
        /\ Ahead(9, 12)' => Ahead(8, 12)'
    BY <1>1 DEF Ahead
  <2>2. QED
    BY <1>5, <2>1
<1>7. /\ Present("reject")' \/ Ahead(1, 5)'
      /\ Marked' \/ Ahead(1, 11)'
      /\ Routed' \/ Ahead(1, 12)'
  <2>1. /\ Ahead(8, 11)' => Ahead(1, 11)'
        /\ Ahead(8, 12)' => Ahead(1, 12)'
    BY <1>1 DEF Ahead
  <2>2. QED
    BY <1>2, <1>3, <1>6, <2>1 DEF Undisturbed
<1>8. ASSUME NEW q \in Runners
      PROVE  job'[q] \notin {"teardown", "down"} /\ Behind(q)'
  <2>1. Behind(q) /\ job[q] \notin {"teardown", "down"}
    BY DEF Undisturbed
  <2>2. QED
    BY <1>1, <2>1 DEF Behind, TableRight
<1>9. ASSUME NEW q \in Runners
      PROVE  Overtaken(q)'
  <2>1. Overtaken(q)
    BY DEF Undisturbed
  <2>2. ASSUME q # r, job[q] = "setup", found[q] = "no", at[q] = 8, fwrule
        PROVE  (Marked' \/ Ahead(9, 11)') /\ (Routed' \/ Ahead(9, 12)')
    BY <1>2, <1>3, <2>1, <2>2 DEF Overtaken
  <2>3. QED
    BY <1>1, <1>6, <2>2 DEF Overtaken
<1>10. QED
  BY <1>7, <1>8, <1>9 DEF Undisturbed

\* A setup has asked, and acts on the answer next.
Asked(r, answer) ==
  /\ job[r] = "setup" /\ found' = [found EXCEPT ![r] = answer]
  /\ at[r] = 1 => answer = "yes" /\ linked
  /\ at[r] = 9 => (answer = "yes" <=> linked)
  /\ at[r] = 7 => "domains" \notin sets
  /\ at[r] = 8 => ~fwrule
  /\ UNCHANGED <<job, at, ready, chain, marks, sets, fills, fwrule, table, linked>>

LEMMA Asks ==
  ASSUME InPlace, Undisturbed, NEW r \in Runners, NEW answer \in {"yes", "no"},
         Asked(r, answer)
  PROVE  Undisturbed'
<1> USE DEF Asked
<1>1. /\ found \in [Runners -> {"unasked", "yes", "no"}]
      /\ \A q \in Runners : found'[q] = IF q = r THEN answer ELSE found[q]
  BY DEF InPlace, RaceTypeOK
<1>2. /\ \A m, n \in Int : Ahead(m, n) => Ahead(m, n)'
      /\ Marked => Marked'
      /\ Routed => Routed'
      /\ Present("reject") => Present("reject")'
  BY DEF Ahead, Marked, Routed, TableRight, Present
<1>3. ASSUME NEW q \in Runners
      PROVE  job'[q] \notin {"teardown", "down"} /\ Behind(q)' /\ Overtaken(q)'
  <2>1. Behind(q) /\ Overtaken(q) /\ job[q] \notin {"teardown", "down"}
    BY DEF Undisturbed
  <2>2. Behind(q)'
    BY <1>1, <2>1 DEF Behind, TableRight
  <2>3. Overtaken(q)'
    BY <1>1, <1>2, <2>1 DEF Overtaken
  <2>4. QED
    BY <2>1, <2>2, <2>3
<1>4. QED
  BY <1>2, <1>3 DEF Undisturbed

\* What another job than a setup does beside the setups.
LEMMA Beside ==
  ASSUME InPlace, Undisturbed, NEW r \in Runners,
         job[r] \notin RoutingJobs, job'[r] \notin RoutingJobs,
         \A q \in Runners \ {r} : /\ job'[q] = job[q] /\ at'[q] = at[q]
                                  /\ found'[q] = found[q] /\ ready'[q] = ready[q],
         sets \subseteq sets', "domains" \in sets' => "domains" \in sets,
         UNCHANGED <<chain, marks, fills, fwrule, table, linked>>
  PROVE  Undisturbed'
<1>1. /\ \A m, n \in Int : Ahead(m, n) => Ahead(m, n)'
      /\ Marked => Marked'
      /\ Routed => Routed'
      /\ Present("reject") => Present("reject")'
  BY DEF Ahead, Marked, Routed, TableRight, Present, RoutingJobs
<1>2. ASSUME NEW q \in Runners
      PROVE  job'[q] \notin {"teardown", "down"} /\ Behind(q)' /\ Overtaken(q)'
  <2>1. Behind(q) /\ Overtaken(q) /\ job[q] \notin {"teardown", "down"}
    BY DEF Undisturbed
  <2>2. CASE q = r
    BY <2>2 DEF RoutingJobs, Behind, Overtaken
  <2>3. CASE q # r
    <3>1. Behind(q)'
      BY <2>1, <2>3 DEF Behind, TableRight
    <3>2. Overtaken(q)'
      BY <1>1, <2>1, <2>3 DEF Overtaken
    <3>3. QED
      BY <2>1, <2>3, <3>1, <3>2
  <2>4. QED
    BY <2>2, <2>3
<1>3. QED
  BY <1>1, <1>2 DEF Undisturbed

\* A setup begins, alone or over other setups.
LEMMA Begins ==
  ASSUME InPlace, NEW r \in Runners, NEW first \in {1, 2}, Begin(r, "setup", first),
         AtRest \/ Undisturbed,
         UNCHANGED <<chain, marks, sets, fills, fwrule>>,
         UNCHANGED <<table, linked>> \/ AtRest
  PROVE  Undisturbed'
<1>1. /\ at \in [Runners -> Int] /\ job[r] = "none" /\ found[r] = "unasked"
      /\ \A q \in Runners : at'[q] = IF q = r THEN first ELSE at[q]
      /\ \A q \in Runners : job'[q] = IF q = r THEN "setup" ELSE job[q]
      /\ found' = found /\ ready' = ready
  BY DEF Begin, InPlace, RaceTypeOK, RoutingJobs, HostJobs
<1>2. Ahead(1, 5)' /\ Ahead(1, 11)' /\ Ahead(1, 12)'
  BY <1>1 DEF Ahead
<1>3. ASSUME NEW q \in Runners
      PROVE  job'[q] \notin {"teardown", "down"} /\ Behind(q)' /\ Overtaken(q)'
  <2>1. CASE q = r
    BY <1>1, <2>1 DEF Behind, Overtaken
  <2>2. CASE q # r /\ AtRest
    BY <1>1, <2>2 DEF AtRest, RoutingJobs, Behind, Overtaken
  <2>3. CASE q # r /\ ~AtRest
    <3>1. Behind(q) /\ Overtaken(q) /\ job[q] \notin {"teardown", "down"}
      BY <2>3 DEF Undisturbed
    <3>2. /\ \A m, n \in Int : Ahead(m, n) => Ahead(m, n)'
          /\ Marked => Marked'
          /\ Routed => Routed'
      BY <1>1, <2>3 DEF Ahead, Marked, Routed, TableRight
    <3>3. Behind(q)'
      BY <1>1, <2>3, <3>1 DEF Behind, TableRight
    <3>4. Overtaken(q)'
      BY <1>1, <2>3, <3>1, <3>2 DEF Overtaken
    <3>5. QED
      BY <1>1, <2>3, <3>1, <3>3, <3>4
  <2>4. QED
    BY <2>1, <2>2, <2>3
<1>4. QED
  BY <1>2, <1>3 DEF Undisturbed

---------------------------------------------------------------------------
(* What a setup does at each step.                                         *)

LEMMA SetupDoes ==
  ASSUME NEW r \in Runners, job[r] = "setup", at[r] \in 1..12
  PROVE  /\ \A x : Does(r, "make", x) => at[r] = 2 /\ x = "blocked"
         /\ \A x : Does(r, "drop", x) => \/ at[r] = 3 /\ x = "reject"
                                         \/ at[r] = 4 /\ x = "accept"
                                         \/ at[r] = 10 /\ x = "mark"
         /\ \A x : Does(r, "insert", x) => \/ at[r] = 5 /\ x = "reject"
                                           \/ at[r] = 6 /\ x = "accept"
         /\ \A x : Does(r, "create", x) => at[r] = 7
         /\ \A x : Does(r, "rule", x) => at[r] = 8 /\ x = "add"
         /\ \A x : Does(r, "route", x) => \/ at[r] = 1 /\ x = "aim"
                                          \/ at[r] = 9 /\ x = "point"
         /\ \A x : Does(r, "append", x) => at[r] = 11
         /\ \A x : Does(r, "restart", x) => at[r] = 12
         /\ \A x : ~Does(r, "destroy", x) /\ ~Does(r, "host", x)
<1> DEFINE s == SetupSteps[at[r]]
<1>1. \A op, x : Does(r, op, x) => s = <<op, x>>
  BY StepsLen DEF Does
<1>2. at[r] \in {1, 2, 3, 4, 5, 6, 7, 8, 9, 10, 11, 12}
  OBVIOUS
<1> HIDE DEF s
<1>3. \/ at[r] = 1 /\ s = <<"route", "aim">>
      \/ at[r] = 2 /\ s = <<"make", "blocked">>
      \/ at[r] = 3 /\ s = <<"drop", "reject">>
      \/ at[r] = 4 /\ s = <<"drop", "accept">>
      \/ at[r] = 5 /\ s = <<"insert", "reject">>
      \/ at[r] = 6 /\ s = <<"insert", "accept">>
      \/ at[r] = 7 /\ s = <<"create", "domains">>
      \/ at[r] = 8 /\ s = <<"rule", "add">>
      \/ at[r] = 9 /\ s = <<"route", "point">>
      \/ at[r] = 10 /\ s = <<"drop", "mark">>
      \/ at[r] = 11 /\ s = <<"append", "mark">>
      \/ at[r] = 12 /\ s = <<"restart", "dnsmasq">>
  BY <1>2, SetupAt DEF s
<1>4. QED
  BY <1>1, <1>3

\* Going on before the last step.
LEMMA SetupGoesOn ==
  ASSUME InPlace, NEW r \in Runners, job[r] = "setup", at[r] # 12, GoOn(r)
  PROVE  /\ at[r] \in 1..11 /\ job' = job
         /\ at' = [at EXCEPT ![r] = at[r] + 1]
         /\ found' = [found EXCEPT ![r] = "unasked"]
<1>1. at[r] \in 1..12 /\ Len(Steps["setup"]) = 12
  BY StepsLen, SetupAt DEF InPlace, RaceTypeOK
<1>2. QED
  BY <1>1 DEF GoOn

LEMMA SetupMakes ==
  ASSUME InPlace, Undisturbed, NEW r \in Runners, job[r] = "setup",
         Make(r), UNCHANGED linked
  PROVE  Undisturbed'
<1>1. at[r] \in 1..12
  BY DEF InPlace, RaceTypeOK
<1>2. at[r] = 2 /\ sets' = sets \cup {"blocked"} /\ GoOn(r)
      /\ UNCHANGED <<ready, ruleVars, hosts, fills, routeVars>>
  BY <1>1, SetupDoes DEF Make
<1>3. at[r] + 1 = 3
  BY <1>2
<1>4. /\ job' = job /\ at' = [at EXCEPT ![r] = 2 + 1]
      /\ found' = [found EXCEPT ![r] = "unasked"]
  BY <1>2, SetupGoesOn
<1>5. /\ TableRight => TableRight'
      /\ Marked => Marked'
      /\ Present("reject") => Present("reject")'
  BY <1>2 DEF TableRight, Marked, Present, ruleVars, routeVars
<1>6. QED
  <2>1. Advances(r, 2)
    BY <1>2, <1>4, <1>5 DEF Advances, ruleVars, routeVars
  <2>2. QED
    BY <2>1, Advance

\* An answer after which a setup has nothing to do.
LEMMA SetupPasses ==
  ASSUME InPlace, Undisturbed, NEW r \in Runners, NEW i \in {1, 3, 4, 5, 6, 7, 8, 10, 11},
         job[r] = "setup", at[r] = i, GoOn(r),
         i = 5 => Present("reject"),
         i = 7 => "domains" \in sets,
         i = 8 => fwrule,
         i = 11 => Marked,
         UNCHANGED <<ready, ruleVars, setVars, routeVars, linked>>
  PROVE  Undisturbed'
<1>1. /\ job' = job /\ at' = [at EXCEPT ![r] = i + 1]
      /\ found' = [found EXCEPT ![r] = "unasked"]
  BY SetupGoesOn
<1>2. /\ TableRight => TableRight'
      /\ Marked => Marked'
      /\ Present("reject") => Present("reject")'
  BY DEF TableRight, Marked, Present, ruleVars, routeVars
<1>3. QED
  <2>1. Advances(r, i)
    BY <1>1, <1>2 DEF Advances, ruleVars, routeVars, setVars
  <2>2. QED
    BY <2>1, Advance

\* Deleting the rule that accepts keeps the one that rejects.
LEMMA DeletesOther ==
  ASSUME chain \in Seq(HostRules), Delete("accept")
  PROVE  (Present("reject") => Present("reject")') /\ marks' = marks
<1>1. marks' = marks
  BY DEF Delete
<1>2. ASSUME Present("reject")
      PROVE  Present("reject")'
  <2>1. CASE ~Present("accept")
    BY <1>2, <2>1 DEF Delete, Present
  <2>2. CASE Present("accept")
    <3>1. PICK i \in 1..Len(chain) :
            /\ chain[i] = "accept"
            /\ chain' = SubSeq(chain, 1, i - 1) \o SubSeq(chain, i + 1, Len(chain))
      <4>1. DOMAIN chain = 1..Len(chain)
        OBVIOUS
      <4>2. PICK i \in DOMAIN chain :
              /\ chain[i] = "accept"
              /\ chain' = SubSeq(chain, 1, i - 1) \o SubSeq(chain, i + 1, Len(chain))
        BY <2>2 DEF Delete
      <4>3. QED
        BY <4>1, <4>2
    <3>2. PICK j \in 1..Len(chain) : chain[j] = "reject"
      BY <1>2 DEF Present
    <3>3. \E l \in 1..Len(chain') : chain'[l] = "reject"
      BY <3>1, <3>2, DeletionKeeps DEF HostRules
    <3>4. chain' \in Seq(HostRules)
      BY <3>1, DeletionTyped
    <3>5. QED
      BY <3>3, <3>4 DEF Present
  <2>3. QED
    BY <2>1, <2>2
<1>3. QED
  BY <1>1, <1>2

LEMMA SetupDrops ==
  ASSUME InPlace, Undisturbed, NEW r \in Runners, job[r] = "setup",
         Drop(r), UNCHANGED linked
  PROVE  Undisturbed'
<1>1. at[r] \in 1..12
  BY DEF InPlace, RaceTypeOK
<1>2. PICK rule \in DOMAIN SetOf :
        /\ Does(r, "drop", rule)
        /\ \/ Ask(r, Present(rule), Present(rule))
           \/ /\ found[r] = "yes" /\ Delete(rule) /\ GoOn(r)
              /\ UNCHANGED <<ready, setVars, routeVars>>
  BY DEF Drop
<1>3. \/ at[r] = 3 /\ rule = "reject"
      \/ at[r] = 4 /\ rule = "accept"
      \/ at[r] = 10 /\ rule = "mark"
  BY <1>1, <1>2, SetupDoes
<1>5. CASE Ask(r, Present(rule), Present(rule))
  <2>1. CASE Present(rule)
    <3>1. PICK answer \in {"yes", "no"} :
            /\ found' = [found EXCEPT ![r] = answer]
            /\ UNCHANGED <<job, at, ready, chain, marks, sets, fills, fwrule, table>>
      BY <1>5, <2>1 DEF Ask, ruleVars, setVars, routeVars
    <3>2. Asked(r, answer)
      BY <1>3, <3>1 DEF Asked
    <3>3. QED
      BY <3>2, Asks
  <2>2. CASE ~Present(rule)
    <3>1. GoOn(r) /\ UNCHANGED <<ready, ruleVars, setVars, routeVars>>
      BY <1>5, <2>2 DEF Ask
    <3>2. at[r] \in {1, 3, 4, 5, 6, 7, 8, 10, 11} /\ at[r] \notin {5, 7, 8, 11}
      BY <1>3
    <3>3. QED
      BY <3>1, <3>2, SetupPasses
  <2>3. QED
    BY <2>1, <2>2
<1>6. CASE Delete(rule) /\ GoOn(r) /\ UNCHANGED <<ready, setVars, routeVars>>
  <2>1. /\ at[r] \in 1..11 /\ job' = job
        /\ at' = [at EXCEPT ![r] = at[r] + 1]
        /\ found' = [found EXCEPT ![r] = "unasked"]
    BY <1>3, <1>6, SetupGoesOn
  <2>2. TableRight => TableRight'
    BY <1>6 DEF TableRight, routeVars
  <2>3. at[r] = 3 \/ (Present("reject") => Present("reject")')
    <3>1. CASE rule = "accept"
      BY <1>6, <3>1, DeletesOther DEF InPlace, RaceTypeOK
    <3>2. CASE rule = "mark"
      BY <1>6, <3>2 DEF Delete, Present
    <3>3. QED
      BY <1>3, <3>1, <3>2
  <2>4. at[r] = 10 \/ (Marked => Marked')
    BY <1>3, <1>6 DEF Delete, Marked
  <2>5. Advances(r, at[r])
    BY <1>3, <1>6, <2>1, <2>2, <2>3, <2>4 DEF Advances, setVars, routeVars
  <2>6. QED
    BY <2>1, <2>5, Advance
<1>7. QED
  BY <1>2, <1>5, <1>6

LEMMA SetupInserts ==
  ASSUME InPlace, Undisturbed, NEW r \in Runners, job[r] = "setup",
         Insert(r), UNCHANGED linked
  PROVE  Undisturbed'
<1>1. at[r] \in 1..12 /\ Behind(r)
  BY DEF InPlace, RaceTypeOK, Undisturbed
<1>2. PICK rule \in HostRules :
        /\ Does(r, "insert", rule)
        /\ \/ Ask(r, Present(rule), ~Present(rule))
           \/ /\ found[r] = "no"
              /\ chain' = IF SetOf[rule] \in sets THEN <<rule>> \o chain ELSE chain
              /\ GoOn(r)
              /\ UNCHANGED <<ready, marks, setVars, routeVars>>
  BY DEF Insert
<1>3. \/ at[r] = 5 /\ rule = "reject"
      \/ at[r] = 6 /\ rule = "accept"
  BY <1>1, <1>2, SetupDoes
<1>5. CASE Ask(r, Present(rule), ~Present(rule))
  <2>1. CASE ~Present(rule)
    <3>1. PICK answer \in {"yes", "no"} :
            /\ found' = [found EXCEPT ![r] = answer]
            /\ UNCHANGED <<job, at, ready, chain, marks, sets, fills, fwrule, table>>
      BY <1>5, <2>1 DEF Ask, ruleVars, setVars, routeVars
    <3>2. Asked(r, answer)
      BY <1>3, <3>1 DEF Asked
    <3>3. QED
      BY <3>2, Asks
  <2>2. CASE Present(rule)
    <3>1. GoOn(r) /\ UNCHANGED <<ready, ruleVars, setVars, routeVars>>
      BY <1>5, <2>2 DEF Ask
    <3>2. /\ at[r] \in {1, 3, 4, 5, 6, 7, 8, 10, 11} /\ at[r] \notin {7, 8, 11}
          /\ at[r] = 5 => Present("reject")
      BY <1>3, <2>2
    <3>3. QED
      BY <3>1, <3>2, SetupPasses
  <2>3. QED
    BY <2>1, <2>2
<1>6. CASE /\ chain' = IF SetOf[rule] \in sets THEN <<rule>> \o chain ELSE chain
           /\ GoOn(r) /\ UNCHANGED <<ready, marks, setVars, routeVars>>
  <2>1. /\ at[r] \in 1..11 /\ job' = job
        /\ at' = [at EXCEPT ![r] = at[r] + 1]
        /\ found' = [found EXCEPT ![r] = "unasked"]
    BY <1>3, <1>6, SetupGoesOn
  <2>2. (TableRight => TableRight') /\ (Marked => Marked')
    BY <1>6 DEF TableRight, Marked, routeVars
  <2>3. chain' = <<rule>> \o chain
    BY <1>1, <1>3, <1>6 DEF Behind, SetOf
  <2>4. /\ Len(chain') = Len(chain) + 1 /\ chain' \in Seq(HostRules)
        /\ chain'[1] = rule
        /\ \A i \in 1..Len(chain) : chain'[i + 1] = chain[i]
    BY <2>3 DEF InPlace, RaceTypeOK
  <2>5. (Present("reject") => Present("reject")') /\ (at[r] = 5 => Present("reject")')
    <3>1. DOMAIN chain' = 1..(Len(chain) + 1) /\ DOMAIN chain = 1..Len(chain) /\ Len(chain) \in Nat
      BY <2>4 DEF InPlace, RaceTypeOK
    <3>2. QED
      BY <1>3, <2>4, <3>1 DEF Present
  <2>6. Advances(r, at[r])
    BY <1>3, <1>6, <2>1, <2>2, <2>5 DEF Advances, setVars, routeVars
  <2>7. QED
    BY <2>1, <2>6, Advance
<1>7. QED
  BY <1>2, <1>5, <1>6

LEMMA SetupAppends ==
  ASSUME InPlace, Undisturbed, NEW r \in Runners, job[r] = "setup",
         AppendMark(r), UNCHANGED linked
  PROVE  Undisturbed'
<1>1. at[r] = 11 /\ Behind(r)
  BY SetupDoes DEF InPlace, RaceTypeOK, Undisturbed, AppendMark
<1>2. CASE Ask(r, Present("mark"), ready[r] /\ ~Present("mark"))
  <2>1. CASE ready[r] /\ ~Present("mark")
    <3>1. PICK answer \in {"yes", "no"} :
            /\ found' = [found EXCEPT ![r] = answer]
            /\ UNCHANGED <<job, at, ready, chain, marks, sets, fills, fwrule, table>>
      BY <1>2, <2>1 DEF Ask, ruleVars, setVars, routeVars
    <3>2. Asked(r, answer)
      BY <1>1, <3>1 DEF Asked
    <3>3. QED
      BY <3>2, Asks
  <2>2. CASE ~(ready[r] /\ ~Present("mark"))
    <3>1. GoOn(r) /\ UNCHANGED <<ready, ruleVars, setVars, routeVars>>
      BY <1>2, <2>2 DEF Ask
    <3>2. Marked
      <4>1. ready[r] = linked /\ linked \in BOOLEAN
        BY <1>1 DEF Behind, InPlace, RaceTypeOK
      <4>2. QED
        BY <2>2, <4>1 DEF Marked, Present
    <3>3. QED
      BY <1>1, <3>1, <3>2, SetupPasses
  <2>3. QED
    BY <2>1, <2>2
<1>3. CASE /\ marks' = IF "domains" \in sets THEN marks + 1 ELSE marks
           /\ GoOn(r)
           /\ UNCHANGED <<ready, chain, setVars, routeVars>>
  <2>1. /\ job' = job /\ at' = [at EXCEPT ![r] = 11 + 1]
        /\ found' = [found EXCEPT ![r] = "unasked"]
    BY <1>1, <1>3, SetupGoesOn
  <2>2. marks' > 0
    BY <1>1, <1>3 DEF Behind, InPlace, RaceTypeOK
  <2>3. /\ TableRight => TableRight'
        /\ Present("reject") => Present("reject")'
        /\ Marked'
    BY <1>3, <2>2 DEF TableRight, Present, Marked, routeVars
  <2>4. Advances(r, 11)
    BY <1>1, <1>3, <2>1, <2>3 DEF Advances, setVars, routeVars
  <2>5. QED
    BY <2>4, Advance
<1>4. QED
  BY <1>2, <1>3 DEF AppendMark

LEMMA SetupCreates ==
  ASSUME InPlace, Undisturbed, NEW r \in Runners, job[r] = "setup",
         CreateDomains(r), UNCHANGED linked
  PROVE  Undisturbed'
<1>1. at[r] = 7
  BY SetupDoes DEF InPlace, RaceTypeOK, CreateDomains
<1>2. CASE Ask(r, "domains" \in sets, "domains" \notin sets)
  <2>1. CASE "domains" \notin sets
    <3>1. PICK answer \in {"yes", "no"} :
            /\ found' = [found EXCEPT ![r] = answer]
            /\ UNCHANGED <<job, at, ready, chain, marks, sets, fills, fwrule, table>>
      BY <1>2, <2>1 DEF Ask, ruleVars, setVars, routeVars
    <3>2. Asked(r, answer)
      BY <1>1, <2>1, <3>1 DEF Asked
    <3>3. QED
      BY <3>2, Asks
  <2>2. CASE "domains" \in sets
    <3>1. GoOn(r) /\ UNCHANGED <<ready, ruleVars, setVars, routeVars>>
      BY <1>2, <2>2 DEF Ask
    <3>2. QED
      BY <1>1, <2>2, <3>1, SetupPasses
  <2>3. QED
    BY <2>1, <2>2
<1>3. CASE /\ found[r] = "no"
           /\ IF "domains" \in sets
                THEN Die(r) /\ UNCHANGED sets
                ELSE sets' = sets \cup {"domains"} /\ GoOn(r) /\ UNCHANGED ready
           /\ UNCHANGED <<ruleVars, hosts, fills, routeVars>>
  <2>1. CASE "domains" \in sets
    BY <1>1, <1>3, <2>1, GiveUp DEF Die, ruleVars, routeVars
  <2>2. CASE "domains" \notin sets
    <3>1. GoOn(r) /\ ready' = ready /\ sets' = sets \cup {"domains"}
      BY <1>3, <2>2
    <3>2. /\ job' = job /\ at' = [at EXCEPT ![r] = 7 + 1]
          /\ found' = [found EXCEPT ![r] = "unasked"]
      BY <1>1, <3>1, SetupGoesOn
    <3>3. /\ TableRight => TableRight'
          /\ Present("reject") => Present("reject")'
          /\ Marked => Marked'
      BY <1>3 DEF TableRight, Present, Marked, ruleVars, routeVars
    <3>4. Advances(r, 7)
      BY <1>1, <1>3, <3>1, <3>2, <3>3 DEF Advances, ruleVars, routeVars
    <3>5. QED
      BY <3>4, Advance
  <2>3. QED
    BY <2>1, <2>2
<1>4. QED
  BY <1>2, <1>3 DEF CreateDomains

LEMMA SetupAddsRule ==
  ASSUME InPlace, Undisturbed, NEW r \in Runners, job[r] = "setup",
         AddFwRule(r), UNCHANGED linked
  PROVE  Undisturbed'
<1>1. at[r] = 8
  BY SetupDoes DEF InPlace, RaceTypeOK, AddFwRule
<1>2. CASE Ask(r, fwrule, ~fwrule)
  <2>1. CASE ~fwrule
    <3>1. PICK answer \in {"yes", "no"} :
            /\ found' = [found EXCEPT ![r] = answer]
            /\ UNCHANGED <<job, at, ready, chain, marks, sets, fills, fwrule, table>>
      BY <1>2, <2>1 DEF Ask, ruleVars, setVars, routeVars
    <3>2. Asked(r, answer)
      BY <1>1, <2>1, <3>1 DEF Asked
    <3>3. QED
      BY <3>2, Asks
  <2>2. CASE fwrule
    <3>1. GoOn(r) /\ UNCHANGED <<ready, ruleVars, setVars, routeVars>>
      BY <1>2, <2>2 DEF Ask
    <3>2. QED
      BY <1>1, <2>2, <3>1, SetupPasses
  <2>3. QED
    BY <2>1, <2>2
<1>3. CASE /\ found[r] = "no"
           /\ IF fwrule THEN Die(r) /\ UNCHANGED fwrule
              ELSE fwrule' = TRUE /\ GoOn(r) /\ UNCHANGED ready
           /\ UNCHANGED <<ruleVars, setVars, table>>
  <2>1. CASE fwrule
    BY <1>1, <1>3, <2>1, GiveUp DEF Die, ruleVars, setVars
  <2>2. CASE ~fwrule
    <3>1. GoOn(r) /\ ready' = ready /\ fwrule'
      BY <1>3, <2>2
    <3>2. /\ job' = job /\ at' = [at EXCEPT ![r] = 8 + 1]
          /\ found' = [found EXCEPT ![r] = "unasked"]
      BY <1>1, <3>1, SetupGoesOn
    <3>3. /\ TableRight => TableRight'
          /\ Present("reject") => Present("reject")'
          /\ Marked => Marked'
      BY <1>3 DEF TableRight, Present, Marked, ruleVars
    <3>4. Advances(r, 8)
      BY <1>1, <1>3, <3>1, <3>2, <3>3 DEF Advances, ruleVars, setVars
    <3>5. QED
      BY <3>4, Advance
  <2>3. QED
    BY <2>1, <2>2
<1>4. QED
  BY <1>2, <1>3 DEF AddFwRule

LEMMA SetupRestarts ==
  ASSUME InPlace, Undisturbed, NEW r \in Runners, job[r] = "setup",
         RestartDns(r), UNCHANGED linked
  PROVE  Undisturbed'
<1>1. at[r] = 12 /\ Behind(r)
  BY SetupDoes DEF InPlace, RaceTypeOK, Undisturbed, RestartDns
<1>2. Len(Steps["setup"]) = 12
  BY StepsLen, SetupAt
<1>3. /\ job' = [job EXCEPT ![r] = "none"] /\ at' = [at EXCEPT ![r] = 1]
      /\ found' = [found EXCEPT ![r] = "unasked"]
  BY <1>1, <1>2 DEF RestartDns, GoOn
<1>4. fills'
  <2>1. "domains" \in sets
    BY <1>1 DEF Behind
  <2>2. QED
    BY <2>1 DEF RestartDns
<1>5. QED
  BY <1>1, <1>3, <1>4, Finish DEF RestartDns, ruleVars, routeVars

\* The steps about the tunnel: of the setups behind this one none has asked
\* otherwise, as nothing but a setup has run meanwhile.
LEMMA SetupRoutes ==
  ASSUME InPlace, Undisturbed, NEW r \in Runners, job[r] = "setup",
         Route(r), UNCHANGED linked
  PROVE  Undisturbed'
<1>1. PICK what \in {"aim", "point"} :
        /\ Does(r, "route", what)
        /\ \/ Ask(r, linked, linked \/ what = "point")
           \/ /\ found[r] = "yes"
              /\ IF linked
                   THEN table' = "tunnel" /\ ready' = [ready EXCEPT ![r] = TRUE] /\ GoOn(r)
                   ELSE Die(r) /\ UNCHANGED table
              /\ UNCHANGED <<ruleVars, setVars, fwrule>>
           \/ /\ found[r] = "no" /\ what = "point"
              /\ table' = "none"
              /\ ready' = [ready EXCEPT ![r] = FALSE]
              /\ GoOn(r)
              /\ UNCHANGED <<ruleVars, setVars, fwrule>>
  BY DEF Route
<1>2. at[r] \in 1..12 /\ Behind(r) /\ linked \in BOOLEAN
  BY DEF InPlace, RaceTypeOK, Undisturbed
<1>3. \/ at[r] = 1 /\ what = "aim"
      \/ at[r] = 9 /\ what = "point"
  BY <1>1, <1>2, SetupDoes
<1>4. CASE Ask(r, linked, linked \/ what = "point")
  <2>1. CASE linked \/ what = "point"
    <3>1. /\ found' = [found EXCEPT ![r] = IF linked THEN "yes" ELSE "no"]
          /\ UNCHANGED <<job, at, ready, chain, marks, sets, fills, fwrule, table>>
      BY <1>4, <2>1 DEF Ask, ruleVars, setVars, routeVars
    <3>2. CASE linked
      <4>1. Asked(r, "yes")
        BY <1>2, <1>3, <3>1, <3>2 DEF Asked
      <4>2. QED
        BY <4>1, Asks
    <3>3. CASE ~linked
      <4>1. at[r] = 9
        BY <1>3, <2>1, <3>3
      <4>2. Asked(r, "no")
        BY <1>2, <3>1, <3>3, <4>1 DEF Asked
      <4>3. QED
        BY <4>2, Asks
    <3>4. QED
      BY <3>2, <3>3
  <2>2. CASE ~(linked \/ what = "point")
    <3>1. GoOn(r) /\ UNCHANGED <<ready, ruleVars, setVars, routeVars>>
      BY <1>4, <2>2 DEF Ask
    <3>2. QED
      BY <1>3, <2>2, <3>1, SetupPasses
  <2>3. QED
    BY <2>1, <2>2
<1>5. ASSUME found[r] = "yes" \/ (found[r] = "no" /\ what = "point"),
             found[r] = "yes" =>
                IF linked
                  THEN table' = "tunnel" /\ ready' = [ready EXCEPT ![r] = TRUE] /\ GoOn(r)
                  ELSE Die(r) /\ UNCHANGED table,
             found[r] = "no" =>
                table' = "none" /\ ready' = [ready EXCEPT ![r] = FALSE] /\ GoOn(r),
             UNCHANGED <<ruleVars, setVars, fwrule>>
      PROVE  Undisturbed'
  <2>1. found[r] = "yes" <=> linked
    BY <1>2, <1>3, <1>5 DEF Behind
  <2>2. /\ table' = IF linked THEN "tunnel" ELSE "none"
        /\ ready' = [ready EXCEPT ![r] = linked] /\ GoOn(r)
    BY <1>2, <1>5, <2>1
  <2>3. /\ at[r] \in 1..11 /\ job' = job
        /\ at' = [at EXCEPT ![r] = at[r] + 1]
        /\ found' = [found EXCEPT ![r] = "unasked"]
    BY <1>3, <2>2, SetupGoesOn
  <2>4. ready'[r] = linked /\ \A q \in Runners : q # r => ready'[q] = ready[q]
    BY <2>2 DEF InPlace, RaceTypeOK
  <2>5. /\ TableRight'
        /\ Present("reject") => Present("reject")'
        /\ Marked => Marked'
    BY <1>5, <2>2 DEF TableRight, Present, Marked, ruleVars
  <2>6. Advances(r, at[r])
    BY <1>3, <1>5, <2>3, <2>4, <2>5 DEF Advances, ruleVars, setVars
  <2>7. QED
    BY <2>3, <2>6, Advance
<1>6. QED
  BY <1>1, <1>4, <1>5

LEMMA SetupStepsAmongSetups ==
  ASSUME InPlace, Undisturbed, NEW r \in Runners, job[r] = "setup", Step(r)
  PROVE  Undisturbed'
<1>1. ~Flush(r) /\ ~DelFwRule(r) /\ ~Destroy(r) /\ ~ChangeHosts(r)
  BY SetupDoes DEF InPlace, RaceTypeOK, Flush, DelFwRule, Destroy, ChangeHosts
<1>2. QED
  BY <1>1, SetupMakes, SetupDrops, SetupInserts, SetupAppends, SetupCreates,
     SetupAddsRule, SetupRoutes, SetupRestarts DEF Step

\* What a request about hosts does at each step.
LEMMA RequestDoes ==
  ASSUME InPlace, NEW r \in Runners, job[r] \in HostJobs, NEW op, NEW x, Does(r, op, x)
  PROVE  op = "host" \/ (op = "make" /\ x = "blocked")
<1>1. /\ Len(HostSteps("block")) = 3 /\ Len(HostSteps("allow")) = 3
      /\ \A what : /\ HostSteps(what)[1] = <<"make", "blocked">>
                   /\ HostSteps(what)[2] = <<"host", what>>
                   /\ HostSteps(what)[3] = <<"make", "blocked">>
  BY DEF HostSteps
<1>2. at[r] \in Nat /\ 1 <= at[r] /\ at[r] <= Len(Steps[job[r]]) /\ Steps[job[r]][at[r]] = <<op, x>>
  BY DEF InPlace, RaceTypeOK, Does, HostJobs
<1>3. CASE job[r] = "block"
  BY <1>1, <1>2, <1>3 DEF Steps
<1>4. CASE job[r] = "allow"
  BY <1>1, <1>2, <1>4 DEF Steps
<1>5. CASE job[r] = "list"
  BY <1>2, <1>5 DEF Steps
<1>6. CASE job[r] = "start"
  BY <1>2, <1>6 DEF Steps
<1>7. QED
  BY <1>3, <1>4, <1>5, <1>6 DEF HostJobs

\* What going on or giving up leaves of the other runners.
LEMMA OneRunner ==
  ASSUME InPlace, NEW r \in Runners, job[r] # "none", GoOn(r) \/ Die(r)
  PROVE  /\ job'[r] \in {job[r], "none"}
         /\ \A q \in Runners \ {r} :
              job'[q] = job[q] /\ at'[q] = at[q] /\ found'[q] = found[q]
BY DEF InPlace, RaceTypeOK, GoOn, Die

LEMMA RequestSteps ==
  ASSUME InPlace, Undisturbed, NEW r \in Runners, job[r] \in HostJobs, Step(r)
  PROVE  Undisturbed'
<1>1. Make(r) \/ ChangeHosts(r)
  <2>1. \A op, x : Does(r, op, x) => op \in {"make", "host"}
    BY RequestDoes
  <2>2. ~Drop(r)
    BY <2>1 DEF Drop
  <2>3. ~Insert(r)
    <3>1. Insert(r) => \E rule \in HostRules : Does(r, "insert", rule)
      BY DEF Insert
    <3>2. QED
      BY <2>1, <3>1
  <2>4. ~AppendMark(r) /\ ~CreateDomains(r) /\ ~AddFwRule(r) /\ ~DelFwRule(r)
    BY <2>1 DEF AppendMark, CreateDomains, AddFwRule, DelFwRule
  <2>5. ~Route(r) /\ ~Flush(r) /\ ~RestartDns(r) /\ ~Destroy(r)
    BY <2>1 DEF Route, Flush, RestartDns, Destroy
  <2>6. QED
    BY <2>2, <2>3, <2>4, <2>5 DEF Step
<1>2. job[r] \notin RoutingJobs /\ job[r] # "none"
  BY DEF HostJobs, RoutingJobs
<1>3. /\ GoOn(r) \/ Die(r)
      /\ sets \subseteq sets' /\ ("domains" \in sets' => "domains" \in sets)
      /\ UNCHANGED <<ready, chain, marks, fills, fwrule, table, linked>>
  <2>1. CASE Make(r)
    <3>1. PICK set : /\ Does(r, "make", set)
                     /\ sets' = sets \cup {set} /\ GoOn(r)
                     /\ UNCHANGED <<ready, ruleVars, hosts, fills, routeVars>>
      BY <2>1 DEF Make
    <3>2. set = "blocked"
      BY <3>1, RequestDoes
    <3>3. QED
      BY <3>1, <3>2 DEF Step, ruleVars, routeVars
  <2>2. CASE ChangeHosts(r)
    <3>1. GoOn(r) \/ Die(r)
      BY <2>2 DEF ChangeHosts
    <3>2. ready' = ready
      BY <2>2 DEF ChangeHosts, Die
    <3>3. QED
      BY <2>2, <3>1, <3>2 DEF ChangeHosts, Step, ruleVars, routeVars
  <2>3. QED
    BY <1>1, <2>1, <2>2
<1>4. /\ job'[r] \notin RoutingJobs
      /\ \A q \in Runners \ {r} :
           job'[q] = job[q] /\ at'[q] = at[q] /\ found'[q] = found[q]
  BY <1>2, <1>3, OneRunner DEF RoutingJobs
<1>5. QED
  BY <1>2, <1>3, <1>4, Beside

---------------------------------------------------------------------------
(* InPlace is kept by every step.                                          *)

RunnersOK ==
  /\ job \in [Runners -> RoutingJobs \cup HostJobs \cup {"none"}]
  /\ at \in [Runners -> 1..12]
  /\ found \in [Runners -> {"unasked", "yes", "no"}]
  /\ \A r \in Runners :
       /\ job[r] = "none" => found[r] = "unasked"
       /\ job[r] # "none" => at[r] <= Len(Steps[job[r]])

KernelOK ==
  /\ ready \in [Runners -> BOOLEAN]
  /\ chain \in Seq(HostRules) /\ marks \in Nat
  /\ sets \subseteq RaceSets /\ hosts \subseteq Hosts /\ fills \in BOOLEAN
  /\ fwrule \in BOOLEAN /\ table \in {"tunnel", "none"}
  /\ marks > 0 => "domains" \in sets

LEMMA InPlaceParts ==
  /\ InPlace => RunnersOK /\ KernelOK
  /\ /\ RunnersOK /\ KernelOK /\ linked \in BOOLEAN
     /\ during \in {"nothing", "setup", "again", "setups", "other"}
     => InPlace
BY DEF InPlace, RaceTypeOK, RunnersOK, KernelOK

\* What a step may do to the variables of its runner.
Moves(r) ==
  \/ GoOn(r)
  \/ Die(r)
  \/ /\ \E answer \in {"unasked", "yes", "no"} : found' = [found EXCEPT ![r] = answer]
     /\ UNCHANGED <<job, at>>

LEMMA MovesInPlace ==
  ASSUME RunnersOK, NEW r \in Runners, job[r] # "none", Moves(r)
  PROVE  RunnersOK'
<1>1. \A q \in Runners : job[q] # "none" => Len(Steps[job[q]]) \in 1..12
  BY StepsLen DEF RunnersOK, RaceJobs
<1>2. CASE GoOn(r)
  <2>1. CASE at[r] = Len(Steps[job[r]])
    <3>1. /\ job' = [job EXCEPT ![r] = "none"] /\ at' = [at EXCEPT ![r] = 1]
          /\ found' = [found EXCEPT ![r] = "unasked"]
      BY <1>2, <2>1 DEF GoOn
    <3>2. job' \in [Runners -> RoutingJobs \cup HostJobs \cup {"none"}] /\ at' \in [Runners -> 1..12]
          /\ found' \in [Runners -> {"unasked", "yes", "no"}]
      BY <3>1 DEF RunnersOK
    <3>3. ASSUME NEW q \in Runners
          PROVE  /\ job'[q] = "none" => found'[q] = "unasked"
                 /\ job'[q] # "none" => at'[q] <= Len(Steps[job'[q]])
      BY <3>1 DEF RunnersOK
    <3>4. QED
      BY <3>2, <3>3 DEF RunnersOK
  <2>2. CASE at[r] # Len(Steps[job[r]])
    <3>1. at[r] + 1 <= Len(Steps[job[r]]) /\ at[r] + 1 \in 1..12
      <4>1. at[r] \in 1..12 /\ at[r] <= Len(Steps[job[r]])
        BY DEF RunnersOK
      <4>2. Len(Steps[job[r]]) \in 1..12
        BY <1>1
      <4> DEFINE here == at[r]
                 last == Len(Steps[job[r]])
      <4>3. here \in 1..12 /\ here <= last /\ here # last /\ last \in 1..12
        BY <2>2, <4>1, <4>2
      <4> HIDE DEF here, last
      <4>4. here + 1 <= last /\ here + 1 \in 1..12
        BY <4>3
      <4>5. QED
        BY <4>4 DEF here, last
    <3>2. QED
      BY <1>2, <2>2, <3>1 DEF RunnersOK, GoOn
  <2>3. QED
    BY <2>1, <2>2
<1>3. CASE Die(r)
  BY <1>1, <1>3 DEF RunnersOK, Die
<1>4. CASE /\ \E answer \in {"unasked", "yes", "no"} : found' = [found EXCEPT ![r] = answer]
           /\ UNCHANGED <<job, at>>
  BY <1>4 DEF RunnersOK
<1>5. QED
  BY <1>2, <1>3, <1>4 DEF Moves

LEMMA AskMoves ==
  ASSUME NEW r \in Runners, NEW holds, NEW acts, Ask(r, holds, acts)
  PROVE  Moves(r) /\ UNCHANGED <<ready, chain, marks, sets, hosts, fills, fwrule, table>>
BY DEF Ask, Moves, ruleVars, setVars, routeVars

LEMMA DeletionInPlace ==
  ASSUME KernelOK, NEW rule \in DOMAIN SetOf, Delete(rule)
  PROVE  /\ chain' \in Seq(HostRules) /\ marks' \in Nat
         /\ marks' > 0 => marks > 0
<1>1. CASE rule = "mark"
  BY <1>1 DEF Delete, KernelOK
<1>2. CASE rule # "mark"
  <2>1. marks' = marks
    BY <1>2 DEF Delete
  <2>2. chain' \in Seq(HostRules)
    <3>1. DOMAIN chain = 1..Len(chain) /\ chain \in Seq(HostRules)
      BY DEF KernelOK
    <3>2. \/ chain' = chain
          \/ \E i \in 1..Len(chain) :
               chain' = SubSeq(chain, 1, i - 1) \o SubSeq(chain, i + 1, Len(chain))
      BY <1>2, <3>1 DEF Delete
    <3>3. QED
      BY <3>1, <3>2, DeletionTyped
  <2>3. QED
    BY <2>1, <2>2 DEF KernelOK
<1>3. QED
  BY <1>1, <1>2

LEMMA ActionsInPlace ==
  ASSUME KernelOK, NEW r \in Runners, Step(r)
  PROVE  KernelOK' /\ Moves(r)
<1> USE DEF KernelOK, ruleVars, setVars, routeVars
<1>1. CASE Make(r)
  BY <1>1 DEF Make, Moves
<1>2. CASE Drop(r)
  <2>1. PICK rule \in DOMAIN SetOf :
          \/ Ask(r, Present(rule), Present(rule))
          \/ Delete(rule) /\ GoOn(r) /\ UNCHANGED <<ready, setVars, routeVars>>
    BY <1>2 DEF Drop
  <2>2. CASE Ask(r, Present(rule), Present(rule))
    BY <2>2, AskMoves
  <2>3. CASE Delete(rule) /\ GoOn(r) /\ UNCHANGED <<ready, setVars, routeVars>>
    BY <2>3, DeletionInPlace DEF Moves
  <2>4. QED
    BY <2>1, <2>2, <2>3
<1>3. CASE Insert(r)
  <2>1. PICK rule \in HostRules :
          \/ Ask(r, Present(rule), ~Present(rule))
          \/ /\ chain' = IF SetOf[rule] \in sets THEN <<rule>> \o chain ELSE chain
             /\ GoOn(r) /\ UNCHANGED <<ready, marks, setVars, routeVars>>
    BY <1>3 DEF Insert
  <2>2. CASE Ask(r, Present(rule), ~Present(rule))
    BY <2>2, AskMoves
  <2>3. CASE /\ chain' = IF SetOf[rule] \in sets THEN <<rule>> \o chain ELSE chain
             /\ GoOn(r) /\ UNCHANGED <<ready, marks, setVars, routeVars>>
    BY <2>3 DEF Moves
  <2>4. QED
    BY <2>1, <2>2, <2>3
<1>4. CASE AppendMark(r)
  <2>1. CASE Ask(r, Present("mark"), ready[r] /\ ~Present("mark"))
    BY <2>1, AskMoves
  <2>2. CASE /\ marks' = IF "domains" \in sets THEN marks + 1 ELSE marks
             /\ GoOn(r) /\ UNCHANGED <<ready, chain, setVars, routeVars>>
    BY <2>2 DEF Moves
  <2>3. QED
    BY <1>4, <2>1, <2>2 DEF AppendMark
<1>5. CASE CreateDomains(r)
  <2>1. CASE Ask(r, "domains" \in sets, "domains" \notin sets)
    BY <2>1, AskMoves
  <2>2. CASE ~Ask(r, "domains" \in sets, "domains" \notin sets)
    BY <1>5, <2>2 DEF CreateDomains, Die, Moves, RaceSets
  <2>3. QED
    BY <2>1, <2>2
<1>6. CASE AddFwRule(r)
  <2>1. CASE Ask(r, fwrule, ~fwrule)
    BY <2>1, AskMoves
  <2>2. CASE ~Ask(r, fwrule, ~fwrule)
    BY <1>6, <2>2 DEF AddFwRule, Die, Moves
  <2>3. QED
    BY <2>1, <2>2
<1>7. CASE DelFwRule(r)
  <2>1. CASE Ask(r, fwrule, fwrule)
    BY <2>1, AskMoves
  <2>2. CASE ~Ask(r, fwrule, fwrule)
    BY <1>7, <2>2 DEF DelFwRule, Die, Moves
  <2>3. QED
    BY <2>1, <2>2
<1>8. CASE Route(r)
  <2>1. PICK what \in {"aim", "point"} :
          \/ Ask(r, linked, linked \/ what = "point")
          \/ /\ \/ /\ table' = "tunnel" /\ ready' = [ready EXCEPT ![r] = TRUE] /\ GoOn(r)
                \/ Die(r) /\ UNCHANGED table
                \/ /\ table' = "none" /\ ready' = [ready EXCEPT ![r] = FALSE] /\ GoOn(r)
             /\ UNCHANGED <<ruleVars, setVars, fwrule>>
    BY <1>8 DEF Route
  <2>2. CASE Ask(r, linked, linked \/ what = "point")
    BY <2>2, AskMoves
  <2>3. CASE ~Ask(r, linked, linked \/ what = "point")
    BY <2>1, <2>3 DEF Die, Moves
  <2>4. QED
    BY <2>2, <2>3
<1>9. CASE Flush(r)
  BY <1>9 DEF Flush, Moves
<1>10. CASE RestartDns(r)
  BY <1>10 DEF RestartDns, Moves
<1>11. CASE Destroy(r)
  <2>1. PICK set \in RaceSets :
          \/ Ask(r, set \in sets, set \in sets)
          \/ /\ IF set \in sets /\ ~Refers(set)
                  THEN /\ sets' = sets \ {set}
                       /\ hosts' = IF set = "blocked" THEN {} ELSE hosts
                       /\ fills' = (fills /\ set # "domains")
                       /\ GoOn(r) /\ UNCHANGED ready
                  ELSE Die(r) /\ UNCHANGED setVars
             /\ UNCHANGED <<ruleVars, routeVars>>
    BY <1>11 DEF Destroy
  <2>2. CASE Ask(r, set \in sets, set \in sets)
    BY <2>2, AskMoves
  <2>3. CASE ~Ask(r, set \in sets, set \in sets)
    <3>1. set = "domains" /\ ~Refers(set) => ~(marks > 0)
      BY DEF Refers, SetOf, Present
    <3>2. QED
      BY <2>1, <2>3, <3>1 DEF Die, Moves
  <2>4. QED
    BY <2>2, <2>3
<1>12. CASE ChangeHosts(r)
  <2>1. PICK what \in {"block", "allow", "reset"} :
          /\ IF "blocked" \in sets
               THEN /\ CASE what = "block" -> \E h \in Hosts : hosts' = hosts \cup {h}
                         [] what = "allow" -> \E h \in Hosts : hosts' = hosts \ {h}
                         [] what = "reset" -> hosts' = {}
                    /\ GoOn(r) /\ UNCHANGED ready
               ELSE Die(r) /\ UNCHANGED hosts
          /\ UNCHANGED <<ruleVars, sets, fills, routeVars>>
    BY <1>12 DEF ChangeHosts
  <2>2. hosts' \subseteq Hosts
    BY <2>1
  <2>3. Moves(r) /\ ready' = ready
    BY <2>1 DEF Moves, Die
  <2>4. QED
    BY <2>1, <2>2, <2>3
<1>13. QED
  BY <1>1, <1>2, <1>3, <1>4, <1>5, <1>6, <1>7, <1>8, <1>9, <1>10, <1>11, <1>12 DEF Step

---------------------------------------------------------------------------
(* RaceInv is inductive.                                                   *)

\* Only a runner with a job makes a step.
LEMMA StepRuns == ASSUME NEW r \in Runners, Step(r) PROVE job[r] # "none"
<1>1. \E op, x : Does(r, op, x)
  <2>1. Drop(r) => \E rule \in DOMAIN SetOf : Does(r, "drop", rule)
    BY DEF Drop
  <2>2. Insert(r) => \E rule \in HostRules : Does(r, "insert", rule)
    BY DEF Insert
  <2>3. Route(r) => \E what \in {"aim", "point"} : Does(r, "route", what)
    BY DEF Route
  <2>4. Destroy(r) => \E set \in RaceSets : Does(r, "destroy", set)
    BY DEF Destroy
  <2>5. ChangeHosts(r) => \E what \in {"block", "allow", "reset"} : Does(r, "host", what)
    BY DEF ChangeHosts
  <2>6. Make(r) => \E set \in RaceSets : Does(r, "make", set)
    BY DEF Make
  <2>7. /\ AppendMark(r) => Does(r, "append", "mark")
        /\ CreateDomains(r) => Does(r, "create", "domains")
        /\ AddFwRule(r) => Does(r, "rule", "add")
        /\ DelFwRule(r) => Does(r, "rule", "del")
        /\ Flush(r) => Does(r, "route", "flush")
        /\ RestartDns(r) => Does(r, "restart", "dnsmasq")
    BY DEF AppendMark, CreateDomains, AddFwRule, DelFwRule, Flush, RestartDns
  <2>8. QED
    BY <2>1, <2>2, <2>3, <2>4, <2>5, <2>6, <2>7 DEF Step
<1>2. QED
  BY <1>1 DEF Does

LEMMA StepKeeps ==
  ASSUME RaceInv, NEW r \in Runners, Step(r)
  PROVE  RaceInv'
<1>1. job[r] # "none"
  BY StepRuns
<1>2. RunnersOK /\ KernelOK
  BY InPlaceParts DEF RaceInv
<1>3. KernelOK' /\ Moves(r) /\ UNCHANGED <<linked, during>>
  BY <1>2, ActionsInPlace DEF Step
<1>4. InPlace'
  <2>1. RunnersOK'
    BY <1>1, <1>2, <1>3, MovesInPlace
  <2>2. /\ linked' \in BOOLEAN
        /\ during' \in {"nothing", "setup", "again", "setups", "other"}
    BY <1>3 DEF RaceInv, InPlace, RaceTypeOK
  <2>3. QED
    BY <1>3, <2>1, <2>2 DEF InPlace, RaceTypeOK, RunnersOK, KernelOK
<1>5. AtRest => AtRest'
  BY <1>1, <1>3, OneRunner DEF RaceInv, Moves, AtRest, RoutingJobs
<1>6. OnlySetups => Undisturbed'
  <2>1. SUFFICES ASSUME OnlySetups PROVE Undisturbed'
    OBVIOUS
  <2>2. InPlace /\ Undisturbed
    BY <2>1 DEF RaceInv
  <2>3. job[r] = "setup" \/ job[r] \in HostJobs
    BY <1>1, <2>2 DEF Undisturbed, InPlace, RaceTypeOK, RoutingJobs
  <2>4. QED
    BY <2>2, <2>3, SetupStepsAmongSetups, RequestSteps
<1>7. QED
  BY <1>3, <1>4, <1>5, <1>6 DEF RaceInv, OnlySetups

LEMMA BeginInPlace ==
  ASSUME InPlace, NEW r \in Runners, NEW name \in RaceJobs, NEW first \in {1, 2},
         first = 1 \/ name = "setup", Begin(r, name, first)
  PROVE  RunnersOK' /\ ready' = ready
<1>1. first <= Len(Steps[name]) /\ first \in 1..12
  <2> DEFINE last == Len(Steps[name])
  <2>1. last \in 1..12 /\ (name = "setup" => last = 12)
    BY StepsLen, SetupAt
  <2> HIDE DEF last
  <2>2. first <= last /\ first \in 1..12
    BY <2>1
  <2>3. QED
    BY <2>2 DEF last
<1>2. RunnersOK
  BY InPlaceParts
<1>3. QED
  BY <1>1, <1>2 DEF RunnersOK, Begin, RaceJobs

LEMMA NotedInPlace ==
  ASSUME InPlace, NEW kind, Noted(kind)
  PROVE  during' \in {"setup", "again", "setups", "other"}
BY DEF Noted

\* Another routing script may have begun only if it has been noted.
LEMMA NotedSetup ==
  ASSUME RaceInv, Noted("setup"), OnlySetups'
  PROVE  AtRest \/ Undisturbed
BY DEF RaceInv, Noted, OnlySetups, InPlace, RaceTypeOK

LEMMA StartScriptKeeps ==
  ASSUME RaceInv, NEW r \in Runners, StartScript(r)
  PROVE  RaceInv'
<1>1. InPlace /\ UNCHANGED <<ruleVars, setVars, routeVars, linked>>
  BY DEF RaceInv, StartScript
<1>2. CASE \E first \in {1, 2} : Begin(r, "setup", first) /\ Noted("setup")
  <2>1. PICK first \in {1, 2} : Begin(r, "setup", first) /\ Noted("setup")
    BY <1>2
  <2>2. RunnersOK' /\ ready' = ready /\ during' \in {"setup", "again", "setups", "other"}
    BY <1>1, <2>1, BeginInPlace, NotedInPlace DEF RaceJobs, RoutingJobs
  <2>3. InPlace'
    BY <1>1, <2>2 DEF InPlace, RaceTypeOK, RunnersOK, ruleVars, setVars, routeVars
  <2>4. OnlySetups' => Undisturbed'
    BY <1>1, <2>1, NotedSetup, Begins DEF ruleVars, setVars, routeVars
  <2>5. QED
    BY <2>2, <2>3, <2>4 DEF RaceInv
<1>3. CASE Begin(r, "teardown", 1) /\ Noted("other")
  <2>1. RunnersOK' /\ ready' = ready
    BY <1>1, <1>3, BeginInPlace DEF RaceJobs, RoutingJobs
  <2>2. during' = "other"
    BY <1>3 DEF Noted
  <2>3. InPlace'
    BY <1>1, <2>1, <2>2 DEF InPlace, RaceTypeOK, RunnersOK, ruleVars, setVars, routeVars
  <2>4. QED
    BY <2>2, <2>3 DEF RaceInv, OnlySetups
<1>4. QED
  BY <1>2, <1>3 DEF StartScript

LEMMA StartRequestKeeps ==
  ASSUME RaceInv, NEW r \in Runners, StartRequest(r)
  PROVE  RaceInv'
<1>1. InPlace /\ UNCHANGED <<ruleVars, setVars, routeVars, linked, during>>
  BY DEF RaceInv, StartRequest
<1>2. PICK name \in HostJobs : Begin(r, name, 1)
  BY DEF StartRequest
<1>3. RunnersOK' /\ ready' = ready
  BY <1>1, <1>2, BeginInPlace DEF RaceJobs
<1>4. InPlace'
  BY <1>1, <1>3 DEF InPlace, RaceTypeOK, RunnersOK, ruleVars, setVars, routeVars
<1>5. /\ job[r] \notin RoutingJobs /\ job'[r] \notin RoutingJobs
      /\ \A q \in Runners \ {r} :
           job'[q] = job[q] /\ at'[q] = at[q] /\ found'[q] = found[q] /\ ready'[q] = ready[q]
  BY <1>1, <1>2 DEF Begin, InPlace, RaceTypeOK, HostJobs, RoutingJobs
<1>6. AtRest => AtRest'
  BY <1>5 DEF AtRest
<1>7. OnlySetups => Undisturbed'
  BY <1>1, <1>5, Beside DEF RaceInv, ruleVars, setVars, routeVars
<1>8. QED
  BY <1>1, <1>4, <1>6, <1>7 DEF RaceInv, OnlySetups

LEMMA TunnelUpKeeps ==
  ASSUME RaceInv, NEW r \in Runners, TunnelUp(r)
  PROVE  RaceInv'
<1>1. /\ InPlace /\ Begin(r, "setup", 1) /\ linked' = TRUE
      /\ UNCHANGED <<ruleVars, setVars, routeVars>>
  BY DEF RaceInv, TunnelUp
<1>2. PICK kind : Noted(kind) /\ (AtRest \/ kind = "other")
  BY DEF TunnelUp
<1>3. RunnersOK' /\ ready' = ready /\ during' \in {"setup", "again", "setups", "other"}
  BY <1>1, <1>2, BeginInPlace, NotedInPlace DEF RaceJobs, RoutingJobs
<1>4. InPlace'
  BY <1>1, <1>3 DEF InPlace, RaceTypeOK, RunnersOK, ruleVars, setVars, routeVars
<1>5. OnlySetups' => Undisturbed'
  <2>1. OnlySetups' => AtRest
    BY <1>2 DEF Noted, OnlySetups
  <2>2. QED
    BY <1>1, <2>1, Begins DEF ruleVars, setVars, routeVars
<1>6. QED
  BY <1>3, <1>4, <1>5 DEF RaceInv

LEMMA TunnelDownKeeps ==
  ASSUME RaceInv, NEW r \in Runners, TunnelDown(r)
  PROVE  RaceInv'
<1>1. /\ InPlace /\ linked' = FALSE /\ table' = "none" /\ during' = "other"
      /\ UNCHANGED <<ruleVars, setVars, fwrule>>
  BY DEF RaceInv, TunnelDown, Noted
<1>2. RunnersOK' /\ ready' = ready
  <2>1. CASE Begin(r, "down", 1)
    BY <1>1, <2>1, BeginInPlace DEF RaceJobs, RoutingJobs
  <2>2. CASE UNCHANGED runnerVars
    BY <1>1, <2>2, InPlaceParts DEF RunnersOK, runnerVars
  <2>3. QED
    BY <2>1, <2>2 DEF TunnelDown
<1>3. InPlace'
  BY <1>1, <1>2 DEF InPlace, RaceTypeOK, RunnersOK, ruleVars, setVars
<1>4. QED
  BY <1>1, <1>3 DEF RaceInv, OnlySetups

LEMMA KillKeeps ==
  ASSUME RaceInv, NEW r \in Runners, Kill(r)
  PROVE  RaceInv'
<1>1. /\ InPlace /\ job[r] # "none" /\ Die(r) /\ ready' = ready
      /\ UNCHANGED <<ruleVars, setVars, routeVars, linked>>
  BY DEF RaceInv, Kill, Die
<1>2. RunnersOK'
  BY <1>1, InPlaceParts, MovesInPlace DEF Moves
<1>3. during' \in {"nothing", "setup", "again", "setups", "other"}
  BY <1>1 DEF Kill, InPlace, RaceTypeOK
<1>4. InPlace'
  BY <1>1, <1>2, <1>3 DEF InPlace, RaceTypeOK, RunnersOK, ruleVars, setVars, routeVars
<1>5. CASE job[r] \in RoutingJobs
  <2>1. during' = "other"
    BY <1>5 DEF Kill
  <2>2. QED
    BY <1>4, <2>1 DEF RaceInv, OnlySetups
<1>6. CASE job[r] \notin RoutingJobs
  <2>1. during' = during
    BY <1>6 DEF Kill
  <2>2. /\ job'[r] = "none"
        /\ \A q \in Runners \ {r} :
             job'[q] = job[q] /\ at'[q] = at[q] /\ found'[q] = found[q] /\ ready'[q] = ready[q]
    BY <1>1 DEF Die, InPlace, RaceTypeOK
  <2>3. AtRest => AtRest'
    BY <1>6, <2>2 DEF AtRest, RoutingJobs
  <2>4. OnlySetups => Undisturbed'
    BY <1>1, <1>6, <2>2, Beside DEF RaceInv, RoutingJobs, ruleVars, setVars, routeVars
  <2>5. QED
    BY <1>4, <2>1, <2>3, <2>4 DEF RaceInv, OnlySetups
<1>7. QED
  BY <1>5, <1>6

LEMMA RaceInit_Inv == RaceInit => RaceInv
<1> SUFFICES ASSUME RaceInit PROVE RaceInv
  OBVIOUS
<1>1. InPlace
  <2>1. RaceTypeOK
    <3>1. <<>> \in Seq(HostRules)
      OBVIOUS
    <3>2. /\ job \in [Runners -> RoutingJobs \cup HostJobs \cup {"none"}]
          /\ at \in [Runners -> 1..12]
      BY DEF RaceInit
    <3>3. found \in [Runners -> {"unasked", "yes", "no"}]
      BY DEF RaceInit
    <3>4. ready \in [Runners -> BOOLEAN]
      BY DEF RaceInit
    <3>5. chain \in Seq(HostRules) /\ marks \in Nat /\ sets \subseteq RaceSets /\ hosts \subseteq Hosts
      BY <3>1 DEF RaceInit
    <3>6. QED
      BY <3>2, <3>3, <3>4, <3>5 DEF RaceInit, RaceTypeOK
  <2>2. QED
    BY <2>1 DEF RaceInit, InPlace
<1>2. AtRest /\ ~OnlySetups
  BY DEF RaceInit, AtRest, RoutingJobs, OnlySetups
<1>3. QED
  BY <1>1, <1>2 DEF RaceInv

LEMMA RaceNext_Inv == RaceInv /\ [RaceNext]_raceVars => RaceInv'
<1> SUFFICES ASSUME RaceInv, [RaceNext]_raceVars PROVE RaceInv'
  OBVIOUS
<1>1. CASE RaceNext
  BY <1>1, StepKeeps, StartScriptKeeps, StartRequestKeeps, TunnelUpKeeps, TunnelDownKeeps,
     KillKeeps DEF RaceNext
<1>2. CASE UNCHANGED raceVars
  BY <1>2 DEF RaceInv, InPlace, RaceTypeOK, AtRest, OnlySetups, Undisturbed, Behind,
     Overtaken, Ahead, Present, Marked, Routed, TableRight,
     raceVars, runnerVars, ruleVars, setVars, routeVars
<1>3. QED
  BY <1>1, <1>2

LEMMA RaceInv_Converges == RaceInv => SetupsConverge
<1> SUFFICES ASSUME RaceInv, AtRest, OnlySetups
             PROVE  /\ ListedRoute = IF linked THEN "tunnel" ELSE "lan"
                    /\ marks > 0 => "domains" \in sets /\ fills
                    /\ hosts # {} => Rejected("internet")
  BY DEF SetupsConverge, OnlySetups
<1>1. \A m, n : ~Ahead(m, n)
  BY DEF Ahead, AtRest, RoutingJobs
<1>2. Present("reject") /\ Marked /\ Routed
  BY <1>1 DEF RaceInv, Undisturbed
<1>3. ListedRoute = IF linked THEN "tunnel" ELSE "lan"
  BY <1>2 DEF ListedRoute, Marked, Routed, TableRight
<1>4. marks > 0 => "domains" \in sets /\ fills
  BY <1>2 DEF RaceInv, InPlace, Routed
<1>5. Rejected("internet")
  BY <1>2 DEF Rejected, Present
<1>6. QED
  BY <1>3, <1>4, <1>5

\* The state of overlapping scripts is well formed, for any number of scripts
\* and hosts.
THEOREM RacesTyped == RaceSpec => []RaceTypeOK
<1>1. RaceInv => RaceTypeOK
  BY DEF RaceInv, InPlace
<1>2. QED
  BY RaceInit_Inv, RaceNext_Inv, <1>1, PTL DEF RaceSpec

\* Any number of overlapping runs of setup-routing and fix-routes leave the
\* kernel as one run alone would: the marks, their rule, the table, the set
\* that dnsmasq fills and the rule that rejects blocked hosts.
THEOREM RacesConverge == RaceSpec => []SetupsConverge
BY RaceInit_Inv, RaceNext_Inv, RaceInv_Converges, PTL DEF RaceSpec

---------------------------------------------------------------------------
(* The rules for blocked hosts.  Two runs that overlap can leave a rule     *)
(* twice, but no more often: a run inserts a rule only if it has found none *)
(* before.  A run that nothing overlaps then takes one of each out, the     *)
(* next one the last of each, and puts both back in order.                  *)

AtMostTwoRun == \A a, b, c \in Runners : a = b \/ b = c \/ a = c

Once(rule) == \A i, j \in DOMAIN chain : chain[i] = rule /\ chain[j] = rule => i = j
Twice(rule) ==
  \A i, j, l \in DOMAIN chain :
    chain[i] = rule /\ chain[j] = rule /\ chain[l] = rule => i = j \/ j = l \/ i = l

\* A setup has found the rule missing, and is about to insert it.
InsertAt(rule) == IF rule = "reject" THEN 5 ELSE 6
Inserts(r, rule) == job[r] = "setup" /\ at[r] = InsertAt(rule) /\ found[r] = "no"

\* The copies there are and those about to come are two at most.
Copies(rule) ==
  /\ Twice(rule)
  /\ \A r \in Runners : Inserts(r, rule) => Once(rule)
  /\ \A q, r \in Runners : Inserts(q, rule) /\ Inserts(r, rule) /\ Present(rule) => q = r

RunAlone == during \in {"setup", "again"}
OneScript == \A q, r \in Runners : job[q] \in RoutingJobs /\ job[r] \in RoutingJobs => q = r

\* What a run that nothing overlaps has done so far, the second of them with
\* what the first has left.
Tidies(r) ==
  /\ \A rule \in HostRules : Inserts(r, rule) => ~Present(rule)
  /\ during = "again" \/ at[r] >= 4 => Once("reject")
  /\ during = "again" \/ at[r] >= 5 => Once("accept")
  /\ during = "again" =>
       /\ at[r] \in {4, 5} => ~Present("reject")
       /\ at[r] \in {5, 6} => ~Present("accept")
       /\ at[r] >= 7 => ~Rejected("private")
Tidy ==
  /\ Once("reject") /\ Once("accept")
  /\ during = "again" => ~Rejected("private")

HostsInv ==
  /\ \A rule \in HostRules : Copies(rule)
  /\ RunAlone =>
       /\ OneScript
       /\ \A r \in Runners : job[r] \in RoutingJobs => Tidies(r)
       /\ AtRest => Tidy

\* Where the entries of a sequence were before one was deleted.
LEMMA DeletionMap ==
  ASSUME NEW s \in Seq(HostRules), NEW i \in 1..Len(s)
  PROVE  LET t == SubSeq(s, 1, i - 1) \o SubSeq(s, i + 1, Len(s))
         IN  /\ t \in Seq(HostRules) /\ Len(t) = Len(s) - 1
             /\ \A l \in 1..Len(t) : t[l] = s[IF l < i THEN l ELSE l + 1]
<1> DEFINE u == SubSeq(s, 1, i - 1)
           v == SubSeq(s, i + 1, Len(s))
<1>1. Len(s) \in Nat /\ i \in Nat /\ 1 <= i /\ i <= Len(s)
  OBVIOUS
<1>2. u \in Seq(HostRules) /\ Len(u) = i - 1 /\ \A l \in 1..(i - 1) : u[l] = s[l]
  OBVIOUS
<1>3. v \in Seq(HostRules) /\ Len(v) = Len(s) - i /\ \A l \in 1..(Len(s) - i) : v[l] = s[i + l]
  OBVIOUS
<1> DEFINE t == u \o v
<1> SUFFICES /\ t \in Seq(HostRules) /\ Len(t) = Len(s) - 1
             /\ \A l \in 1..Len(t) : t[l] = s[IF l < i THEN l ELSE l + 1]
  OBVIOUS
<1> HIDE DEF u, v
<1>5. /\ t \in Seq(HostRules) /\ Len(t) = Len(u) + Len(v)
      /\ \A l \in 1..(Len(u) + Len(v)) : t[l] = IF l <= Len(u) THEN u[l] ELSE v[l - Len(u)]
  BY <1>2, <1>3, ConcatProperties
<1> HIDE DEF t
<1>6. ASSUME NEW l \in 1..Len(t) PROVE t[l] = s[IF l < i THEN l ELSE l + 1]
  <2>1. CASE l < i
    BY <1>1, <1>2, <1>3, <1>5, <2>1
  <2>2. CASE ~(l < i)
    <3>1. l - Len(u) \in 1..(Len(s) - i) /\ i + (l - Len(u)) = l + 1 /\ ~(l <= Len(u))
      BY <1>1, <1>2, <1>3, <1>5, <2>2
    <3>2. t[l] = v[l - Len(u)]
      BY <1>5, <3>1
    <3>3. v[l - Len(u)] = s[l + 1]
      BY <1>3, <3>1
    <3> QED
      BY <2>2, <3>2, <3>3
  <2> QED
    BY <2>1, <2>2
<1> QED
  BY <1>1, <1>2, <1>3, <1>5, <1>6

\* What a deletion leaves of the copies of each rule.
LEMMA DeleteCopies ==
  ASSUME chain \in Seq(HostRules), NEW rule \in DOMAIN SetOf, Delete(rule)
  PROVE  /\ \A x \in HostRules : /\ Present(x)' => Present(x)
                                 /\ Once(x) => Once(x)'
                                 /\ Twice(x) => Twice(x)'
         /\ rule \in HostRules => /\ Once(rule) => ~Present(rule)'
                                  /\ Twice(rule) => Once(rule)'
<1>1. CASE rule = "mark" \/ ~Present(rule)
  <2>1. chain' = chain /\ (rule = "mark" => rule \notin HostRules)
    BY <1>1 DEF Delete, HostRules
  <2>2. rule \in HostRules => ~Present(rule)' /\ Once(rule)'
    BY <1>1, <2>1 DEF Present, HostRules, Once
  <2>3. ASSUME NEW x \in HostRules
        PROVE  /\ Present(x)' => Present(x)
               /\ Once(x) => Once(x)'
               /\ Twice(x) => Twice(x)'
    <3>1. x # "mark"
      BY DEF HostRules
    <3> QED
      BY <2>1, <3>1 DEF Present, Once, Twice
  <2> QED
    BY <2>2, <2>3
<1>2. CASE rule # "mark" /\ Present(rule)
  <2>1. PICK i \in DOMAIN chain :
          /\ chain[i] = rule
          /\ chain' = SubSeq(chain, 1, i - 1) \o SubSeq(chain, i + 1, Len(chain))
    BY <1>2 DEF Delete
  <2>2. DOMAIN chain = 1..Len(chain) /\ Len(chain) \in Nat /\ i \in 1..Len(chain)
    OBVIOUS
  <2> DEFINE old(l) == IF l < i THEN l ELSE l + 1
  <2>3. /\ chain' \in Seq(HostRules) /\ Len(chain') = Len(chain) - 1
        /\ \A l \in 1..Len(chain') : chain'[l] = chain[old(l)]
    BY <2>1, <2>2, DeletionMap
  <2>4. DOMAIN chain' = 1..(Len(chain) - 1)
    BY <2>3
  <2>5. /\ \A l \in DOMAIN chain' : old(l) \in DOMAIN chain /\ old(l) # i /\ chain'[l] = chain[old(l)]
        /\ \A l, m \in DOMAIN chain' : old(l) = old(m) => l = m
    BY <2>2, <2>3, <2>4
  <2> HIDE DEF old
  <2>6. ASSUME NEW x \in HostRules
        PROVE  /\ Present(x)' => Present(x)
               /\ Once(x) => Once(x)'
               /\ Twice(x) => Twice(x)'
    <3>1. x # "mark"
      BY DEF HostRules
    <3>2. Present(x)' => Present(x)
      BY <2>5, <3>1 DEF Present
    <3>3. Once(x) => Once(x)'
      BY <2>5 DEF Once
    <3>4. Twice(x) => Twice(x)'
      BY <2>5 DEF Twice
    <3> QED
      BY <3>2, <3>3, <3>4
  <2>7. Once(rule) => ~Present(rule)'
    BY <1>2, <2>1, <2>5 DEF Once, Present
  <2>8. ASSUME Twice(rule) PROVE Once(rule)'
    <3> SUFFICES ASSUME NEW l \in DOMAIN chain', NEW m \in DOMAIN chain',
                        chain'[l] = rule, chain'[m] = rule
                 PROVE  l = m
      BY DEF Once
    <3>1. /\ old(l) \in DOMAIN chain /\ chain[old(l)] = rule /\ old(l) # i
          /\ old(m) \in DOMAIN chain /\ chain[old(m)] = rule /\ old(m) # i
      BY <2>5
    <3>2. chain[i] = rule /\ i \in DOMAIN chain
      BY <2>1
    <3>3. old(l) = old(m)
      BY <2>8, <3>1, <3>2 DEF Twice
    <3> QED
      BY <2>5, <3>3
  <2> QED
    BY <2>6, <2>7, <2>8
<1> QED
  BY <1>1, <1>2

\* What an insertion makes of them.
LEMMA InsertCopies ==
  ASSUME chain \in Seq(HostRules), NEW rule \in HostRules, chain' = <<rule>> \o chain
  PROVE  /\ ~Present(rule) => Once(rule)'
         /\ Once(rule) => Twice(rule)'
         /\ \A x \in HostRules \ {rule} : /\ Present(x)' => Present(x)
                                          /\ Once(x) => Once(x)'
                                          /\ Twice(x) => Twice(x)'
         /\ rule = "accept" => ~Rejected("private")'
<1>1. /\ Len(chain') = Len(chain) + 1 /\ chain' \in Seq(HostRules) /\ Len(chain) \in Nat
      /\ chain'[1] = rule
      /\ \A i \in 1..Len(chain) : chain'[i + 1] = chain[i]
  OBVIOUS
<1>2. DOMAIN chain' = 1..(Len(chain) + 1) /\ DOMAIN chain = 1..Len(chain)
  BY <1>1
<1> DEFINE old(i) == i - 1
<1>3. /\ \A i \in DOMAIN chain' : i # 1 => old(i) \in DOMAIN chain /\ chain'[i] = chain[old(i)]
      /\ \A i, j \in DOMAIN chain' : old(i) = old(j) => i = j
  <2>1. ASSUME NEW i \in DOMAIN chain', i # 1
        PROVE  old(i) \in DOMAIN chain /\ chain'[i] = chain[old(i)]
    <3>1. i - 1 \in 1..Len(chain) /\ (i - 1) + 1 = i
      BY <1>1, <1>2, <2>1
    <3> QED
      BY <1>1, <1>2, <3>1
  <2>2. \A i, j \in DOMAIN chain' : old(i) = old(j) => i = j
    BY <1>2
  <2> QED
    BY <2>1, <2>2
<1> HIDE DEF old
<1>4. rule # "mark" /\ \A x \in HostRules : x # "mark"
  BY DEF HostRules
<1>5. ~Present(rule) => Once(rule)'
  BY <1>3, <1>4 DEF Present, Once
<1>6. Once(rule) => Twice(rule)'
  BY <1>3 DEF Once, Twice
<1>7. ASSUME NEW x \in HostRules \ {rule}
      PROVE  /\ Present(x)' => Present(x)
             /\ Once(x) => Once(x)'
             /\ Twice(x) => Twice(x)'
  <2>1. \A i \in DOMAIN chain' : chain'[i] = x => i # 1
    BY <1>1
  <2>2. Present(x)' => Present(x)
    BY <1>3, <1>4, <2>1 DEF Present
  <2>3. Once(x) => Once(x)'
    BY <1>3, <2>1 DEF Once
  <2>4. Twice(x) => Twice(x)'
    BY <1>3, <2>1 DEF Twice
  <2> QED
    BY <2>2, <2>3, <2>4
<1>8. rule = "accept" => ~Rejected("private")'
  <2> SUFFICES ASSUME rule = "accept", NEW i \in DOMAIN chain', chain'[i] = "reject"
               PROVE  ~(\A j \in 1..(i - 1) : chain'[j] # "accept")
    BY DEF Rejected
  <2>1. 1 \in 1..(i - 1)
    BY <1>1, <1>2
  <2> QED
    BY <1>1, <2>1
<1> QED
  BY <1>5, <1>6, <1>7, <1>8

---------------------------------------------------------------------------
(* The copies of a rule.                                                   *)

\* Nothing is inserted, and nobody is newly about to.
LEMMA CopiesKept ==
  ASSUME NEW rule, Copies(rule),
         \A q \in Runners : Inserts(q, rule)' => Inserts(q, rule),
         Present(rule)' => Present(rule), Once(rule) => Once(rule)', Twice(rule) => Twice(rule)'
  PROVE  Copies(rule)'
BY DEF Copies

LEMMA CopiesAsked ==
  ASSUME NEW rule \in HostRules, Copies(rule), ~Present(rule), chain' = chain
  PROVE  Copies(rule)'
<1>1. rule # "mark"
  BY DEF HostRules
<1>2. ~Present(rule)' /\ Once(rule)' /\ Twice(rule)'
  BY <1>1 DEF Present, Once, Twice
<1> QED
  BY <1>2 DEF Copies

LEMMA CopiesInserted ==
  ASSUME AtMostTwoRun, chain \in Seq(HostRules), NEW rule \in HostRules, Copies(rule),
         NEW r \in Runners, Inserts(r, rule), ~Inserts(r, rule)',
         \A q \in Runners \ {r} : Inserts(q, rule)' => Inserts(q, rule),
         chain' = <<rule>> \o chain
  PROVE  Copies(rule)'
<1>1. CASE \E q \in Runners \ {r} : Inserts(q, rule)
  <2>1. ~Present(rule)
    BY <1>1 DEF Copies
  <2>2. Once(rule)'
    BY <2>1, InsertCopies
  <2>3. Twice(rule)'
    BY <2>2 DEF Once, Twice
  <2>4. \A p, q \in Runners : Inserts(p, rule)' /\ Inserts(q, rule)' => p = q
    BY DEF AtMostTwoRun
  <2> QED
    BY <2>2, <2>3, <2>4 DEF Copies
<1>2. CASE ~\E q \in Runners \ {r} : Inserts(q, rule)
  <2>1. \A q \in Runners : ~Inserts(q, rule)'
    BY <1>2
  <2>2. Twice(rule)'
    BY InsertCopies DEF Copies
  <2> QED
    BY <2>1, <2>2 DEF Copies
<1> QED
  BY <1>1, <1>2

\* Only setup-routing inserts the rules.
LEMMA OnlySetupInserts ==
  ASSUME InPlace, NEW r \in Runners, NEW rule \in HostRules, Does(r, "insert", rule)
  PROVE  job[r] = "setup" /\ at[r] = InsertAt(rule)
<1>1. job[r] \in {"setup", "teardown", "down"} \cup HostJobs /\ at[r] \in 1..12
      /\ at[r] <= Len(Steps[job[r]]) /\ Steps[job[r]][at[r]] = <<"insert", rule>>
  BY DEF InPlace, RaceTypeOK, Does, RoutingJobs
<1>2. job[r] \notin HostJobs
  BY RequestDoes
<1>3. job[r] # "teardown"
  <2> SUFFICES ASSUME job[r] = "teardown" PROVE FALSE
    OBVIOUS
  <2>1. Steps["teardown"] = TeardownSteps /\ Len(TeardownSteps) = 7
    BY DEF Steps, TeardownSteps
  <2>2. at[r] \in 1..7 /\ TeardownSteps[at[r]] = <<"insert", rule>>
    BY <1>1, <2>1
  <2>3. \A i \in 1..7 : TeardownSteps[i][1] # "insert"
    BY DEF TeardownSteps
  <2> QED
    BY <2>2, <2>3
<1>4. job[r] # "down"
  <2> SUFFICES ASSUME job[r] = "down" PROVE FALSE
    OBVIOUS
  <2>1. Steps["down"] = << <<"route", "flush">> >>
    BY DEF Steps
  <2>2. at[r] = 1
    BY <1>1, <2>1
  <2> QED
    BY <1>1, <2>1, <2>2
<1>5. job[r] = "setup"
  BY <1>1, <1>2, <1>3, <1>4
<1> QED
  BY <1>1, <1>5, SetupDoes DEF InsertAt, HostRules

\* The parts of a step of a runner that other than the inserting ones take.
LEMMA OthersInsertNothing ==
  ASSUME InPlace, NEW r \in Runners, Step(r), ~Insert(r)
  PROVE  /\ \A rule \in HostRules : ~Inserts(r, rule)'
         /\ \/ chain' = chain
            \/ \E rule \in DOMAIN SetOf : Does(r, "drop", rule) /\ Delete(rule) /\ GoOn(r)
<1>1. job[r] # "none" /\ Moves(r)
  <2>1. KernelOK
    BY InPlaceParts
  <2> QED
    BY <2>1, ActionsInPlace, StepRuns
<1>2. ASSUME NEW rule \in HostRules, job[r] = "setup", at[r] = InsertAt(rule) PROVE FALSE
  <2>1. at[r] \in {5, 6} /\ at[r] \in 1..12
    BY <1>2 DEF InsertAt
  <2>2. /\ ~Make(r) /\ ~Drop(r) /\ ~AppendMark(r) /\ ~CreateDomains(r) /\ ~AddFwRule(r)
        /\ ~DelFwRule(r) /\ ~Route(r) /\ ~Flush(r) /\ ~RestartDns(r) /\ ~Destroy(r)
        /\ ~ChangeHosts(r)
    BY <1>2, <2>1, SetupDoes DEF Make, Drop, AppendMark, CreateDomains, AddFwRule, DelFwRule,
       Route, Flush, RestartDns, Destroy, ChangeHosts
  <2> QED
    BY <2>2 DEF Step
<1>3. ASSUME NEW rule \in HostRules PROVE ~Inserts(r, rule)'
  <2>1. ~(job[r] = "setup" /\ at[r] = InsertAt(rule))
    BY <1>2
  <2>2. CASE GoOn(r) \/ Die(r)
    <3>1. found'[r] = "unasked"
      BY <2>2 DEF GoOn, Die, InPlace, RaceTypeOK
    <3> QED
      BY <3>1 DEF Inserts
  <2>3. CASE UNCHANGED <<job, at>>
    BY <2>1, <2>3 DEF Inserts, InsertAt
  <2> QED
    BY <1>1, <2>2, <2>3 DEF Moves
<1>4. \/ chain' = chain
      \/ \E rule \in DOMAIN SetOf : Does(r, "drop", rule) /\ Delete(rule) /\ GoOn(r)
  <2>1. CASE Drop(r)
    BY <2>1 DEF Drop, Ask, ruleVars
  <2>2. CASE ~Drop(r)
    BY <2>2 DEF Step, Make, AppendMark, CreateDomains, AddFwRule, DelFwRule, Route, Flush,
       RestartDns, Destroy, ChangeHosts, Ask, ruleVars
  <2> QED
    BY <2>1, <2>2
<1> QED
  BY <1>3, <1>4

\* A setup that inserts asks first whether the rule is there.
LEMMA InsertCases ==
  ASSUME InPlace, NEW r \in Runners, Insert(r)
  PROVE  \E rule \in HostRules :
           /\ job[r] = "setup" /\ at[r] = InsertAt(rule)
           /\ \/ /\ ~Present(rule) /\ chain' = chain
                 /\ UNCHANGED <<job, at>>
              \/ Present(rule) /\ chain' = chain /\ GoOn(r)
              \/ /\ Inserts(r, rule) /\ GoOn(r)
                 /\ chain' = IF "blocked" \in sets THEN <<rule>> \o chain ELSE chain
<1>1. PICK rule \in HostRules :
        /\ Does(r, "insert", rule)
        /\ \/ Ask(r, Present(rule), ~Present(rule))
           \/ /\ found[r] = "no"
              /\ chain' = IF SetOf[rule] \in sets THEN <<rule>> \o chain ELSE chain
              /\ GoOn(r)
  BY DEF Insert
<1>2. job[r] = "setup" /\ at[r] = InsertAt(rule)
  BY <1>1, OnlySetupInserts
<1>3. SetOf[rule] = "blocked"
  BY DEF SetOf, HostRules
<1>4. CASE Ask(r, Present(rule), ~Present(rule))
  BY <1>2, <1>4 DEF Ask, ruleVars
<1>5. CASE /\ found[r] = "no" /\ GoOn(r)
           /\ chain' = IF SetOf[rule] \in sets THEN <<rule>> \o chain ELSE chain
  BY <1>2, <1>3, <1>5 DEF Inserts
<1> QED
  BY <1>1, <1>4, <1>5

\* What the other runners are about to insert, they still are.
LEMMA OthersInsert ==
  ASSUME InPlace, NEW r \in Runners, Step(r)
  PROVE  \A q \in Runners \ {r}, rule \in HostRules : Inserts(q, rule)' <=> Inserts(q, rule)
<1>1. Moves(r) /\ job[r] # "none"
  <2>1. KernelOK
    BY InPlaceParts
  <2> QED
    BY <2>1, ActionsInPlace, StepRuns
<1>2. \A q \in Runners \ {r} : job'[q] = job[q] /\ at'[q] = at[q] /\ found'[q] = found[q]
  <2>1. CASE GoOn(r) \/ Die(r)
    BY <1>1, <2>1, OneRunner
  <2>2. CASE /\ \E answer \in {"unasked", "yes", "no"} : found' = [found EXCEPT ![r] = answer]
             /\ UNCHANGED <<job, at>>
    BY <2>2 DEF InPlace, RaceTypeOK
  <2> QED
    BY <1>1, <2>1, <2>2 DEF Moves
<1> QED
  BY <1>2 DEF Inserts, InsertAt

LEMMA CopiesStep ==
  ASSUME AtMostTwoRun, InPlace, \A rule \in HostRules : Copies(rule), NEW r \in Runners, Step(r)
  PROVE  \A rule \in HostRules : Copies(rule)'
<1>1. \A q \in Runners \ {r}, rule \in HostRules : Inserts(q, rule)' <=> Inserts(q, rule)
  BY OthersInsert
<1>2. chain \in Seq(HostRules)
  BY DEF InPlace, RaceTypeOK
<1>3. CASE ~Insert(r)
  <2>1. \A rule \in HostRules : ~Inserts(r, rule)'
    BY <1>3, OthersInsertNothing
  <2>2. \A q \in Runners, rule \in HostRules : Inserts(q, rule)' => Inserts(q, rule)
    BY <1>1, <2>1
  <2>3. \A x \in HostRules : /\ Present(x)' => Present(x)
                             /\ Once(x) => Once(x)'
                             /\ Twice(x) => Twice(x)'
    <3>1. CASE chain' = chain
      BY <3>1 DEF Present, Once, Twice, HostRules
    <3>2. CASE \E rule \in DOMAIN SetOf : Delete(rule)
      BY <1>2, <3>2, DeleteCopies
    <3> QED
      BY <1>3, <3>1, <3>2, OthersInsertNothing
  <2> QED
    BY <2>2, <2>3, CopiesKept
<1>4. CASE Insert(r)
  <2>1. PICK rule \in HostRules :
           /\ job[r] = "setup" /\ at[r] = InsertAt(rule)
           /\ \/ /\ ~Present(rule) /\ chain' = chain
                 /\ UNCHANGED <<job, at>>
              \/ Present(rule) /\ chain' = chain /\ GoOn(r)
              \/ /\ Inserts(r, rule) /\ GoOn(r)
                 /\ chain' = IF "blocked" \in sets THEN <<rule>> \o chain ELSE chain
    BY <1>4, InsertCases
  <2>2. GoOn(r) => \A x \in HostRules : ~Inserts(r, x)'
    BY DEF GoOn, Inserts, InPlace, RaceTypeOK
  <2>3. ASSUME chain' = chain, NEW x \in HostRules, ~Inserts(r, x)' PROVE Copies(x)'
    <3>1. \A q \in Runners : Inserts(q, x)' => Inserts(q, x)
      BY <1>1, <2>3
    <3>2. /\ Present(x)' => Present(x)
          /\ Once(x) => Once(x)'
          /\ Twice(x) => Twice(x)'
      BY <2>3 DEF Present, Once, Twice, HostRules
    <3> QED
      BY <3>1, <3>2, CopiesKept
  <2>4. CASE ~Present(rule) /\ chain' = chain /\ UNCHANGED <<job, at>>
    <3>1. Copies(rule)'
      BY <2>4, CopiesAsked
    <3>2. \A x \in HostRules \ {rule} : ~Inserts(r, x)'
      BY <2>1, <2>4 DEF Inserts, InsertAt, HostRules
    <3> QED
      BY <2>3, <2>4, <3>1, <3>2
  <2>5. CASE GoOn(r) /\ chain' = chain
    BY <2>2, <2>3, <2>5
  <2>6. CASE Inserts(r, rule) /\ GoOn(r) /\ chain' = <<rule>> \o chain
    <3>1. Copies(rule)'
      BY <1>1, <1>2, <2>2, <2>6, CopiesInserted
    <3>2. ASSUME NEW x \in HostRules \ {rule} PROVE Copies(x)'
      <4>1. \A q \in Runners : Inserts(q, x)' => Inserts(q, x)
        BY <1>1, <2>2, <2>6
      <4>2. /\ Present(x)' => Present(x)
            /\ Once(x) => Once(x)'
            /\ Twice(x) => Twice(x)'
        BY <1>2, <2>6, InsertCopies
      <4> QED
        BY <4>1, <4>2, CopiesKept
    <3> QED
      BY <3>1, <3>2
  <2> QED
    BY <2>1, <2>4, <2>5, <2>6
<1> QED
  BY <1>3, <1>4

---------------------------------------------------------------------------
(* What a run that nothing overlaps does to the rules for blocked hosts.   *)

GoesOn(r) ==
  /\ at[r] \in 1..11 /\ job' = job
  /\ at' = [at EXCEPT ![r] = at[r] + 1]
  /\ found' = [found EXCEPT ![r] = "unasked"]

DropAt(rule) == IF rule = "reject" THEN 3 ELSE 4

Dropping(r, rule) ==
  at[r] = DropAt(rule) /\ GoesOn(r) /\ (Delete(rule) \/ (~Present(rule) /\ chain' = chain))
Inserting(r, rule) ==
  /\ at[r] = InsertAt(rule)
  /\ \/ ~Present(rule) /\ chain' = chain /\ UNCHANGED <<job, at>>
     \/ GoesOn(r) /\ Present(rule) /\ chain' = chain
     \/ GoesOn(r) /\ Inserts(r, rule) /\ chain' = <<rule>> \o chain
Elsewhere(r) ==
  /\ chain' = chain
  /\ \/ at[r] \notin {5, 6} /\ UNCHANGED <<job, at>>
     \/ at[r] \notin {3, 4, 5, 6} /\ GoesOn(r)
     \/ at[r] >= 7 /\ job'[r] = "none"

LEMMA SetupOnHosts ==
  ASSUME InPlace, NEW r \in Runners, job[r] = "setup", Behind(r), Step(r)
  PROVE  \/ \E rule \in HostRules : Dropping(r, rule) \/ Inserting(r, rule)
         \/ Elsewhere(r)
<1>1. /\ at[r] \in 1..12
      /\ at \in [Runners -> 1..12]
      /\ job \in [Runners -> RoutingJobs \cup HostJobs \cup {"none"}]
  BY DEF InPlace, RaceTypeOK
<1>2. at[r] # 12 /\ GoOn(r) => GoesOn(r)
  BY SetupGoesOn DEF GoesOn
<1>3. CASE Make(r)
  BY <1>1, <1>2, <1>3, SetupDoes DEF Make, Elsewhere, ruleVars
<1>4. CASE Drop(r)
  <2>1. PICK rule \in DOMAIN SetOf :
          /\ Does(r, "drop", rule)
          /\ \/ Ask(r, Present(rule), Present(rule))
             \/ Delete(rule) /\ GoOn(r)
    BY <1>4 DEF Drop
  <2>2. \/ at[r] = 3 /\ rule = "reject"
        \/ at[r] = 4 /\ rule = "accept"
        \/ at[r] = 10 /\ rule = "mark"
    BY <1>1, <2>1, SetupDoes
  <2>3. rule = "mark" \/ (rule \in HostRules /\ at[r] = DropAt(rule))
    BY <2>2 DEF HostRules, DropAt
  <2>4. CASE Ask(r, Present(rule), Present(rule)) /\ Present(rule)
    BY <2>2, <2>4 DEF Ask, Elsewhere, ruleVars
  <2>5. CASE Ask(r, Present(rule), Present(rule)) /\ ~Present(rule)
    <3>1. chain' = chain /\ GoesOn(r)
      BY <1>2, <2>2, <2>5 DEF Ask, ruleVars
    <3> QED
      BY <2>2, <2>3, <2>5, <3>1 DEF Dropping, Elsewhere
  <2>6. CASE Delete(rule) /\ GoOn(r)
    <3>1. GoesOn(r)
      BY <1>2, <2>2, <2>6
    <3>2. rule = "mark" => chain' = chain
      BY <2>6 DEF Delete
    <3> QED
      BY <2>2, <2>3, <2>6, <3>1, <3>2 DEF Dropping, Elsewhere
  <2> QED
    BY <2>1, <2>4, <2>5, <2>6
<1>5. CASE Insert(r)
  <2>1. PICK rule \in HostRules :
          /\ at[r] = InsertAt(rule)
          /\ \/ /\ ~Present(rule) /\ chain' = chain
                /\ UNCHANGED <<job, at>>
             \/ Present(rule) /\ chain' = chain /\ GoOn(r)
             \/ /\ Inserts(r, rule) /\ GoOn(r)
                /\ chain' = IF "blocked" \in sets THEN <<rule>> \o chain ELSE chain
    BY <1>5, InsertCases
  <2>2. at[r] \in {5, 6} /\ "blocked" \in sets
    BY <2>1 DEF InsertAt, Behind
  <2>3. Inserting(r, rule)
    BY <1>2, <2>1, <2>2 DEF Inserting
  <2> QED
    BY <2>3
<1>6. CASE AppendMark(r) \/ CreateDomains(r) \/ AddFwRule(r)
  <2>1. at[r] \in {7, 8, 11} /\ chain' = chain /\ (GoOn(r) \/ Die(r) \/ UNCHANGED <<job, at>>)
    BY <1>1, <1>6, SetupDoes DEF AppendMark, CreateDomains, AddFwRule, Ask, ruleVars
  <2>2. Die(r) => job'[r] = "none"
    BY <1>1 DEF Die
  <2> QED
    BY <1>2, <2>1, <2>2 DEF Elsewhere
<1>7. CASE Route(r)
  <2>1. /\ at[r] \in {1, 9} /\ chain' = chain
        /\ GoOn(r) \/ (Die(r) /\ found[r] = "yes" /\ ~linked) \/ UNCHANGED <<job, at>>
    BY <1>1, <1>7, SetupDoes DEF Route, Ask, ruleVars
  <2>2. Die(r) => job'[r] = "none"
    BY <1>1 DEF Die
  <2>3. at[r] = 1 /\ found[r] = "yes" => linked
    BY DEF Behind
  <2> QED
    BY <1>2, <2>1, <2>2, <2>3 DEF Elsewhere
<1>8. CASE RestartDns(r)
  <2>1. at[r] = 12 /\ chain' = chain /\ GoOn(r)
    BY <1>1, <1>8, SetupDoes DEF RestartDns, ruleVars
  <2>2. Len(Steps[job[r]]) = 12
    BY StepsLen, SetupAt
  <2>3. job'[r] = "none"
    BY <1>1, <2>1, <2>2 DEF GoOn
  <2> QED
    BY <2>1, <2>3 DEF Elsewhere
<1>9. ~Flush(r) /\ ~DelFwRule(r) /\ ~Destroy(r) /\ ~ChangeHosts(r)
  BY <1>1, SetupDoes DEF Flush, DelFwRule, Destroy, ChangeHosts
<1> QED
  BY <1>3, <1>4, <1>5, <1>6, <1>7, <1>8, <1>9 DEF Step

LEMMA TidiesStep ==
  ASSUME InPlace, NEW r \in Runners, job[r] = "setup", Behind(r), Step(r), RunAlone,
         Tidies(r), \A rule \in HostRules : Copies(rule)
  PROVE  /\ job'[r] = "setup" => Tidies(r)'
         /\ job'[r] # "setup" => Tidy'
<1>1. /\ at[r] \in 1..12 /\ at \in [Runners -> 1..12] /\ chain \in Seq(HostRules)
      /\ found \in [Runners -> {"unasked", "yes", "no"}]
      /\ during' = during
  BY DEF InPlace, RaceTypeOK, Step
<1>2. /\ Twice("reject") /\ Twice("accept") /\ "reject" \in HostRules /\ "accept" \in HostRules
      /\ \A x \in HostRules : x = "reject" \/ x = "accept"
  BY DEF Copies, HostRules
<1>3. GoesOn(r) => /\ job'[r] = "setup" /\ at'[r] = at[r] + 1
                   /\ \A x \in HostRules : ~Inserts(r, x)'
  BY <1>1 DEF GoesOn, Inserts
<1>4. ASSUME chain' = chain
      PROVE  /\ \A x \in HostRules : (Present(x)' <=> Present(x)) /\ (Once(x)' <=> Once(x))
             /\ Rejected("private")' <=> Rejected("private")
  BY <1>4 DEF Present, Once, Rejected, HostRules
<1>5. ASSUME NEW rule \in HostRules, Dropping(r, rule)
      PROVE  job'[r] = "setup" /\ Tidies(r)'
  <2>1. /\ \A x \in HostRules : (Present(x)' => Present(x)) /\ (Once(x) => Once(x)')
        /\ Once(rule) => ~Present(rule)'
        /\ Once(rule)'
    <3>1. CASE Delete(rule)
      <4>1. rule \in DOMAIN SetOf
        BY DEF SetOf, HostRules
      <4> QED
        BY <1>1, <1>2, <3>1, <4>1, DeleteCopies
    <3>2. CASE ~Present(rule) /\ chain' = chain
      <4>1. ~Present(rule)' /\ Once(rule)
        BY <1>4, <3>2 DEF Present, Once, HostRules
      <4> QED
        BY <1>4, <3>2, <4>1
    <3> QED
      BY <1>5, <3>1, <3>2 DEF Dropping
  <2>2. job'[r] = "setup" /\ at'[r] = at[r] + 1 /\ \A x \in HostRules : ~Inserts(r, x)'
    BY <1>3, <1>5 DEF Dropping
  <2>3. CASE rule = "reject"
    <3>1. at[r] = 3 /\ at'[r] = 4
      BY <1>5, <2>2, <2>3 DEF Dropping, DropAt
    <3> QED
      BY <1>1, <1>2, <2>1, <2>2, <2>3, <3>1 DEF Tidies
  <2>4. CASE rule = "accept"
    <3>1. at[r] = 4 /\ at'[r] = 5
      BY <1>5, <2>2, <2>4 DEF Dropping, DropAt
    <3> QED
      BY <1>1, <1>2, <2>1, <2>2, <2>4, <3>1 DEF Tidies
  <2> QED
    BY <1>2, <2>3, <2>4
<1>6. ASSUME NEW rule \in HostRules, Inserting(r, rule)
      PROVE  job'[r] = "setup" /\ Tidies(r)'
  <2>1. CASE ~Present(rule) /\ chain' = chain /\ UNCHANGED <<job, at>>
    <3>1. \A x \in HostRules : Inserts(r, x)' => x = rule
      BY <1>2, <1>6, <2>1 DEF Inserts, Inserting, InsertAt
    <3>2. \A x \in HostRules : Inserts(r, x)' => ~Present(x)'
      BY <1>4, <2>1, <3>1
    <3> QED
      BY <1>1, <1>2, <1>4, <2>1, <3>2 DEF Tidies
  <2>2. ASSUME GoesOn(r), Present(rule), chain' = chain PROVE job'[r] = "setup" /\ Tidies(r)'
    <3>1. job'[r] = "setup" /\ at'[r] = at[r] + 1 /\ \A x \in HostRules : ~Inserts(r, x)'
      BY <1>3, <2>2
    <3>2. CASE rule = "reject"
      <4>1. at[r] = 5 /\ at'[r] = 6
        BY <1>6, <3>1, <3>2 DEF Inserting, InsertAt
      <4> QED
        BY <1>1, <1>2, <1>4, <2>2, <3>1, <3>2, <4>1 DEF Tidies
    <3>3. CASE rule = "accept"
      <4>1. at[r] = 6 /\ at'[r] = 7
        BY <1>6, <3>1, <3>3 DEF Inserting, InsertAt
      <4> QED
        BY <1>1, <1>2, <1>4, <2>2, <3>1, <3>3, <4>1 DEF Tidies
    <3> QED
      BY <1>2, <3>2, <3>3
  <2>3. ASSUME GoesOn(r), Inserts(r, rule), chain' = <<rule>> \o chain
        PROVE  job'[r] = "setup" /\ Tidies(r)'
    <3>1. job'[r] = "setup" /\ at'[r] = at[r] + 1 /\ \A x \in HostRules : ~Inserts(r, x)'
      BY <1>3, <2>3
    <3>2. ~Present(rule)
      BY <2>3 DEF Tidies
    <3>3. /\ Once(rule)'
          /\ \A x \in HostRules \ {rule} : (Present(x)' => Present(x)) /\ (Once(x) => Once(x)')
          /\ rule = "accept" => ~Rejected("private")'
      BY <1>1, <2>3, <3>2, InsertCopies
    <3>4. CASE rule = "reject"
      <4>1. at[r] = 5 /\ at'[r] = 6
        BY <1>6, <3>1, <3>4 DEF Inserting, InsertAt
      <4>2. "accept" \in HostRules \ {rule}
        BY <1>2, <3>4
      <4> QED
        BY <1>1, <3>1, <3>3, <3>4, <4>1, <4>2 DEF Tidies
    <3>5. CASE rule = "accept"
      <4>1. at[r] = 6 /\ at'[r] = 7
        BY <1>6, <3>1, <3>5 DEF Inserting, InsertAt
      <4>2. "reject" \in HostRules \ {rule}
        BY <1>2, <3>5
      <4> QED
        BY <1>1, <3>1, <3>3, <3>5, <4>1, <4>2 DEF Tidies
    <3> QED
      BY <1>2, <3>4, <3>5
  <2> QED
    BY <1>6, <2>1, <2>2, <2>3 DEF Inserting
<1>7. CASE Elsewhere(r)
  <2>1. chain' = chain
    BY <1>7 DEF Elsewhere
  <2>2. ASSUME at[r] \notin {5, 6}, UNCHANGED <<job, at>> PROVE job'[r] = "setup" /\ Tidies(r)'
    <3>1. \A x \in HostRules : ~Inserts(r, x)'
      BY <1>2, <2>2 DEF Inserts, InsertAt
    <3> QED
      BY <1>1, <1>2, <1>4, <2>1, <2>2, <3>1 DEF Tidies
  <2>3. ASSUME at[r] \notin {3, 4, 5, 6}, GoesOn(r) PROVE job'[r] = "setup" /\ Tidies(r)'
    <3>1. job'[r] = "setup" /\ at'[r] = at[r] + 1 /\ \A x \in HostRules : ~Inserts(r, x)'
      BY <1>3, <2>3
    <3>2. (at'[r] <= 3 /\ at[r] <= 2) \/ (at'[r] >= 8 /\ at[r] >= 7)
      BY <1>1, <2>3, <3>1
    <3> QED
      BY <1>1, <1>2, <1>4, <2>1, <3>1, <3>2 DEF Tidies
  <2>4. ASSUME at[r] >= 7 PROVE Tidy'
    BY <1>1, <1>2, <1>4, <2>1, <2>4 DEF Tidies, Tidy
  <2> QED
    BY <1>7, <2>2, <2>3, <2>4 DEF Elsewhere
<1> QED
  BY <1>5, <1>6, <1>7, SetupOnHosts

---------------------------------------------------------------------------
(* HostsInv is inductive.                                                  *)

LEMMA HostsInit == RaceInit => HostsInv
BY DEF RaceInit, HostsInv, Copies, Once, Twice, Inserts, RunAlone

\* The chain stays, no runner is newly about to insert, and the routing
\* scripts go on undisturbed or are at rest.
LEMMA HostsQuiet ==
  ASSUME HostsInv, chain' = chain, during' = during,
         \A q \in Runners :
           \/ job'[q] = job[q] /\ at'[q] = at[q] /\ found'[q] = found[q]
           \/ job[q] \notin RoutingJobs /\ job'[q] \notin RoutingJobs
  PROVE  HostsInv'
<1>1. \A q \in Runners, rule \in HostRules : Inserts(q, rule)' => Inserts(q, rule)
  BY DEF Inserts, InsertAt, RoutingJobs
<1>2. /\ \A x \in HostRules : /\ Present(x)' <=> Present(x)
                              /\ Once(x)' <=> Once(x)
                              /\ Twice(x)' <=> Twice(x)
      /\ Rejected("private")' <=> Rejected("private")
      /\ "reject" \in HostRules /\ "accept" \in HostRules
  BY DEF Present, Once, Twice, Rejected, HostRules
<1>3. \A rule \in HostRules : Copies(rule)'
  BY <1>1, <1>2, CopiesKept DEF HostsInv
<1>4. ASSUME RunAlone PROVE /\ OneScript' /\ (AtRest' => Tidy')
                            /\ \A q \in Runners : job'[q] \in RoutingJobs => Tidies(q)'
  <2>1. \A q \in Runners : job'[q] \in RoutingJobs =>
          job[q] \in RoutingJobs /\ job'[q] = job[q] /\ at'[q] = at[q] /\ found'[q] = found[q]
    OBVIOUS
  <2>2. OneScript'
    BY <1>4, <2>1 DEF HostsInv, OneScript
  <2>3. AtRest' => AtRest
    BY DEF AtRest
  <2>4. AtRest' => Tidy'
    BY <1>2, <1>4, <2>3 DEF HostsInv, Tidy
  <2>5. ASSUME NEW q \in Runners, job'[q] \in RoutingJobs PROVE Tidies(q)'
    <3>1. Tidies(q) /\ at'[q] = at[q]
      BY <1>4, <2>1, <2>5 DEF HostsInv
    <3>2. \A rule \in HostRules : Inserts(q, rule)' => ~Present(rule)'
      BY <1>1, <1>2, <3>1 DEF Tidies
    <3> QED
      BY <1>2, <3>1, <3>2 DEF Tidies
  <2> QED
    BY <2>2, <2>4, <2>5
<1> QED
  BY <1>3, <1>4 DEF HostsInv, RunAlone

\* A routing script begins.
LEMMA HostsBegin ==
  ASSUME InPlace, HostsInv, NEW r \in Runners, NEW name, NEW first \in {1, 2},
         Begin(r, name, first), chain' = chain,
         RunAlone' => name = "setup" /\ AtRest,
         during' = "again" => during \in {"setup", "again"}
  PROVE  HostsInv'
<1>1. /\ job[r] = "none" /\ found[r] = "unasked" /\ found' = found
      /\ at'[r] = first /\ job'[r] = name
      /\ \A q \in Runners \ {r} : job'[q] = job[q] /\ at'[q] = at[q]
  BY DEF Begin, InPlace, RaceTypeOK
<1>2. \A q \in Runners, rule \in HostRules : Inserts(q, rule)' => Inserts(q, rule)
  <2>1. \A rule \in HostRules : ~Inserts(r, rule)'
    BY <1>1 DEF Inserts
  <2> QED
    BY <1>1, <2>1 DEF Inserts, InsertAt
<1>3. /\ \A x \in HostRules : /\ Present(x)' <=> Present(x)
                              /\ Once(x)' <=> Once(x)
                              /\ Twice(x)' <=> Twice(x)
      /\ "reject" \in HostRules /\ "accept" \in HostRules
  BY DEF Present, Once, Twice, HostRules
<1>4. \A rule \in HostRules : Copies(rule)'
  BY <1>2, <1>3, CopiesKept DEF HostsInv
<1>5. ASSUME RunAlone' PROVE /\ OneScript' /\ ~AtRest'
                             /\ \A q \in Runners : job'[q] \in RoutingJobs => Tidies(q)'
  <2>1. \A q \in Runners : job'[q] \in RoutingJobs => q = r
    BY <1>1, <1>5 DEF AtRest
  <2>2. ~AtRest'
    BY <1>1, <1>5 DEF AtRest, RoutingJobs
  <2>3. \A rule \in HostRules : ~Inserts(r, rule)'
    BY <1>1 DEF Inserts
  <2>4. during' = "again" => Once("reject")' /\ Once("accept")'
    BY <1>3, <1>5 DEF HostsInv, Tidy, RunAlone
  <2>5. Tidies(r)'
    BY <1>1, <2>3, <2>4 DEF Tidies
  <2> QED
    BY <2>1, <2>2, <2>5 DEF OneScript
<1> QED
  BY <1>4, <1>5 DEF HostsInv

LEMMA HostsStep ==
  ASSUME AtMostTwoRun, RaceInv, HostsInv, NEW r \in Runners, Step(r)
  PROVE  HostsInv'
<1>1. InPlace /\ KernelOK /\ job[r] # "none" /\ during' = during
  BY InPlaceParts, StepRuns DEF RaceInv, Step
<1>2. Moves(r)
  BY <1>1, ActionsInPlace
<1>3. /\ job'[r] \in {job[r], "none"}
      /\ \A q \in Runners \ {r} : job'[q] = job[q] /\ at'[q] = at[q] /\ found'[q] = found[q]
  <2>1. CASE GoOn(r) \/ Die(r)
    BY <1>1, <2>1, OneRunner
  <2>2. CASE /\ \E answer \in {"unasked", "yes", "no"} : found' = [found EXCEPT ![r] = answer]
             /\ UNCHANGED <<job, at>>
    BY <1>1, <2>2 DEF InPlace, RaceTypeOK
  <2> QED
    BY <1>2, <2>1, <2>2 DEF Moves
<1>4. \A rule \in HostRules : Copies(rule)'
  BY <1>1, CopiesStep DEF HostsInv
<1>5. CASE ~RunAlone
  BY <1>1, <1>4, <1>5 DEF HostsInv, RunAlone
<1>6. CASE RunAlone
  <2>1. Undisturbed
    BY <1>6 DEF RaceInv, OnlySetups, RunAlone
  <2>2. job[r] = "setup" \/ job[r] \in HostJobs
    BY <1>1, <2>1 DEF Undisturbed, InPlace, RaceTypeOK, RoutingJobs
  <2>3. CASE job[r] \in HostJobs
    <3>1. job[r] \notin RoutingJobs /\ job'[r] \notin RoutingJobs
      BY <1>3, <2>3 DEF HostJobs, RoutingJobs
    <3>2. chain' = chain
      <4>1. ~Insert(r)
        BY <1>1, <2>3, InsertCases DEF HostJobs
      <4>2. \A rule \in DOMAIN SetOf : ~Does(r, "drop", rule)
        BY <1>1, <2>3, RequestDoes
      <4> QED
        BY <1>1, <4>1, <4>2, OthersInsertNothing
    <3> QED
      BY <1>1, <1>3, <3>1, <3>2, HostsQuiet
  <2>4. CASE job[r] = "setup"
    <3>1. Behind(r) /\ Tidies(r) /\ \A rule \in HostRules : Copies(rule)
      BY <1>6, <2>1, <2>4 DEF Undisturbed, HostsInv, RoutingJobs
    <3>2. /\ job'[r] = "setup" => Tidies(r)'
          /\ job'[r] # "setup" => Tidy'
      BY <1>1, <1>6, <2>4, <3>1, TidiesStep
    <3>3. \A q \in Runners \ {r} : job'[q] \notin RoutingJobs
      BY <1>3, <1>6, <2>4 DEF HostsInv, OneScript, RoutingJobs
    <3>4. OneScript' /\ \A q \in Runners : job'[q] \in RoutingJobs => Tidies(q)'
      BY <1>3, <2>4, <3>2, <3>3 DEF OneScript, RoutingJobs
    <3>5. AtRest' => Tidy'
      BY <1>3, <3>2 DEF AtRest, RoutingJobs
    <3> QED
      BY <1>4, <3>4, <3>5 DEF HostsInv
  <2> QED
    BY <2>2, <2>3, <2>4
<1> QED
  BY <1>5, <1>6

LEMMA HostsNext ==
  ASSUME AtMostTwoRun, RaceInv, HostsInv, [RaceNext]_raceVars PROVE HostsInv'
<1>1. InPlace
  BY DEF RaceInv
<1>2. ASSUME NEW kind, Noted(kind)
      PROVE  /\ RunAlone' => kind # "other" /\ AtRest
             /\ during' = "again" => during \in {"setup", "again"}
  BY <1>2 DEF Noted, RunAlone
<1>3. ASSUME NEW r \in Runners, StartScript(r) PROVE HostsInv'
  <2>1. chain' = chain
    BY <1>3 DEF StartScript, ruleVars
  <2>2. CASE \E first \in {1, 2} : Begin(r, "setup", first) /\ Noted("setup")
    BY <1>1, <1>2, <2>1, <2>2, HostsBegin
  <2>3. CASE Begin(r, "teardown", 1) /\ Noted("other")
    BY <1>1, <1>2, <2>1, <2>3, HostsBegin
  <2> QED
    BY <1>3, <2>2, <2>3 DEF StartScript
<1>4. ASSUME NEW r \in Runners, StartRequest(r) PROVE HostsInv'
  <2>1. chain' = chain /\ during' = during
    BY <1>4 DEF StartRequest, ruleVars
  <2>2. PICK name \in HostJobs : Begin(r, name, 1)
    BY <1>4 DEF StartRequest
  <2>3. /\ job[r] \notin RoutingJobs /\ job'[r] \notin RoutingJobs
        /\ \A q \in Runners \ {r} :
             job'[q] = job[q] /\ at'[q] = at[q] /\ found'[q] = found[q]
    BY <1>1, <2>2 DEF Begin, InPlace, RaceTypeOK, HostJobs, RoutingJobs
  <2> QED
    BY <2>1, <2>3, HostsQuiet
<1>5. ASSUME NEW r \in Runners, TunnelUp(r) PROVE HostsInv'
  <2>1. chain' = chain /\ Begin(r, "setup", 1)
    BY <1>5 DEF TunnelUp, ruleVars
  <2>2. PICK kind : Noted(kind)
    BY <1>5 DEF TunnelUp
  <2> QED
    BY <1>1, <1>2, <2>1, <2>2, HostsBegin
<1>6. ASSUME NEW r \in Runners, TunnelDown(r) PROVE HostsInv'
  <2>1. chain' = chain /\ during' = "other"
    BY <1>6 DEF TunnelDown, Noted, ruleVars
  <2>2. CASE Begin(r, "down", 1)
    BY <1>1, <2>1, <2>2, HostsBegin DEF RunAlone
  <2>3. CASE UNCHANGED runnerVars
    <3>1. \A rule \in HostRules : Copies(rule)'
      BY <2>1, <2>3 DEF HostsInv, Copies, Once, Twice, Inserts, InsertAt, Present, runnerVars,
         HostRules
    <3> QED
      BY <2>1, <3>1 DEF HostsInv, RunAlone
  <2> QED
    BY <1>6, <2>2, <2>3 DEF TunnelDown
<1>7. ASSUME NEW r \in Runners, Kill(r) PROVE HostsInv'
  <2>1. /\ chain' = chain /\ job'[r] = "none"
        /\ \A q \in Runners \ {r} :
             job'[q] = job[q] /\ at'[q] = at[q] /\ found'[q] = found[q]
    BY <1>1, <1>7 DEF Kill, Die, InPlace, RaceTypeOK, ruleVars
  <2>2. CASE job[r] \notin RoutingJobs
    <3>1. during' = during /\ job'[r] \notin RoutingJobs
      BY <1>7, <2>1, <2>2 DEF Kill, RoutingJobs
    <3> QED
      BY <2>1, <2>2, <3>1, HostsQuiet
  <2>3. CASE job[r] \in RoutingJobs
    <3>1. during' = "other"
      BY <1>7, <2>3 DEF Kill
    <3>2. \A q \in Runners, rule \in HostRules : Inserts(q, rule)' => Inserts(q, rule)
      BY <2>1 DEF Inserts, InsertAt
    <3>3. \A x \in HostRules : /\ Present(x)' <=> Present(x)
                               /\ Once(x)' <=> Once(x)
                               /\ Twice(x)' <=> Twice(x)
      BY <2>1 DEF Present, Once, Twice, HostRules
    <3>4. \A rule \in HostRules : Copies(rule)'
      BY <3>2, <3>3, CopiesKept DEF HostsInv
    <3> QED
      BY <3>1, <3>4 DEF HostsInv, RunAlone
  <2> QED
    BY <2>2, <2>3
<1>8. CASE UNCHANGED raceVars
  <2>1. /\ chain' = chain /\ during' = during
        /\ \A q \in Runners : job'[q] = job[q] /\ at'[q] = at[q] /\ found'[q] = found[q]
    BY <1>8 DEF raceVars, runnerVars, ruleVars
  <2> QED
    BY <2>1, HostsQuiet
<1> QED
  BY <1>3, <1>4, <1>5, <1>6, <1>7, <1>8, HostsStep DEF RaceNext

\* With at most two scripts in flight at once, two runs that nothing overlaps
\* put the rules for blocked hosts in order, whatever overlapping setups,
\* teardowns, killed scripts and requests have left.  Three overlapping runs
\* can leave three copies, which two runs do not undo.
THEOREM HostsGetRestricted == AtMostTwoRun => (RaceSpec => []HostsRestricted)
<1> SUFFICES ASSUME AtMostTwoRun PROVE RaceSpec => []HostsRestricted
  OBVIOUS
<1>1. HostsInv => HostsRestricted
  BY DEF HostsInv, HostsRestricted, Tidy, RunAlone
<1>2. RaceInv /\ HostsInv /\ [RaceNext]_raceVars => HostsInv'
  BY HostsNext
<1> QED
  BY <1>1, <1>2, RaceInit_Inv, RaceNext_Inv, HostsInit, PTL DEF RaceSpec
=============================================================================
