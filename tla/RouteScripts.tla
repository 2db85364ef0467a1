--------------------------- MODULE RouteScripts ---------------------------
(***************************************************************************)
(* What the routing scripts do to the kernel, each run from its beginning  *)
(* to its end: vpngw-setup-routing.sh, vpngw-fix-routes.sh,                *)
(* vpngw-teardown-routing.sh and the PostDown hook, over the tables that   *)
(* decide where a packet of a LAN client goes.  Runs that overlap, and the *)
(* rules for blocked hosts, are in RouteRaces.                             *)
(***************************************************************************)
EXTENDS Naturals

CONSTANTS
  Endpoints,  \* which of the routing endpoints are called: see Calls
  AnyKernel   \* TRUE: the tables start in any state at all

Tunnels == {"amn0", "xray0"}
Modes == {"split", "all-vpn", "all-direct"}
Choices == {"amnezia", "xray", "none"}
Calls == {"setup", "teardown", "fix"}

ASSUME EndpointAssumption == Endpoints \subseteq Calls
ASSUME AnyKernelAssumption == AnyKernel \in BOOLEAN

\* Rules that are only ever added once and removed once, by name: NAT and
\* FORWARD per device, the RETURN rules for private networks, MSS clamping on
\* AmneziaWG and the DNS redirect.
RuleNames ==
  {"nat lan", "nat private", "nat amn0", "fwd lan", "fwd amn0", "fwd xray0",
   "mss amn0", "dns redirect"}
LanRules == {"nat lan", "nat private", "fwd lan"}

VARIABLES
  mode,   \* config/mode
  sel,    \* config/external-tunnel
  links,  \* tunnel interfaces that exist
  k,      \* the kernel's tables
  trust   \* history: "unknown" tables, "installed" or "torn" down

vars == <<mode, sel, links, k, trust>>

\* marks counts the mangle rule, which a race can duplicate.
KernelWith(ruleSets) ==
  [default  : Tunnels \cup {"lan", "none"},  \* default route, main table
   table    : Tunnels \cup {"none"},         \* default route, table 100
   dns      : Tunnels \cup {"none"},         \* routes of the DNS upstreams
   rule     : BOOLEAN,                       \* fwmark -> table 100
   marks    : 0..2,
   ipset    : BOOLEAN,                       \* set vpn_domains exists
   attached : BOOLEAN,                       \* dnsmasq fills this very set
   rules    : ruleSets]
Kernel == KernelWith(SUBSET RuleNames)

TypeOK ==
  /\ mode \in Modes /\ sel \in Choices /\ links \subseteq Tunnels
  /\ k \in Kernel
  /\ trust \in {"unknown", "installed", "torn"}

\* The interface of the chosen tunnel, "none" if no tunnel is chosen.
DeviceOf(s) == CASE s = "amnezia" -> "amn0" [] s = "xray" -> "xray0" [] s = "none" -> "none"

---------------------------------------------------------------------------
(* Single commands, on tables t.                                           *)

EnsureLan(t) == [t EXCEPT !.default = "lan"]

\* What a deleted interface takes with it.
Without(t, d) ==
  [t EXCEPT !.default = IF @ = d THEN "none" ELSE @,
            !.table   = IF @ = d THEN "none" ELSE @,
            !.dns     = IF @ = d THEN "none" ELSE @]

\* ipt_del removes one copy of a rule.
OneLess(n) == IF n = 0 THEN 0 ELSE n - 1

MakeSet(t) == IF t.ipset THEN t ELSE [t EXCEPT !.ipset = TRUE, !.attached = FALSE]
AddRule(t) == [t EXCEPT !.rule = TRUE]

\* Table 100 points at the tunnel, or is flushed if there is none.
PointTable(t, d, ls) == [t EXCEPT !.table = IF d \in ls THEN d ELSE "none"]

Unmark(t) == [t EXCEPT !.marks = OneLess(@)]
Mark(t) == [t EXCEPT !.marks = IF @ = 0 THEN 1 ELSE @]

ForwardRules(d) ==
  CASE d = "amn0" -> {"fwd amn0", "nat amn0"} [] d = "xray0" -> {"fwd xray0"} [] OTHER -> {}

AddRules(t, rs) == [t EXCEPT !.rules = @ \cup rs]

\* dnsmasq looks the set up by name when it starts.
RestartDnsmasq(t) == [t EXCEPT !.attached = TRUE]

---------------------------------------------------------------------------
(* The scripts.  m is the mode, d the chosen interface, ls the interfaces. *)

SplitRules(d) ==
  LanRules \cup {"dns redirect"} \cup ForwardRules(d)
    \cup (IF d = "amn0" THEN {"mss amn0"} ELSE {})

\* Mutant: only AmneziaWG gets its FORWARD rules.
SetupSplitAmneziaOnly(t, d, ls) ==
  LET a == Unmark(PointTable(AddRule(MakeSet(t)), d, ls))
      b == IF d \in ls THEN Mark(a) ELSE a
  IN  RestartDnsmasq(AddRules(b, SplitRules(IF d \in ls \ {"xray0"} THEN d ELSE "none")))

SetupSplit(t, d, ls) ==
  LET a == Unmark(PointTable(AddRule(MakeSet(t)), d, ls))
      b == IF d \in ls THEN Mark(a) ELSE a
  IN  RestartDnsmasq(AddRules(b, SplitRules(IF d \in ls THEN d ELSE "none")))

SetupAllVpn(t, d, ls) ==
  IF d = "none"
    THEN EnsureLan([t EXCEPT !.table = "none"])
    ELSE [AddRules(t, ForwardRules(d)) EXCEPT !.default = IF d \in ls THEN d ELSE "lan"]

SetupAllDirect(t) == EnsureLan(AddRules(t, LanRules))

Setup(t, m, d, ls) ==
  CASE m = "split"      -> SetupSplit(t, d, ls)
    [] m = "all-vpn"    -> SetupAllVpn(t, d, ls)
    [] m = "all-direct" -> SetupAllDirect(t)

\* fix-routes without the setup-routing it ends with.
FixRoutes(t, m, d) ==
  CASE m = "split"      -> [t EXCEPT !.default = "lan", !.table = d, !.dns = d]
    [] m = "all-vpn"    -> [t EXCEPT !.default = d]
    [] m = "all-direct" -> [t EXCEPT !.default = "lan", !.dns = IF @ = d THEN "none" ELSE @]

Fix(t, m, d, ls) ==
  Setup(IF d \in ls THEN FixRoutes(t, m, d) ELSE t, m, d, ls)

\* `ipset destroy` fails, and ends the script, while a mark rule names the set.
Teardown(t) ==
  [t EXCEPT !.default = "lan", !.table = "none", !.dns = "none",
            !.rule = FALSE, !.marks = OneLess(@),
            !.ipset = t.ipset /\ OneLess(t.marks) > 0,
            !.rules = @ \cap {"nat private"}]

\* Mutant: the hook does not ask which tunnel is chosen.
OnVpnDownAlways(t, s) == EnsureLan([t EXCEPT !.table = "none"])

\* PostDown of AmneziaWG, after the interface is gone.
OnVpnDown(t, s) ==
  IF s = "xray" THEN t ELSE EnsureLan([t EXCEPT !.table = "none"])

---------------------------------------------------------------------------
(* Who runs them.                                                          *)

Dev == DeviceOf(sel)

\* A run of setup makes an installation out of torn-down tables.
Reinstall == trust' = IF trust = "torn" THEN "installed" ELSE trust

\* Mutant: the mode change trusts setup alone.
SetModeSetupOnly(m) ==
  /\ mode' = m
  /\ k' = Setup(Teardown(k), m, Dev, links)
  /\ trust' = "installed"
  /\ UNCHANGED <<sel, links>>

\* POST /routing/mode: teardown, setup, and fix-routes if the tunnel is up.
SetMode(m) ==
  /\ mode' = m
  /\ LET s == Setup(Teardown(k), m, Dev, links)
     IN  k' = IF Dev \in links THEN Fix(s, m, Dev, links) ELSE s
  /\ trust' = "installed"
  /\ UNCHANGED <<sel, links>>

Call(endpoint) ==
  /\ endpoint \in Endpoints
  /\ CASE endpoint = "setup"    -> k' = Setup(k, mode, Dev, links) /\ Reinstall
       [] endpoint = "fix"      -> k' = Fix(k, mode, Dev, links) /\ Reinstall
       [] endpoint = "teardown" -> /\ k' = Teardown(k)
                                   /\ trust' = IF trust = "installed" THEN "torn" ELSE trust
  /\ UNCHANGED <<mode, sel, links>>

\* systemctl restart vpngw-routing: the watcher, which requires it, restarts
\* too and fixes the routes of whatever interface exists.
RestartService ==
  /\ LET s == Setup(Teardown(k), mode, Dev, links)
     IN  k' = IF links = {} THEN s ELSE Fix(s, mode, Dev, links)
  /\ Reinstall
  /\ UNCHANGED <<mode, sel, links>>

\* awg-quick up and the XRay launcher run fix-routes.
LinkUp(d) ==
  /\ d \notin links
  /\ links' = links \cup {d}
  /\ k' = Fix(k, mode, Dev, links')
  /\ Reinstall
  /\ UNCHANGED <<mode, sel>>

VpnDown ==
  /\ "amn0" \in links
  /\ links' = links \ {"amn0"}
  /\ k' = OnVpnDown(Without(k, "amn0"), sel)
  /\ UNCHANGED <<mode, sel, trust>>

\* Nothing runs when XRay's interface goes.
XrayDown ==
  /\ "xray0" \in links
  /\ links' = links \ {"xray0"}
  /\ k' = Without(k, "xray0")
  /\ UNCHANGED <<mode, sel, trust>>

\* The selector: the goal comes up (XRay is restarted if it is up), is
\* recorded, the other tunnel goes down and the routes are fixed.  A selection
\* whose goal does not come up changes nothing.
Select(s) ==
  LET d   == DeviceOf(s)
      up  == IF d \in Tunnels \ links \/ d = "xray0"
               THEN Fix(Without(k, d), mode, Dev, links \cup {d}) ELSE k
      off == IF s = "xray" THEN Without(up, "amn0")
             ELSE LET x == Without(up, "xray0")
                  IN  IF s = "none" /\ "amn0" \in links
                        THEN OnVpnDown(Without(x, "amn0"), s) ELSE x
  IN  /\ sel' = s
      /\ links' = {d} \cap Tunnels
      /\ k' = Fix(off, mode, d, links')
      /\ Reinstall
      /\ UNCHANGED mode

Watch ==
  /\ links # {}
  /\ k' = Fix(k, mode, Dev, links)
  /\ Reinstall
  /\ UNCHANGED <<mode, sel, links>>

\* The tables of a host that has just booted.
Clean == [default |-> "lan", table |-> "none", dns |-> "none", rule |-> FALSE, marks |-> 0,
          ipset |-> FALSE, attached |-> FALSE, rules |-> {}]

\* A mark rule needs its set, a route its interface.
Possible(t) ==
  /\ t.marks > 0 => t.ipset
  /\ {t.default, t.table, t.dns} \subseteq links \cup {"lan", "none"}

Init ==
  /\ mode \in Modes /\ sel \in Choices /\ links \in SUBSET Tunnels
  /\ IF AnyKernel
       THEN k \in KernelWith({{}, RuleNames}) /\ Possible(k) /\ trust = "unknown"
       ELSE links = {} /\ k = Setup(Clean, mode, Dev, {}) /\ trust = "installed"

Next ==
  \/ \E m \in Modes : SetMode(m)
  \/ \E endpoint \in Calls : Call(endpoint)
  \/ RestartService
  \/ \E d \in Tunnels : LinkUp(d)
  \/ VpnDown
  \/ XrayDown
  \/ \E s \in Choices : Select(s)
  \/ Watch

Spec == Init /\ [][Next]_vars

---------------------------------------------------------------------------
(* Where packets go.                                                       *)

OtherPath(t) == t.default
ListedPath(t) ==
  IF t.marks > 0 /\ t.rule /\ t.ipset /\ t.table # "none" THEN t.table ELSE t.default
DnsPath(t) == IF t.dns = "none" THEN t.default ELSE t.dns

\* After any script, traffic goes where mode and choice say: listed
\* destinations through the chosen tunnel if it is up, and otherwise past it;
\* everything through it in all-vpn mode; nothing through it in all-direct.
\* Only a lost XRay interface leaves all-vpn mode without a route.
RestTraffic ==
  trust = "installed" =>
    CASE mode = "split"      -> /\ OtherPath(k) = "lan"
                                /\ ListedPath(k) = IF Dev \in links THEN Dev ELSE "lan"
      [] mode = "all-vpn"    -> /\ Dev \in links => {OtherPath(k), ListedPath(k)} = {Dev}
                                /\ Dev \notin links => OtherPath(k) \in {"lan", "none"}
      [] mode = "all-direct" -> {OtherPath(k), ListedPath(k)} = {"lan"}

\* A path through a tunnel has the FORWARD and NAT rules that carry it, and
\* dnsmasq fills the set that the marks name.
PathsCarried ==
  trust = "installed" =>
    /\ ForwardRules(ListedPath(k)) \cup ForwardRules(OtherPath(k)) \subseteq k.rules
    /\ k.marks > 0 /\ k.rule => k.ipset /\ k.attached

\* The upstream resolvers are asked through the chosen tunnel (README:
\* "Upstream resolvers routed through the selected external tunnel").
DnsThroughTunnel ==
  trust = "installed" /\ mode # "all-direct" /\ Dev \in links => DnsPath(k) = Dev

\* Nothing but a setup after a teardown takes the resolvers off the tunnel.
DnsStays == [][trust # "torn" /\ DnsThroughTunnel => DnsThroughTunnel']_vars

\* "This script is idempotent": a second run, with nothing in between,
\* changes nothing, in any mode and for any choice.
Idempotent ==
  \A m \in Modes, d \in Tunnels \cup {"none"}, ls \in SUBSET Tunnels :
    k.marks < 2 =>
      /\ LET s == Setup(k, m, d, ls) IN Setup(s, m, d, ls) = s
      /\ LET f == Fix(k, m, d, ls) IN Fix(f, m, d, ls) = f
===========================================================================
