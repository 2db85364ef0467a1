----------------------------- MODULE AwgProbes -----------------------------
(***************************************************************************)
(* Pings and hard tests of AmneziaWG configs (api/routers/vpn.py).  The    *)
(* config in use is tested on the tunnel's own interface, any other one on *)
(* a temporary interface that runs beside it.  Each await lets another     *)
(* probe, a switch or a selection go on.                                   *)
(*                                                                         *)
(* The tunnel, its marker and the choice change here in any order; what    *)
(* orders the scripts really allow is in AwgConfigs and TunnelSelect.      *)
(***************************************************************************)
EXTENDS Naturals

CONSTANTS
  Probers,   \* requests in flight
  Configs,
  Live,      \* VPN_INTERFACE
  Orphan,    \* an interface left by an API that died
  Absent,
  MaxAsked, MaxEvents  \* bounds of a behaviour: requests, changes and deaths

Hosts == {"ping", "test"}  \* PING_DOC_IP and the address of HARD_TEST_HOST
Blank == "blank"           \* an interface without a config

ASSUME ProbersAssumption ==
  /\ {Live, Orphan, Absent} \cap (Probers \cup Configs \cup {Blank}) = {} /\ Blank \notin Configs
  /\ Live # Absent
ASSUME ProbeBounds == {MaxAsked, MaxEvents} \subseteq Nat

VARIABLES
  active,     \* .active
  installed,  \* /etc/amnezia/amneziawg/amn0.conf
  choice,     \* the external tunnel selected
  live,       \* the config VPN_INTERFACE carries, while it is up
  probe,      \* the probes, at the await they have come to
  temps,      \* temporary interfaces, each with the name of its probe
  confs,      \* their files under /run
  routes,     \* host routes: the interface each leads to
  asked, changes, deaths

tunnel == <<active, installed, choice, live>>
awgVars == <<tunnel, probe, temps, confs, routes, asked, changes, deaths>>

\* of: the config that a probe with a good result has measured.
\* stale (history): the tunnel changed since the probe looked at it, or was
\* not the chosen and marked one then.
Probes ==
  [at : {"idle", "unit", "link", "add", "configure", "resolve", "route", "measure", "unroute", "clean"},
   kind : {"ping", "hard", "both"}, part : Hosts, name : Configs \cup {Absent},
   iface : Probers \cup {Live, Absent}, of : Configs \cup {Absent}, stale : BOOLEAN]

Idle == [at |-> "idle", kind |-> "ping", part |-> "ping", name |-> Absent,
         iface |-> Absent, of |-> Absent, stale |-> FALSE]

AwgTypeOK ==
  /\ active \in Configs /\ installed \in Configs
  /\ choice \in {"amnezia", "other"}
  /\ live \in Configs \cup {Absent}
  /\ probe \in [Probers -> Probes]
  /\ temps \in [Probers -> Configs \cup {Blank, Absent}]
  /\ \A p \in Probers : (temps[p] # Absent \/ p \in confs) =>
       probe[p].at \notin {"idle", "unit", "link"} /\ probe[p].iface # Live
  /\ confs \in SUBSET Probers
  /\ routes \in [Hosts -> Probers \cup {Live, Orphan, Absent}]
  /\ asked \in 0..MaxAsked /\ changes \in 0..MaxEvents /\ deaths \in 0..MaxEvents

Carried(iface) == IF iface = Live THEN live ELSE temps[iface]

RoutesWithout(iface) == [h \in Hosts |-> IF routes[h] = iface THEN Absent ELSE routes[h]]

Goes(p, at) == probe' = [probe EXCEPT ![p].at = at]

AwgCounted == UNCHANGED <<asked, changes, deaths>>
Untouched == UNCHANGED <<tunnel, temps, confs, routes>> /\ AwgCounted

---------------------------------------------------------------------------
(* Which interface: _probe_interface_for_config, _setup_temp_interface.    *)

Settled == live # Absent => live = active /\ choice = "amnezia"

Looking(p, kind, part, name, at) ==
  probe' = [probe EXCEPT ![p] =
    [at |-> at, kind |-> kind, part |-> part, name |-> name,
     iface |-> Absent, of |-> Absent, stale |-> ~Settled]]

\* Mutant: whichever config is active.
LookAnyLive(p, kind, part, name) ==
  Looking(p, kind, part, name, IF choice = "amnezia" THEN "unit" ELSE "add")

\* Mutant: a probe has an interface of its own at any rate.
LookNever(p, kind, part, name) == Looking(p, kind, part, name, "add")

Look(p, kind, part, name) ==
  Looking(p, kind, part, name, IF name = active /\ choice = "amnezia" THEN "unit" ELSE "add")

AskProbe(p, kind, name) ==
  /\ probe[p] = Idle
  /\ asked < MaxAsked /\ asked' = asked + 1
  /\ Look(p, kind, IF kind = "hard" THEN "test" ELSE "ping", name)
  /\ UNCHANGED <<tunnel, temps, confs, routes, changes, deaths>>

AskUnit(p) ==
  /\ probe[p].at = "unit"
  /\ Goes(p, IF live = Absent THEN "add" ELSE "link")
  /\ Untouched

Ready(p) == IF probe[p].part = "test" THEN "resolve" ELSE "route"

AskLink(p) ==
  /\ probe[p].at = "link"
  /\ IF live = Absent THEN Goes(p, "add")
     ELSE probe' = [probe EXCEPT ![p].at = Ready(p), ![p].iface = Live]
  /\ Untouched

\* What a failed setup leaves to do: the exception names no interface.
GivesUp(p) == probe' = [probe EXCEPT ![p] = Idle]

AddLink(p, good) ==
  /\ probe[p].at = "add"
  /\ IF good
       THEN /\ temps' = [temps EXCEPT ![p] = Blank]
            /\ confs' = confs \cup {p}
            /\ Goes(p, "configure")
       ELSE GivesUp(p) /\ UNCHANGED <<temps, confs>>
  /\ UNCHANGED <<tunnel, routes>> /\ AwgCounted

Configure(p, good) ==
  /\ probe[p].at = "configure"
  /\ IF good
       THEN /\ temps' = [temps EXCEPT ![p] = probe[p].name]
            /\ probe' = [probe EXCEPT ![p].at = Ready(p), ![p].iface = p]
       ELSE GivesUp(p) /\ temps' = [temps EXCEPT ![p] = Absent]
  /\ confs' = IF good THEN confs ELSE confs \ {p}
  /\ UNCHANGED <<tunnel, routes>> /\ AwgCounted

---------------------------------------------------------------------------
(* The measurement, and the finally clauses after it.                      *)

\* Without an address of the test host there is no route to remove.
Resolve(p, good) ==
  /\ probe[p].at = "resolve"
  /\ Goes(p, IF good THEN "route" ELSE "clean")
  /\ Untouched

\* A second route to the host is refused, and nobody looks.
AddRoute(p) ==
  LET host == probe[p].part
      taken == routes[host] # Absent \/ Carried(probe[p].iface) = Absent
  IN  /\ probe[p].at = "route"
      /\ routes' = IF taken THEN routes ELSE [routes EXCEPT ![host] = probe[p].iface]
      /\ Goes(p, "measure")
      /\ UNCHANGED <<tunnel, temps, confs>> /\ AwgCounted

\* Handshake and bytes received, or a download.
Measure(p, good) ==
  /\ probe[p].at = "measure"
  /\ good => Carried(probe[p].iface) # Absent
  /\ probe' = [probe EXCEPT ![p].at = "unroute",
                            ![p].of = IF good THEN Carried(probe[p].iface) ELSE Absent]
  /\ Untouched

\* Mutant: the route is removed when all went well.
DelRouteOnSuccess(p) ==
  /\ probe[p].at = "unroute"
  /\ routes' = IF routes[probe[p].part] = probe[p].iface /\ probe[p].of # Absent
               THEN [routes EXCEPT ![probe[p].part] = Absent] ELSE routes
  /\ Goes(p, "clean")
  /\ UNCHANGED <<tunnel, temps, confs>> /\ AwgCounted

\* Only a route through the probe's own interface is removed.
DelRoute(p) ==
  /\ probe[p].at = "unroute"
  /\ routes' = IF routes[probe[p].part] = probe[p].iface
               THEN [routes EXCEPT ![probe[p].part] = Absent] ELSE routes
  /\ Goes(p, "clean")
  /\ UNCHANGED <<tunnel, temps, confs>> /\ AwgCounted

\* With its link go the routes through it.
Removed(p) ==
  /\ temps' = [temps EXCEPT ![p] = Absent]
  /\ confs' = confs \ {p}
  /\ routes' = RoutesWithout(p)

\* A hard test follows a ping that was answered.
Clean(p) ==
  /\ probe[p].at = "clean"
  /\ IF probe[p].iface = Live THEN UNCHANGED <<temps, confs, routes>> ELSE Removed(p)
  /\ IF probe[p].kind = "both" /\ probe[p].part = "ping" /\ probe[p].of # Absent
       THEN Look(p, "both", "test", probe[p].name)
       ELSE GivesUp(p)
  /\ UNCHANGED tunnel /\ AwgCounted

\* Nothing is cleaned up when the API dies: links and routes stay.
AwgApiDies ==
  /\ changes + deaths < MaxEvents /\ deaths' = deaths + 1
  /\ probe' = [p \in Probers |-> Idle]
  /\ temps' = [p \in Probers |-> Absent] /\ confs' = {}
  /\ routes' = [h \in Hosts |-> IF routes[h] \in Probers THEN Orphan ELSE routes[h]]
  /\ UNCHANGED <<tunnel, asked, changes>>

---------------------------------------------------------------------------
(* The tunnel meanwhile: switches, selections, restarts.                   *)

Change ==
  /\ changes + deaths < MaxEvents /\ changes' = changes + 1
  /\ probe' = [p \in Probers |-> IF probe[p] = Idle THEN Idle ELSE [probe[p] EXCEPT !.stale = TRUE]]
  /\ UNCHANGED <<temps, confs, asked, deaths>>

TunnelStops ==
  /\ live # Absent /\ live' = Absent
  /\ routes' = RoutesWithout(Live)
  /\ Change /\ UNCHANGED <<active, installed, choice>>

TunnelStarts ==
  /\ live = Absent /\ live' = installed
  /\ Change /\ UNCHANGED <<active, installed, choice, routes>>

ConfigInstalled(c) ==
  /\ installed' = c
  /\ Change /\ UNCHANGED <<active, choice, live, routes>>

ConfigMarked ==
  /\ active' = installed
  /\ Change /\ UNCHANGED <<installed, choice, live, routes>>

TunnelChosen(target) ==
  /\ choice' = target
  /\ Change /\ UNCHANGED <<active, installed, live, routes>>

---------------------------------------------------------------------------
AwgInit ==
  /\ active \in Configs /\ installed = active
  /\ choice \in {"amnezia", "other"}
  /\ live \in {Absent} \cup (IF choice = "amnezia" THEN {active} ELSE {})
  /\ probe = [p \in Probers |-> Idle]
  /\ temps = [p \in Probers |-> Absent] /\ confs = {}
  /\ routes = [h \in Hosts |-> Absent]
  /\ asked = 0 /\ changes = 0 /\ deaths = 0

ProbeStep(p) ==
  \/ AskUnit(p) \/ AskLink(p) \/ AddRoute(p) \/ DelRoute(p) \/ Clean(p)
  \/ \E good \in BOOLEAN :
       AddLink(p, good) \/ Configure(p, good) \/ Resolve(p, good) \/ Measure(p, good)

AwgNext ==
  \/ \E p \in Probers, c \in Configs, kind \in {"ping", "hard", "both"} : AskProbe(p, kind, c)
  \/ \E p \in Probers : ProbeStep(p)
  \/ AwgApiDies
  \/ TunnelStops \/ TunnelStarts \/ ConfigMarked
  \/ \E c \in Configs : ConfigInstalled(c)
  \/ \E target \in {"amnezia", "other"} : TunnelChosen(target)

---------------------------------------------------------------------------
(* Properties.                                                             *)

\* Whatever fails, probes leave no interface, no file with keys and no route
\* to a tested address behind, not even on the tunnel in use; only an API that
\* dies in the midst of one does.
NothingLeft ==
  deaths = 0 /\ (\A p \in Probers : probe[p] = Idle) =>
    confs = {} /\ (\A p \in Probers : temps[p] = Absent) /\ (\A h \in Hosts : routes[h] = Absent)

\* A good result is about the config asked for, though the interface of the
\* tunnel may carry another one by the time it is used: then the tunnel has
\* changed since the probe looked at it.
OwnConfig ==
  \A p \in Probers : probe[p].of # Absent => probe[p].of = probe[p].name \/ probe[p].stale

\* No temporary interface takes a session of the provider away from the tunnel
\* in use by showing up with the same keys, unless the tunnel has changed.
NoTwin ==
  \A p \in Probers : temps[p] \in Configs /\ temps[p] = live => probe[p].stale
=============================================================================
