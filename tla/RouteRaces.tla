----------------------------- MODULE RouteRaces -----------------------------
(***************************************************************************)
(* Routing scripts that overlap, command by command, in split mode.  The   *)
(* lock of the API (services/script_runner.py) covers only the scripts     *)
(* that it starts as such; the hooks of awg-quick, the XRay launcher, the  *)
(* selector, the watcher and systemd run the same scripts beside it.  Host *)
(* access (services/hosts.py) works on a set that these scripts create,    *)
(* refer to and destroy.                                                   *)
(*                                                                         *)
(* A command is atomic, as nftables makes it; what a script has asked of   *)
(* the kernel may be out of date when it acts.  The rules that are only    *)
(* appended once are left to RouteScripts, and rules that always stand     *)
(* together (the three private networks, two chains of the mark) are one.  *)
(***************************************************************************)
EXTENDS Naturals, Sequences

CONSTANTS
  Runners,  \* scripts and requests that may be in flight at once
  Hosts     \* LAN hosts

VARIABLES
  job,     \* what each runner runs
  at,      \* its next step
  found,   \* what the step has found out: "unasked", "yes" or "no"
  ready,   \* ROUTE_TABLE_READY of each setup
  chain,   \* the host rules of FORWARD, the first one first
  marks,   \* copies of the mangle rule that marks listed traffic
  sets,    \* ipsets that exist
  hosts,   \* members of the set of blocked hosts
  fwrule,  \* ip rule fwmark -> table 100
  table,   \* default route of table 100
  fills,   \* dnsmasq fills the set "domains" that exists now
  linked,  \* the interface of the chosen tunnel exists
  during   \* history: what has run since the routing scripts last were at rest

runnerVars == <<job, at, found, ready>>
ruleVars == <<chain, marks>>
setVars == <<sets, hosts, fills>>
routeVars == <<fwrule, table>>
raceVars == <<runnerVars, ruleVars, setVars, routeVars, linked, during>>

---------------------------------------------------------------------------
(* The scripts.                                                            *)

\* Mutant: the rule for blocked hosts goes in before the old ones go out.
SetupStepsInsertFirst ==
  << <<"route", "aim">>,
     <<"make", "blocked">>,
     <<"insert", "reject">>, <<"insert", "accept">>,
     <<"drop", "reject">>, <<"drop", "accept">>,
     <<"create", "domains">>, <<"rule", "add">>, <<"route", "point">>,
     <<"drop", "mark">>, <<"append", "mark">>, <<"restart", "dnsmasq">> >>

\* Mutant: the rules are inserted in the order in which they are to stand.
SetupStepsInOrder ==
  << <<"route", "aim">>,
     <<"make", "blocked">>,
     <<"drop", "reject">>, <<"drop", "accept">>,
     <<"insert", "accept">>, <<"insert", "reject">>,
     <<"create", "domains">>, <<"rule", "add">>, <<"route", "point">>,
     <<"drop", "mark">>, <<"append", "mark">>, <<"restart", "dnsmasq">> >>

\* fix-routes, which ends with setup-routing; setup-routing begins at step 2.
SetupSteps ==
  << <<"route", "aim">>,
     <<"make", "blocked">>,
     <<"drop", "reject">>, <<"drop", "accept">>,
     <<"insert", "reject">>, <<"insert", "accept">>,
     <<"create", "domains">>, <<"rule", "add">>, <<"route", "point">>,
     <<"drop", "mark">>, <<"append", "mark">>, <<"restart", "dnsmasq">> >>

TeardownSteps ==
  << <<"drop", "accept">>, <<"drop", "reject">>, <<"drop", "mark">>,
     <<"route", "flush">>, <<"rule", "del">>,
     <<"destroy", "domains">>, <<"destroy", "blocked">> >>

\* A request about a host lists the hosts afterwards.
HostSteps(what) ==
  << <<"make", "blocked">>, <<"host", what>>, <<"make", "blocked">> >>

Steps ==
  [setup    |-> SetupSteps,
   teardown |-> TeardownSteps,
   down     |-> << <<"route", "flush">> >>,
   block    |-> HostSteps("block"),
   allow    |-> HostSteps("allow"),
   list     |-> << <<"make", "blocked">> >>,
   start    |-> << <<"make", "blocked">>, <<"host", "reset">> >>]

RoutingJobs == {"setup", "teardown", "down"}
HostJobs == {"block", "allow", "list", "start"}
HostRules == {"accept", "reject"}
RaceSets == {"blocked", "domains"}

\* The set that a rule refers to.
SetOf == [accept |-> "blocked", reject |-> "blocked", mark |-> "domains"]

RaceTypeOK ==
  /\ job \in [Runners -> RoutingJobs \cup HostJobs \cup {"none"}]
  /\ at \in [Runners -> 1..12]
  /\ found \in [Runners -> {"unasked", "yes", "no"}]
  /\ ready \in [Runners -> BOOLEAN]
  /\ chain \in Seq(HostRules) /\ marks \in Nat
  /\ sets \subseteq RaceSets /\ hosts \subseteq Hosts /\ fills \in BOOLEAN
  /\ fwrule \in BOOLEAN /\ table \in {"tunnel", "none"} /\ linked \in BOOLEAN
  /\ during \in {"nothing", "setup", "again", "setups", "other"}

---------------------------------------------------------------------------
(* Steps of a runner.                                                      *)

Present(rule) == IF rule = "mark" THEN marks > 0 ELSE \E i \in DOMAIN chain : chain[i] = rule
Refers(set) == \E rule \in DOMAIN SetOf : SetOf[rule] = set /\ Present(rule)

Does(r, op, arg) == job[r] # "none" /\ Steps[job[r]][at[r]] = <<op, arg>>

GoOn(r) ==
  /\ IF at[r] = Len(Steps[job[r]])
       THEN job' = [job EXCEPT ![r] = "none"] /\ at' = [at EXCEPT ![r] = 1]
       ELSE at' = [at EXCEPT ![r] = @ + 1] /\ UNCHANGED job
  /\ found' = [found EXCEPT ![r] = "unasked"]

\* A command has failed under set -e, or the script is killed.
Die(r) ==
  /\ job' = [job EXCEPT ![r] = "none"]
  /\ at' = [at EXCEPT ![r] = 1]
  /\ found' = [found EXCEPT ![r] = "unasked"]
  /\ UNCHANGED ready

\* A condition of the kernel, and whether the script has something to do then.
Ask(r, holds, acts) ==
  /\ found[r] = "unasked"
  /\ IF acts
       THEN /\ found' = [found EXCEPT ![r] = IF holds THEN "yes" ELSE "no"]
            /\ UNCHANGED <<job, at>>
       ELSE GoOn(r)
  /\ UNCHANGED <<ready, ruleVars, setVars, routeVars>>

\* ipset create -exist
Make(r) ==
  \E set \in RaceSets :
    /\ Does(r, "make", set)
    /\ sets' = sets \cup {set}
    /\ GoOn(r)
    /\ UNCHANGED <<ready, ruleVars, hosts, fills, routeVars>>

\* iptables -D takes the first copy.
Delete(rule) ==
  \/ /\ rule = "mark"
     /\ marks' = (IF marks = 0 THEN 0 ELSE marks - 1)
     /\ UNCHANGED chain
  \/ /\ rule # "mark"
     /\ IF Present(rule)
          THEN \E i \in DOMAIN chain :
                 /\ chain[i] = rule /\ \A j \in 1..(i - 1) : chain[j] # rule
                 /\ chain' = SubSeq(chain, 1, i - 1) \o SubSeq(chain, i + 1, Len(chain))
          ELSE UNCHANGED chain
     /\ UNCHANGED marks

\* ipt_del.  The rule may be gone by now; the script goes on.
Drop(r) ==
  \E rule \in DOMAIN SetOf :
    /\ Does(r, "drop", rule)
    /\ \/ Ask(r, Present(rule), Present(rule))
       \/ /\ found[r] = "yes"
          /\ Delete(rule)
          /\ GoOn(r)
          /\ UNCHANGED <<ready, setVars, routeVars>>

\* ipt_insert.  The command fails without the set; the script goes on.
Insert(r) ==
  \E rule \in HostRules :
    /\ Does(r, "insert", rule)
    /\ \/ Ask(r, Present(rule), ~Present(rule))
       \/ /\ found[r] = "no"
          /\ chain' = IF SetOf[rule] \in sets THEN <<rule>> \o chain ELSE chain
          /\ GoOn(r)
          /\ UNCHANGED <<ready, marks, setVars, routeVars>>

\* ipt_add, if the route table is ready.
AppendMark(r) ==
  /\ Does(r, "append", "mark")
  /\ \/ Ask(r, Present("mark"), ready[r] /\ ~Present("mark"))
     \/ /\ found[r] = "no"
        /\ marks' = IF "domains" \in sets THEN marks + 1 ELSE marks
        /\ GoOn(r)
        /\ UNCHANGED <<ready, chain, setVars, routeVars>>

\* ipset create without -exist.
CreateDomains(r) ==
  /\ Does(r, "create", "domains")
  /\ \/ Ask(r, "domains" \in sets, "domains" \notin sets)
     \/ /\ found[r] = "no"
        /\ IF "domains" \in sets
             THEN Die(r) /\ UNCHANGED sets
             ELSE sets' = sets \cup {"domains"} /\ GoOn(r) /\ UNCHANGED ready
        /\ UNCHANGED <<ruleVars, hosts, fills, routeVars>>

\* ip rule refuses to add a rule twice and to delete one that is not there.
AddFwRule(r) ==
  /\ Does(r, "rule", "add")
  /\ \/ Ask(r, fwrule, ~fwrule)
     \/ /\ found[r] = "no"
        /\ IF fwrule THEN Die(r) /\ UNCHANGED fwrule
           ELSE fwrule' = TRUE /\ GoOn(r) /\ UNCHANGED ready
        /\ UNCHANGED <<ruleVars, setVars, table>>

\* The loop asks again after a deletion.
DelFwRule(r) ==
  /\ Does(r, "rule", "del")
  /\ \/ Ask(r, fwrule, fwrule)
     \/ /\ found[r] = "yes"
        /\ IF fwrule
             THEN fwrule' = FALSE /\ found' = [found EXCEPT ![r] = "unasked"] /\ UNCHANGED <<job, at, ready>>
             ELSE Die(r) /\ UNCHANGED fwrule
        /\ UNCHANGED <<ruleVars, setVars, table>>

\* fix-routes leaves the table alone when there is no interface, setup-routing
\* flushes it.
Route(r) ==
  \E what \in {"aim", "point"} :
    /\ Does(r, "route", what)
    /\ \/ Ask(r, linked, linked \/ what = "point")
       \/ /\ found[r] = "yes"
          /\ IF linked
               THEN table' = "tunnel" /\ ready' = [ready EXCEPT ![r] = TRUE] /\ GoOn(r)
               ELSE Die(r) /\ UNCHANGED table
          /\ UNCHANGED <<ruleVars, setVars, fwrule>>
       \/ /\ found[r] = "no" /\ what = "point"
          /\ table' = "none"
          /\ ready' = [ready EXCEPT ![r] = FALSE]
          /\ GoOn(r)
          /\ UNCHANGED <<ruleVars, setVars, fwrule>>

Flush(r) ==
  /\ Does(r, "route", "flush")
  /\ table' = "none"
  /\ GoOn(r)
  /\ UNCHANGED <<ready, ruleVars, setVars, fwrule>>

RestartDns(r) ==
  /\ Does(r, "restart", "dnsmasq")
  /\ fills' = ("domains" \in sets)
  /\ GoOn(r)
  /\ UNCHANGED <<ready, ruleVars, sets, hosts, routeVars>>

\* A set that a rule refers to cannot be destroyed.
Destroy(r) ==
  \E set \in RaceSets :
    /\ Does(r, "destroy", set)
    /\ \/ Ask(r, set \in sets, set \in sets)
       \/ /\ found[r] = "yes"
          /\ IF set \in sets /\ ~Refers(set)
               THEN /\ sets' = sets \ {set}
                    /\ hosts' = IF set = "blocked" THEN {} ELSE hosts
                    /\ fills' = (fills /\ set # "domains")
                    /\ GoOn(r) /\ UNCHANGED ready
               ELSE Die(r) /\ UNCHANGED setVars
          /\ UNCHANGED <<ruleVars, routeVars>>

\* A request ends with an error if the set has gone meanwhile.
ChangeHosts(r) ==
  \E what \in {"block", "allow", "reset"} :
    /\ Does(r, "host", what)
    /\ IF "blocked" \in sets
         THEN /\ CASE what = "block" -> \E h \in Hosts : hosts' = hosts \cup {h}
                   [] what = "allow" -> \E h \in Hosts : hosts' = hosts \ {h}
                   [] what = "reset" -> hosts' = {}
              /\ GoOn(r) /\ UNCHANGED ready
         ELSE Die(r) /\ UNCHANGED hosts
    /\ UNCHANGED <<ruleVars, sets, fills, routeVars>>

Step(r) ==
  /\ \/ Make(r) \/ Drop(r) \/ Insert(r) \/ AppendMark(r) \/ CreateDomains(r)
     \/ AddFwRule(r) \/ DelFwRule(r) \/ Route(r) \/ Flush(r) \/ RestartDns(r)
     \/ Destroy(r) \/ ChangeHosts(r)
  /\ UNCHANGED <<linked, during>>

---------------------------------------------------------------------------
(* What starts and stops them.                                             *)

AtRest == \A r \in Runners : job[r] \notin RoutingJobs

\* "setup" is one run that no other routing script overlaps, "again" one after
\* another of that kind, "setups" are runs that overlap each other.
Noted(kind) ==
  during' = IF kind = "other" \/ (~AtRest /\ during = "other") THEN "other"
            ELSE IF ~AtRest THEN "setups"
            ELSE IF during \in {"setup", "again"} THEN "again" ELSE "setup"

Begin(r, name, first) ==
  /\ job[r] = "none"
  /\ job' = [job EXCEPT ![r] = name]
  /\ at' = [at EXCEPT ![r] = first]
  /\ UNCHANGED <<found, ready>>

\* The endpoints, systemd, the selector, the watcher and the launcher.
StartScript(r) ==
  /\ \/ \E first \in {1, 2} : Begin(r, "setup", first) /\ Noted("setup")
     \/ Begin(r, "teardown", 1) /\ Noted("other")
  /\ UNCHANGED <<ruleVars, setVars, routeVars, linked>>

StartRequest(r) ==
  /\ \E name \in HostJobs : Begin(r, name, 1)
  /\ UNCHANGED <<ruleVars, setVars, routeVars, linked, during>>

\* PostUp of awg-quick and the XRay launcher fix the routes.
TunnelUp(r) ==
  /\ ~linked /\ linked' = TRUE
  /\ Begin(r, "setup", 1)
  /\ Noted(IF AtRest THEN "setup" ELSE "other")
  /\ UNCHANGED <<ruleVars, setVars, routeVars>>

\* The route goes with the interface; XRay has no hook that runs then.
TunnelDown(r) ==
  /\ linked /\ linked' = FALSE
  /\ table' = "none"
  /\ \/ Begin(r, "down", 1)
     \/ UNCHANGED runnerVars
  /\ Noted("other")
  /\ UNCHANGED <<ruleVars, setVars, fwrule>>

\* A time limit or a stop of the unit ends a script between two commands.
Kill(r) ==
  /\ job[r] # "none"
  /\ Die(r)
  /\ IF job[r] \in RoutingJobs THEN during' = "other" ELSE UNCHANGED during
  /\ UNCHANGED <<ruleVars, setVars, routeVars, linked>>

RaceInit ==
  /\ job = [r \in Runners |-> "none"]
  /\ at = [r \in Runners |-> 1]
  /\ found = [r \in Runners |-> "unasked"]
  /\ ready = [r \in Runners |-> FALSE]
  /\ chain = <<>> /\ marks = 0
  /\ sets = {} /\ hosts = {} /\ fills = FALSE
  /\ fwrule = FALSE /\ table = "none" /\ linked = FALSE
  /\ during = "nothing"

RaceNext ==
  \E r \in Runners :
    \/ Step(r)
    \/ StartScript(r)
    \/ StartRequest(r)
    \/ TunnelUp(r)
    \/ TunnelDown(r)
    \/ Kill(r)

RaceSpec == RaceInit /\ [][RaceNext]_raceVars

---------------------------------------------------------------------------
(* What runs leave that overlap.                                           *)

ListedRoute == IF marks > 0 /\ fwrule /\ table = "tunnel" THEN "tunnel" ELSE "lan"

\* Whether FORWARD rejects what a blocked host sends to the internet, or to
\* the private networks.
Rejected(to) ==
  \E i \in DOMAIN chain :
    /\ chain[i] = "reject"
    /\ to = "private" => \A j \in 1..(i - 1) : chain[j] # "accept"

\* However many runs of setup-routing and fix-routes overlap, and whatever
\* they find, once all have ended listed traffic goes through the tunnel if
\* it is up, dnsmasq fills the set of the marks, and a blocked host is cut
\* off: of two runs that are in each other's way at most one gives up.
SetupsConverge ==
  AtRest /\ during \in {"setup", "again", "setups"} =>
    /\ ListedRoute = IF linked THEN "tunnel" ELSE "lan"
    /\ marks > 0 => "domains" \in sets /\ fills
    /\ hosts # {} => Rejected("internet")

\* "Restrict one LAN host to private networks": two runs that nothing
\* overlaps put the rules for blocked hosts in order, whatever scripts that did
\* overlap, two at a time, have left.  Three at a time can leave a rule three
\* times, and two runs take out two.
HostsRestricted == AtRest /\ during = "again" => ~Rejected("private")
=============================================================================
