--------------------------- MODULE ExitAddress ---------------------------
(***************************************************************************)
(* The public address the dashboard shows (api/services/system_commands):  *)
(* lookups through the chosen tunnel that fill one cache, which handlers   *)
(* that move a tunnel empty.  A lookup awaits its probes, so anything can  *)
(* happen between the time it notes and the moment it fills the cache.     *)
(* Times are kept as ages, capped where they stop to matter.               *)
(***************************************************************************)
EXTENDS Integers

CONSTANTS
  Viewers,    \* requests for the status or a refresh that can be in flight
  Addresses,
  None,       \* no address
  Down,       \* the interface of a tunnel is not up
  TTL,        \* _EXIT_IP_TTL_SEC
  Slow        \* the longest lookup: probes of 10 s, then two answers of 10 s

ASSUME AddressAssumption == None \notin Addresses /\ Down \notin Addresses \cup {None}
ASSUME TimeAssumption == TTL \in Nat /\ Slow \in Nat /\ Slow < TTL

Tunnels == {"amnezia", "xray"}

VARIABLES
  choice,  \* the chosen tunnel or "none"
  ends,    \* where each tunnel comes out: an address, None (mute) or Down
  cache,   \* _EXIT_IP_CACHE: address and age of fetched_at; old, a history,
           \* is the age of the probe the address came from
  look     \* requests in flight

env == <<choice, ends>>
exitVars == <<choice, ends, cache, look>>

Empty == [ip |-> None, age |-> 0, old |-> 0]
Unasked == [step |-> "idle", force |-> FALSE, links |-> {}, age |-> 0, ip |-> None, old |-> 0]

ExitTypeOK ==
  /\ cache \in [ip : Addresses \cup {None}, age : 0..TTL, old : 0..TTL]
  /\ look \in [Viewers -> [step : {"idle", "linked", "probing", "locating"}, force : BOOLEAN,
                           links : SUBSET Tunnels, age : 0..Slow,
                           ip : Addresses \cup {None}, old : 0..Slow]]

---------------------------------------------------------------------------
(* GET /system/status and POST /system/exit-ip/refresh.                    *)

\* get_interface_info: an interface that is there is up.
LinksUp == {t \in Tunnels : ends[t] # Down}

\* Which interfaces are up is asked first; other questions follow.
Ask(v, force) ==
  /\ look[v] = Unasked
  /\ look' = [look EXCEPT ![v].step = "linked", ![v].force = force, ![v].links = LinksUp]
  /\ UNCHANGED <<env, cache>>

\* "external VPN down": the choice of now, the interfaces of then.
SayDown(v) ==
  /\ look[v].step = "linked"
  /\ choice \notin look[v].links
  /\ look' = [look EXCEPT ![v] = Unasked]
  /\ UNCHANGED <<env, cache>>

Fresh == cache.ip # None /\ cache.age < TTL

SayCached(v) ==
  /\ look[v].step = "linked"
  /\ choice \in look[v].links
  /\ ~look[v].force /\ Fresh
  /\ look' = [look EXCEPT ![v] = Unasked]
  /\ UNCHANGED <<env, cache>>

\* The time of the entry is taken before the first probe.
Begin(v) ==
  /\ look[v].step = "linked"
  /\ choice \in look[v].links
  /\ look[v].force \/ ~Fresh
  /\ look' = [look EXCEPT ![v] = [Unasked EXCEPT !.step = "probing"]]
  /\ UNCHANGED <<env, cache>>

\* A probe goes out where the choice of that moment leads, or fails.
Reachable ==
  {None} \cup IF choice \in Tunnels THEN {ends[choice]} \ {Down} ELSE {}

Probe(v, ip) ==
  /\ look[v].step = "probing"
  /\ ip \in Reachable
  /\ look' = [look EXCEPT ![v].step = "locating", ![v].ip = ip]
  /\ UNCHANGED <<env, cache>>

\* _geo_lookup asks one service for the country, then another: with or without
\* an answer the lookup goes on.
Located(v) == look[v].step = "locating"

Fill(ip, age, old) ==
  cache' = IF ip = None THEN Empty ELSE [ip |-> ip, age |-> age, old |-> old]

\* Mutant: the entry counts from the end of its lookup.
StoreAtEnd(v) ==
  /\ Located(v)
  /\ Fill(look[v].ip, 0, look[v].old)
  /\ look' = [look EXCEPT ![v] = Unasked]
  /\ UNCHANGED env

\* The cache is overwritten whatever is in it by now.
Store(v) ==
  /\ Located(v)
  /\ Fill(look[v].ip, look[v].age, look[v].old)
  /\ look' = [look EXCEPT ![v] = Unasked]
  /\ UNCHANGED env

Lookup ==
  \E v \in Viewers :
    \/ \E force \in BOOLEAN : Ask(v, force)
    \/ SayDown(v) \/ SayCached(v) \/ Begin(v) \/ Store(v)
    \/ \E ip \in Addresses \cup {None} : Probe(v, ip)

---------------------------------------------------------------------------
(* What happens around the lookups.                                        *)

Older(age) == IF age < TTL THEN age + 1 ELSE age

\* curl gives up, so no lookup lasts longer than Slow.
Tick ==
  /\ \A v \in Viewers : look[v].age < Slow
  /\ cache' = IF cache.ip = None THEN cache
              ELSE [cache EXCEPT !.age = Older(@), !.old = Older(@)]
  /\ look' = [v \in Viewers |->
       CASE look[v].step = "probing" -> [look[v] EXCEPT !.age = @ + 1]
         [] look[v].step = "locating" -> [look[v] EXCEPT !.age = @ + 1, !.old = @ + 1]
         [] OTHER -> look[v]]
  /\ UNCHANGED env

\* invalidate_exit_ip_cache
Invalidate == cache' = Empty

\* Tunnels and choice move, and a handler may empty the cache.
Move ==
  /\ choice' \in Tunnels \cup {"none"}
  /\ ends' \in [Tunnels -> Addresses \cup {None, Down}]
  /\ Invalidate \/ UNCHANGED cache
  /\ UNCHANGED look

ExitInit ==
  /\ choice \in Tunnels \cup {"none"}
  /\ ends \in [Tunnels -> Addresses \cup {None, Down}]
  /\ cache = Empty
  /\ look = [v \in Viewers |-> Unasked]

ExitSpec == ExitInit /\ [][Lookup \/ Tick \/ Move]_exitVars

---------------------------------------------------------------------------
(* Properties.                                                             *)

\* An address the cache would still serve was the exit address less than its
\* time to live ago, whatever moved the tunnels since, however lookups
\* overlap and whoever forgot to empty the cache.
ServedRecent == Fresh => cache.old < TTL
===========================================================================
