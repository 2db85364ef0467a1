--------------------------- MODULE MCRouteScripts ---------------------------
(* RouteScripts, with the routing endpoints called in its run, and          *)
(* RouteRaces.  The two look at the same scripts one by one and command by  *)
(* command; a behaviour is one of either, and keeps the tables of the other *)
(* as they are.                                                             *)
EXTENDS RouteScripts, RouteRaces, TLC

AllCalls == Calls
Alike == Permutations(Runners)

VARIABLE side

AllInit ==
  /\ Init /\ RaceInit
  /\ \/ side = "one by one"
     \/ /\ side = "overlapping"
        /\ mode = "split" /\ sel = "none" /\ links = {}
        /\ k = Clean

AllNext ==
  \/ side = "one by one" /\ Next /\ UNCHANGED raceVars
  \/ side = "overlapping" /\ RaceNext /\ UNCHANGED vars

AllSpec == AllInit /\ [][AllNext /\ UNCHANGED side]_<<vars, raceVars, side>>
=============================================================================
