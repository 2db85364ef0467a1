-------------------------- MODULE ExternalTunnel --------------------------
(***************************************************************************)
(* What a selection of the external tunnel promises, whatever scripts and  *)
(* units carry it out: make before break.  The goal is brought up first,   *)
(* then becomes the stored choice, and only then may the other tunnel go   *)
(* down.  A selection that is abandoned was abandoned before it took       *)
(* anything away.                                                          *)
(***************************************************************************)
EXTENDS FiniteSets

VARIABLES
  chosen,  \* the stored choice, "" while it is being replaced
  up,      \* the tunnels that are up, or that are kept up
  goal,    \* the selection in progress, or "idle"
  phase    \* how far it is

vars == <<chosen, up, goal, phase>>

Tunnels == {"amnezia", "xray"}
Phases == {"idle", "making", "made", "recorded"}

\* The gateway comes up with the choice of an earlier run.
Init ==
  /\ chosen \in Tunnels \cup {"none", ""}
  /\ up = {}
  /\ goal = IF chosen = "" THEN "amnezia" ELSE chosen
  /\ phase = IF goal = "none" THEN "made" ELSE "making"

Begin(t) ==
  /\ phase = "idle"
  /\ goal' = t
  /\ phase' = IF t = "none" THEN "made" ELSE "making"
  /\ UNCHANGED <<chosen, up>>

\* The goal comes up; a restart of a tunnel that is already up counts too.
Make ==
  /\ phase = "making"
  /\ up' = up \cup {goal}
  /\ phase' \in {"making", "made"}
  /\ UNCHANGED <<chosen, goal>>

\* The goal does not come up: nothing changes.
Abandon ==
  /\ phase = "making"
  /\ phase' = "idle" /\ goal' = "idle"
  /\ UNCHANGED <<chosen, up>>

Forget ==
  /\ phase = "made"
  /\ chosen' = ""
  /\ UNCHANGED <<up, goal, phase>>

Record ==
  /\ phase = "made"
  /\ chosen' = goal
  /\ phase' = "recorded"
  /\ UNCHANGED <<up, goal>>

\* Only what is not the choice is taken down.
Break ==
  /\ phase = "recorded"
  /\ \E t \in Tunnels \ {goal} : up' = up \ {t}
  /\ UNCHANGED <<chosen, goal, phase>>

\* The last break ends the selection: nothing but the choice is left.
BreakAndFinish ==
  /\ phase = "recorded"
  /\ chosen = goal
  /\ \E t \in Tunnels \ {goal} : up' = up \ {t}
  /\ up' \subseteq {goal}
  /\ goal' = "idle" /\ phase' = "idle"
  /\ UNCHANGED chosen

\* A tunnel may die, and the gateway may go down and select again.
Die ==
  /\ \E t \in up : up' = up \ {t}
  /\ UNCHANGED <<chosen, goal, phase>>

GoDown ==
  /\ up' = {}
  /\ chosen' \in {chosen, "none"}
  /\ goal' = IF chosen' = "" THEN "amnezia" ELSE chosen'
  /\ phase' = IF goal' = "none" THEN "made" ELSE "making"

Next ==
  \/ \E t \in Tunnels \cup {"none"} : Begin(t)
  \/ Make \/ Abandon \/ Forget \/ Record
  \/ Break \/ BreakAndFinish \/ Die \/ GoDown

Spec == Init /\ [][Next]_vars
===========================================================================
