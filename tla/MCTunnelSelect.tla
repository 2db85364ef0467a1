-------------------------- MODULE MCTunnelSelect --------------------------
(* TunnelSelect on small instances. *)
EXTENDS TunnelSelect

AllRequests == SelectRequests \cup OtherRequests

\* Selections that leave .active alone.
UnmarkedRequests == SelectRequests \ {"xray/activate"}
===========================================================================
