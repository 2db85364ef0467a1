------------------------------ MODULE MCProbes ------------------------------
(* AwgProbes, and XrayProbes with XrayText, on small instances.  The two    *)
(* kinds of probes share nothing, so a behaviour is one of either.          *)
EXTENDS AwgProbes, XrayProbes, Relation

CONSTANTS InUse, Answering  \* a config and a node

\* Behind is the transitive closure.
ASSUME BehindCloses ==
  \A outbounds \in {o \in ProviderConfigs : \A i \in DOMAIN o : o[i].protocol = "vless"} :
    LET places == DOMAIN outbounds
        closure == TransitiveClosure([p \in places \X places |-> p[2] \in Dialed(outbounds, p[1])], places)
    IN  \A i \in places : Behind(outbounds, i) = {j \in places : closure[i, j]}

VARIABLE side

Init ==
  /\ AwgInit /\ active = InUse
  /\ XrayInit /\ works = {Answering} /\ listens[FixedPort] = Tunnel
  /\ \/ side = "awg"
     \/ side = "xray" /\ choice = "other" /\ live = Absent

Next ==
  \/ side = "awg" /\ AwgNext /\ UNCHANGED xrayVars
  \/ side = "xray" /\ XrayNext /\ UNCHANGED awgVars

Spec == Init /\ [][Next /\ UNCHANGED side]_<<awgVars, xrayVars, side>> /\ XrayFairness
=============================================================================
