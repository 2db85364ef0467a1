---------------------------- MODULE XrayProbes ----------------------------
(***************************************************************************)
(* Pings and hard tests of XRay configs (api/routers/xray_client.py): each *)
(* runs a process of its own that listens on a port of its own, and for an *)
(* Outline share a sidecar with a second one.  A check of a subscription   *)
(* runs its nodes at once, as many as its semaphore lets in.               *)
(*                                                                         *)
(* The kernel gives a port that nobody listens on.  That it gives none a   *)
(* second time before its first owner listens is likely, not certain; the  *)
(* other case is a fault here.                                             *)
(***************************************************************************)
EXTENDS XrayText, FiniteSets

CONSTANTS
  MaxChecks,  \* requests, numbered as they come
  Nodes,
  Outline,  \* nodes that need a sidecar
  Limit,    \* SUBSCRIPTION_TEST_CONCURRENCY
  MaxPort,
  None,
  Tunnel,   \* the sidecar of the tunnel in use
  MaxFaults \* bound of a behaviour

Checks == 1..MaxChecks
Tasks == Checks \X Nodes
Ports == 0..MaxPort
FixedPort == 0  \* OUTLINE_SS_LOCAL_PORT, where the sidecar of the tunnel listens

ASSUME ChecksAssumption == Outline \subseteq Nodes /\ Limit \in Nat \ {0} /\ {MaxChecks, MaxFaults} \subseteq Nat
ASSUME PortsAssumption == MaxPort \in Nat /\ None # Tunnel /\ None \notin Ports

VARIABLES
  library,   \* configs/*.key
  works,     \* nodes that answer
  check,     \* what each request is doing
  task,      \* a probe of one node within a request
  listens,   \* the process that listens on each port
  running,   \* processes
  files,     \* tasks with a config or a log under /run
  lost,      \* history: tasks that an exception has ended, with what they left
  submitted, faults

xrayVars == <<library, works, check, task, listens, running, files, lost, submitted, faults>>

Xray(t) == <<"xray", t>>
Sidecar(t) == <<"sidecar", t>>
Processes == {Xray(t) : t \in Tasks} \cup {Sidecar(t) : t \in Tasks}

ASSUME NamesAssumption == {None, Tunnel} \cap (Processes \cup Nodes) = {}

Unasked == [at |-> "none", part |-> "ping", port |-> None, side |-> None,
            verdict |-> None, hit |-> FALSE]

\* hit (history): a fault befell the probe.
Probe == [at : {"none", "queued", "sidecar", "xray", "curl", "stop", "stopside", "again", "done"},
          part : {"ping", "hard"}, port : Ports \cup {None}, side : Ports \cup {None},
          verdict : {None, "ok", "failed", "error"}, hit : BOOLEAN]

XrayTypeOK ==
  /\ library \in SUBSET Nodes /\ works \in SUBSET Nodes
  /\ check \in [Checks -> {"none", "ping", "hard"}]
  /\ task \in [Tasks -> Probe]
  /\ listens \in [Ports -> Processes \cup {None, Tunnel}]
  /\ running \in SUBSET Processes
  /\ \A n \in Ports : listens[n] \in running \cup {None, Tunnel}
  /\ files \in SUBSET Tasks /\ lost \in SUBSET Tasks
  /\ submitted \in 0..MaxChecks /\ faults \in 0..MaxFaults

Outlined(t) == t[2] \in Outline
Of(k) == {t \in Tasks : t[1] = k}
Inside(t) == task[t].at \notin {"none", "queued", "done"}

MovesTo(t, at) == task' = [task EXCEPT ![t].at = at]
Frees(process) == [n \in Ports |-> IF listens[n] = process THEN None ELSE listens[n]]

\* Mutant: a node that cannot be tested keeps its place.
TakenByErrors(k) == {t \in Of(k) : Inside(t) \/ task[t].verdict = "error"}

\* Tasks of a check that hold its semaphore.
Taken(k) == {t \in Of(k) : Inside(t)}

Kept == UNCHANGED <<library, works, check, lost>>
NoFault == UNCHANGED <<submitted, faults>>
XrayFault == faults < MaxFaults /\ faults' = faults + 1 /\ UNCHANGED submitted

---------------------------------------------------------------------------
(* A check begins and is answered.                                         *)

Submit(k, kind, entries) ==
  /\ k = submitted + 1 /\ submitted' = k
  /\ check' = [check EXCEPT ![k] = kind]
  /\ task' = [t \in Tasks |-> IF t[1] = k /\ t[2] \in entries
                              THEN [Unasked EXCEPT !.at = "queued"] ELSE task[t]]
  /\ UNCHANGED <<library, works, listens, running, files, lost, faults>>

Answer(k) ==
  /\ check[k] # "none"
  /\ \A t \in Of(k) : task[t].at \in {"none", "done"}
  /\ check' = [check EXCEPT ![k] = "none"]
  /\ task' = [t \in Tasks |-> IF t[1] = k THEN Unasked ELSE task[t]]
  /\ UNCHANGED <<library, works, listens, running, files, lost>> /\ NoFault

---------------------------------------------------------------------------
(* _run_socks_probe.                                                       *)

Waits(t) == task[t].at \in {"sidecar", "xray"}

\* Ports that have been given to a probe whose processes do not listen yet.
Drawn == {n \in Ports : \E t \in Tasks : Waits(t) /\ n \in {task[t].port, task[t].side}}

Free == {n \in Ports : listens[n] = None}
Some(set) == CHOOSE n \in set : TRUE

\* Mutant: the sidecar gets the port it has for the tunnel.
DrawFixed(outlined, again) ==
  LET fresh == Free \ Drawn
  IN  [side |-> IF outlined THEN FixedPort ELSE None,
       port |-> Some(IF again THEN Drawn \cap Free ELSE fresh)]

\* _free_port, once for the sidecar and once for the probe; again: the second
\* number is one that another probe was given before.
Draw(outlined, again) ==
  LET fresh == Free \ Drawn
      side == Some(fresh)
  IN  [side |-> IF outlined THEN side ELSE None,
       port |-> Some(IF again THEN Drawn \cap Free ELSE IF outlined THEN fresh \ {side} ELSE fresh)]

\* From the name to the first process: no await.  There are more ports than
\* probes could use.
Launch(t, part, again) ==
  LET drawn == Draw(Outlined(t), again)
      hit == [u \in Tasks |-> task[u].hit \/
                (again /\ (u = t \/ (Waits(u) /\ drawn.port \in {task[u].port, task[u].side})))]
  IN  /\ t[2] \in library => \E m, n \in Free \ Drawn : m # n
      /\ again => Drawn \cap Free # {} /\ t[2] \in library
      /\ IF again THEN XrayFault ELSE NoFault
      /\ IF t[2] \notin library
           THEN /\ task' = [task EXCEPT ![t].at = "done", ![t].verdict = "error"]
                /\ UNCHANGED <<running, files>>
           ELSE /\ task' = [u \in Tasks |->
                     IF u = t
                       THEN [task[t] EXCEPT !.at = IF Outlined(t) THEN "sidecar" ELSE "xray",
                                            !.part = part, !.port = drawn.port, !.side = drawn.side,
                                            !.hit = hit[t], !.verdict = None]
                       ELSE [task[u] EXCEPT !.hit = hit[u]]]
                /\ running' = running \cup {IF Outlined(t) THEN Sidecar(t) ELSE Xray(t)}
                /\ files' = files \cup {t}

Enter(t, again) ==
  /\ task[t].at = "queued"
  /\ Cardinality(Taken(t[1])) < Limit
  /\ Launch(t, "ping", again)
  /\ UNCHANGED listens /\ Kept

\* A hard test follows its ping without giving up the place.
HardTest(t, again) ==
  /\ task[t].at = "again"
  /\ Launch(t, "hard", again)
  /\ UNCHANGED listens /\ Kept

\* Mutant: the files of a sidecar that has not come up are forgotten.
SidecarStartsForgets(t) ==
  LET up == listens[task[t].side] = None
  IN  /\ task[t].at = "sidecar"
      /\ listens' = IF up THEN [listens EXCEPT ![task[t].side] = Sidecar(t)] ELSE listens
      /\ running' = IF up THEN running \cup {Xray(t)} ELSE running \ {Sidecar(t)}
      /\ task' = [task EXCEPT ![t].at = IF up THEN "xray" ELSE "done",
                              ![t].verdict = IF up THEN None ELSE "error"]
      /\ UNCHANGED files
      /\ Kept /\ NoFault

\* A sidecar whose port is taken exits within the 0.4 s it is given.
SidecarStarts(t) ==
  LET up == listens[task[t].side] = None
  IN  /\ task[t].at = "sidecar"
      /\ listens' = IF up THEN [listens EXCEPT ![task[t].side] = Sidecar(t)] ELSE listens
      /\ running' = IF up THEN running \cup {Xray(t)} ELSE running \ {Sidecar(t)}
      /\ task' = [task EXCEPT ![t].at = IF up THEN "xray" ELSE "done",
                              ![t].verdict = IF up THEN None ELSE "error"]
      /\ files' = IF up THEN files ELSE files \ {t}
      /\ Kept /\ NoFault

\* Whether XRay has come up nobody asks.
XrayStarts(t) ==
  LET up == listens[task[t].port] = None
  IN  /\ task[t].at = "xray"
      /\ listens' = IF up THEN [listens EXCEPT ![task[t].port] = Xray(t)] ELSE listens
      /\ running' = IF up THEN running ELSE running \ {Xray(t)}
      /\ MovesTo(t, "curl")
      /\ UNCHANGED files /\ Kept /\ NoFault

\* The fork of XRay fails: an exception that nobody expects.  The request is
\* answered at once, the probes beside go on, the sidecar is lost.  (Without a
\* sidecar only a file would be.)
XrayNotForked(t) ==
  /\ task[t].at = "sidecar" /\ listens[task[t].side] = None
  /\ XrayFault
  /\ listens' = [listens EXCEPT ![task[t].side] = Sidecar(t)]
  /\ task' = [task EXCEPT ![t].at = "done", ![t].verdict = "error", ![t].hit = TRUE]
  /\ lost' = lost \cup {t}
  /\ UNCHANGED <<library, works, check, running, files>>

---------------------------------------------------------------------------
(* _ping_config, _hard_test_config, _stop_socks_probe.                     *)

\* The node at the other end of what listens on a port.
Reached(n) ==
  LET Node(process) == IF process \in {None, Tunnel} THEN process ELSE process[2][2]
      first == listens[n]
  IN  IF first \in {Xray(t) : t \in Tasks} /\ Outlined(first[2])
        THEN Node(listens[task[first[2]].side])
        ELSE Node(first)

Curl(t) ==
  /\ task[t].at = "curl"
  /\ task' = [task EXCEPT ![t].at = "stop",
       ![t].verdict = IF Reached(task[t].port) \in works \cup {Tunnel} THEN "ok" ELSE "failed"]
  /\ UNCHANGED <<listens, running, files>> /\ Kept /\ NoFault

\* A process that does not end is killed after 2 s.
StopXray(t) ==
  /\ task[t].at = "stop"
  /\ listens' = Frees(Xray(t)) /\ running' = running \ {Xray(t)}
  /\ MovesTo(t, "stopside")
  /\ UNCHANGED files /\ Kept /\ NoFault

Finished(t) == task[t].part = "hard" \/ check[t[1]] # "hard" \/ task[t].verdict # "ok"

StopSidecar(t) ==
  /\ task[t].at = "stopside"
  /\ listens' = Frees(Sidecar(t)) /\ running' = running \ {Sidecar(t)}
  /\ files' = files \ {t}
  /\ task' = [task EXCEPT ![t].at = IF Finished(t) THEN "done" ELSE "again",
                          ![t].port = None, ![t].side = None]
  /\ Kept /\ NoFault

---------------------------------------------------------------------------
\* A refresh drops a node that a check may be about to test.  (No fault, but
\* bounded as one.)
Vanish(n) ==
  /\ n \in library /\ library' = library \ {n}
  /\ UNCHANGED <<works, check, task, listens, running, files, lost>> /\ XrayFault

XrayInit ==
  /\ library = Nodes /\ works \in SUBSET Nodes
  /\ check = [k \in Checks |-> "none"]
  /\ task = [t \in Tasks |-> Unasked]
  /\ \E owner \in {None, Tunnel} : listens = [n \in Ports |-> IF n = FixedPort THEN owner ELSE None]
  /\ running = {} /\ files = {} /\ lost = {}
  /\ submitted = 0 /\ faults = 0

TaskStep(t) ==
  \/ Enter(t, FALSE) \/ HardTest(t, FALSE)
  \/ SidecarStarts(t) \/ XrayStarts(t) \/ Curl(t) \/ StopXray(t) \/ StopSidecar(t)

XrayNext ==
  \/ \E k \in Checks, kind \in {"ping", "hard"}, entries \in SUBSET Nodes \ {{}} : Submit(k, kind, entries)
  \/ \E t \in Tasks : TaskStep(t) \/ Enter(t, TRUE) \/ HardTest(t, TRUE) \/ XrayNotForked(t)
  \/ \E k \in Checks : Answer(k)
  \/ \E n \in Nodes : Vanish(n)

\* Every command has a time limit, and a process that outlives it is killed.
XrayFairness == WF_xrayVars((\E t \in Tasks : TaskStep(t)) \/ \E k \in Checks : Answer(k))

---------------------------------------------------------------------------
(* Properties.                                                             *)

\* However many checks run at once, and whatever runs beside them, a verdict
\* says what the node it names does: probes share neither a port nor a process
\* with one another or with the tunnel, unless the kernel hands out a port
\* twice.  A test that cannot be made is one of a config that has gone.
Isolated ==
  \A t \in Tasks : task[t].at = "done" /\ ~task[t].hit =>
    /\ task[t].verdict = "error" => t[2] \notin library
    /\ task[t].verdict # "error" => (task[t].verdict = "ok" <=> t[2] \in works)

\* Whichever way probes end, they leave no process, no port and no file behind,
\* but for those that an unexpected exception has ended.
AllStopped ==
  (\A t \in Tasks : ~Inside(t)) =>
    /\ running \subseteq {Sidecar(t) : t \in lost} /\ files \subseteq lost
    /\ \A n \in Ports : listens[n] \in {None, Tunnel} \cup running

\* Every check is answered, with nodes that fail, vanish or cannot be tested:
\* when no more are asked for, none is left in the end.
ChecksEnd == []<>(\A k \in Checks : check[k] = "none")

\* What a provider's config becomes when it is tested or used; and every usable
\* node of a payload becomes a config, whatever the payload's coding, nothing
\* else does, and no node overwrites another's config.
XrayTextExact == submitted > 0 => AllRunAsMeant /\ AllNodesFound /\ AllNamesApart
===========================================================================
