---------------------------- MODULE AwgConfigs ----------------------------
(***************************************************************************)
(* The library of AmneziaWG configs (api/routers/vpn.py): files, the       *)
(* .active marker, the installed copy amn0.conf, and the switch script,    *)
(* which moves all three a command at a time while handlers of the API     *)
(* edit the library.  Where a tunnel comes out is what ExitAddress shows.  *)
(*                                                                         *)
(* A config is identified with the exit address of its server.  The jobs   *)
(* of systemd are the subject of TunnelSelect: a unit starts in one step.  *)
(***************************************************************************)
EXTENDS ExitAddress, AwgText

CONSTANTS
  Workers,   \* requests of the library and the tunnels in flight
  Names,     \* config names
  Contents,  \* configs, by exit address
  XrayExit,  \* the exit address of XRay
  Absent,    \* no such file, no marker
  MaxRequests, MaxKills  \* bounds of a behaviour

ASSUME ContentAssumption ==
  /\ Contents \cup {XrayExit} \subseteq Addresses
  /\ Absent \notin Names \cup Addresses \cup {None}
ASSUME BoundAssumption == MaxRequests \in Nat /\ MaxKills \in Nat

VARIABLES
  files,    \* configs/<name>.conf; None while truncated for writing
  marker,   \* configs/.active
  dst,      \* amn0.conf
  job,      \* what each worker does; alone, a history, is TRUE as long as no
            \* other request has arrived meanwhile
  upset,    \* history: what has gone wrong so far
  requests, kills

library == <<files, marker, dst>>
vars == <<exitVars, library, job, upset, requests, kills>>

Commands == {"idle", "write", "check", "record", "stop", "install", "truncate", "mark",
             "start", "select", "finish"}
Jobs == [at : Commands, name : Names \cup {Absent}, content : Contents \cup {None},
         alone : BOOLEAN]
Idle == [at |-> "idle", name |-> Absent, content |-> None, alone |-> FALSE]

TypeOK ==
  /\ ExitTypeOK
  /\ choice \in Tunnels \cup {"none"}
  /\ ends \in [Tunnels -> Addresses \cup {None, Down}]
  /\ files \in [Names -> Contents \cup {None, Absent}]
  /\ marker \in Names \cup {Absent}
  /\ dst \in Contents \cup {None, Absent}
  /\ job \in [Workers -> Jobs]
  /\ upset \in SUBSET {"edit", "overlap", "kill"}
  /\ requests \in 0..MaxRequests /\ kills \in 0..MaxKills

Switching == {w \in Workers : job[w].at \notin {"idle", "write", "select"}
                              /\ job[w].name # Absent}

\* A handler that does not await runs undisturbed by other handlers.
LoopFree == \A w \in Workers : job[w].at # "write"

\* A request arrives: whoever is busy is no longer alone.
Arrives(flaws) ==
  /\ LoopFree
  /\ requests < MaxRequests /\ requests' = requests + 1
  /\ upset' = upset \cup flaws
  /\ UNCHANGED kills

Disturbed == [w \in Workers |-> [job[w] EXCEPT !.alone = FALSE]]

Take(w, at, name, content) ==
  /\ job[w] = Idle
  /\ job' = [Disturbed EXCEPT ![w] =
       [at |-> at, name |-> name, content |-> content,
        alone |-> \A x \in Workers : job[x] = Idle]]

\* An edit of a config that a switch in flight is about to use.
EditFlaw(n) == IF \E w \in Switching : job[w].name = n THEN {"edit"} ELSE {}

---------------------------------------------------------------------------
(* The library: upload (write_text truncates, then writes) and delete.     *)

\* Mutant: the active config may be overwritten.
UploadAny(w, n, c, overwrite) ==
  /\ files[n] # Absent => overwrite
  /\ Take(w, "write", n, c)
  /\ files' = [files EXCEPT ![n] = None]
  /\ Arrives(EditFlaw(n))
  /\ UNCHANGED <<exitVars, marker, dst>>

Upload(w, n, c, overwrite) ==
  /\ files[n] # Absent => overwrite /\ n # marker
  /\ Take(w, "write", n, c)
  /\ files' = [files EXCEPT ![n] = None]
  /\ Arrives(EditFlaw(n))
  /\ UNCHANGED <<exitVars, marker, dst>>

Write(w) ==
  /\ job[w].at = "write"
  /\ files' = [files EXCEPT ![job[w].name] = job[w].content]
  /\ job' = [job EXCEPT ![w] = Idle]
  /\ UNCHANGED <<exitVars, marker, dst, upset, requests, kills>>

\* Mutant: the marker is not looked at.
DeleteAny(n) ==
  /\ files[n] # Absent
  /\ files' = [files EXCEPT ![n] = Absent]
  /\ job' = Disturbed
  /\ Arrives(EditFlaw(n))
  /\ UNCHANGED <<exitVars, marker, dst>>

Delete(n) ==
  /\ n # marker /\ files[n] # Absent
  /\ files' = [files EXCEPT ![n] = Absent]
  /\ job' = Disturbed
  /\ Arrives(EditFlaw(n))
  /\ UNCHANGED <<exitVars, marker, dst>>

---------------------------------------------------------------------------
(* Activate: the handler, and the commands of vpngw-switch-vpn.sh.         *)

Activate(w, n) ==
  /\ files[n] # Absent
  /\ Take(w, "check", n, None)
  /\ Arrives(IF Switching = {} THEN {} ELSE {"overlap"})
  /\ UNCHANGED <<exitVars, library>>

Goto(w, at) == job' = [job EXCEPT ![w].at = at]
Fail(w) == job' = [job EXCEPT ![w] = Idle]
Tunnel(t, end) == ends' = [ends EXCEPT ![t] = end]
Quiet == UNCHANGED <<cache, look, upset, requests, kills>>

Check(w) ==
  /\ job[w].at = "check"
  /\ IF files[job[w].name] = Absent THEN Fail(w) ELSE Goto(w, "record")
  /\ Quiet /\ UNCHANGED <<env, library>>

Record(w) ==
  /\ job[w].at = "record"
  /\ choice' = "amnezia"
  /\ Goto(w, "stop")
  /\ Quiet /\ UNCHANGED <<ends, library>>

\* Mutant: the running tunnel is not stopped.
StopXrayOnly(w) ==
  /\ job[w].at = "stop"
  /\ ends' = [ends EXCEPT !["xray"] = Down]
  /\ Goto(w, "install")
  /\ Quiet /\ UNCHANGED <<choice, library>>

Stop(w) ==
  /\ job[w].at = "stop"
  /\ ends' = [t \in Tunnels |-> Down]
  /\ Goto(w, "install")
  /\ Quiet /\ UNCHANGED <<choice, library>>

\* set -e: a source that is gone ends the script here.
Install(w) ==
  /\ job[w].at = "install"
  /\ IF files[job[w].name] = Absent
       THEN Fail(w) /\ UNCHANGED dst
       ELSE Goto(w, "truncate") /\ dst' = files[job[w].name]
  /\ Quiet /\ UNCHANGED <<env, files, marker>>

\* printf > .active truncates, then writes.
Truncate(w) ==
  /\ job[w].at = "truncate"
  /\ marker' = Absent
  /\ Goto(w, "mark")
  /\ Quiet /\ UNCHANGED <<env, files, dst>>

Mark(w) ==
  /\ job[w].at = "mark"
  /\ marker' = job[w].name
  /\ Goto(w, "start")
  /\ Quiet /\ UNCHANGED <<env, files, dst>>

\* A unit that is up stays as it is; otherwise awg-quick reads amn0.conf.
Start(w, success) ==
  /\ job[w].at = "start"
  /\ IF ends["amnezia"] # Down \/ success THEN Goto(w, "finish") ELSE Fail(w)
  /\ IF ends["amnezia"] = Down /\ success THEN Tunnel("amnezia", dst) ELSE UNCHANGED ends
  /\ Quiet /\ UNCHANGED <<choice, library>>

\* Routes are fixed, the script ends, and the handler empties the cache.
Finish(w) ==
  /\ job[w].at = "finish"
  /\ Invalidate
  /\ job' = [job EXCEPT ![w] = Idle]
  /\ UNCHANGED <<env, look, library, upset, requests, kills>>

\* The API gives up after 30 s and kills the script where it is; the cache
\* stays as it is.
Kill(w) ==
  /\ w \in Switching
  /\ kills < MaxKills /\ kills' = kills + 1
  /\ Fail(w)
  /\ upset' = upset \cup {"kill"}
  /\ UNCHANGED <<exitVars, library, requests>>

---------------------------------------------------------------------------
(* The tunnels: what the selector achieves (ExternalTunnel), and restarts. *)

Select(w, t) ==
  /\ Take(w, "select", Absent, None)
  /\ Arrives({})
  /\ t = "amnezia" /\ ends["amnezia"] = Down => dst # Absent
  /\ choice' = t
  /\ ends' = [amnezia |-> IF t # "amnezia" THEN Down
                          ELSE IF ends["amnezia"] = Down THEN dst ELSE ends["amnezia"],
              xray    |-> IF t = "xray" THEN XrayExit ELSE Down]
  /\ UNCHANGED <<cache, look, library>>

Selected(w) ==
  /\ job[w].at = "select"
  /\ Invalidate
  /\ Fail(w)
  /\ UNCHANGED <<env, look, library, upset, requests, kills>>

\* POST /vpn/restart, whatever the choice: amn0.conf is read again, the cache
\* stays as it is.
Restart(success) ==
  /\ dst # Absent
  /\ Tunnel("amnezia", IF success THEN dst ELSE Down)
  /\ job' = Disturbed
  /\ Arrives({})
  /\ UNCHANGED <<choice, cache, look, library>>

\* An earlier run has left a library in order.
Init ==
  /\ ExitInit
  /\ files \in [Names -> Contents \cup {Absent}]
  /\ \/ marker = Absent /\ dst = Absent
     \/ marker \in Names /\ files[marker] # Absent /\ dst = files[marker]
  /\ \/ choice = "amnezia" /\ ends = [amnezia |-> IF dst = Absent THEN Down ELSE dst, xray |-> Down]
     \/ choice = "xray" /\ ends = [amnezia |-> Down, xray |-> XrayExit]
  /\ job = [w \in Workers |-> Idle]
  /\ upset = {} /\ requests = 0 /\ kills = 0

Script(w) ==
  \/ Check(w) \/ Record(w) \/ Stop(w) \/ Install(w) \/ Truncate(w) \/ Mark(w)
  \/ \E success \in BOOLEAN : Start(w, success)

Handlers ==
  \/ \E w \in Workers, n \in Names, c \in Contents, overwrite \in BOOLEAN :
       Upload(w, n, c, overwrite)
  \/ \E n \in Names : Delete(n)
  \/ \E w \in Workers, n \in Names : Activate(w, n)
  \/ \E w \in Workers, t \in Tunnels \cup {"none"} : Select(w, t)
  \/ \E success \in BOOLEAN : Restart(success)
  \/ \E w \in Workers : Write(w) \/ Finish(w) \/ Selected(w) \/ Kill(w)

Next ==
  \/ \E w \in Workers : Script(w)
  \/ Handlers
  \/ (Lookup \/ Tick) /\ UNCHANGED <<library, job, upset, requests, kills>>

Spec == Init /\ [][Next]_vars

---------------------------------------------------------------------------
(* Properties.                                                             *)

\* The file that .active names is there and whole, however switches overlap
\* and wherever they are killed, unless the config of a switch in flight was
\* uploaded or deleted meanwhile (delete_config and upload_config compare
\* with the marker, which a switch writes late).
ActiveThere == "edit" \notin upset /\ marker # Absent => files[marker] \in Contents

\* Unless switches overlapped, were killed or had their config edited, the
\* config listed as active is the one installed: uploads, deletions, failed
\* switches, selections and restarts keep file, marker and amn0.conf together.
ActiveIsInstalled ==
  upset = {} /\ Switching = {} /\ marker # Absent => dst = files[marker]

\* A switch that reports success and that no other request overlapped leaves
\* the config active, installed and running, XRay down, the choice amnezia
\* and no old address in the cache, whatever earlier switches left behind.
SwitchTakes ==
  [][\A w \in Workers :
       job[w].at = "finish" /\ job[w].alone /\ job'[w] = Idle /\ kills' = kills =>
         /\ marker = job[w].name
         /\ dst = files[marker]
         /\ choice = "amnezia" /\ ends = [amnezia |-> dst, xray |-> Down]
         /\ cache' = Empty]_vars

\* An upload writes a text whose [Interface] has each hook once, or as often as
\* the provider set it in any case, and no DNS; what else was uploaded is kept
\* in its order.  Adapting again, as it was adapted, changes nothing ("Idempotent
\* - running it on an already-adapted config is a no-op"), and an upload leaves
\* what the script has written as it is if no line is a key to one only.
UploadUsable == (\E w \in Workers : job[w].at = "write") => AllUsable /\ AllSettled
===========================================================================
