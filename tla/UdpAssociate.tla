---------------------------- MODULE UdpAssociate ----------------------------
(***************************************************************************)
(* One SOCKS5 UDP association of vpngw-outline-ss-local.  Four goroutines  *)
(* serve it: the handler with the idle timer, the two relays, and a reader *)
(* of the control connection.  They share channels of capacity one and are *)
(* ended by closing done.  A datagram stands for the address it came from: *)
(* the number of the datagram, later ones greater.                         *)
(***************************************************************************)
EXTENDS Naturals

CONSTANTS MaxDatagrams, MaxReplies
ASSUME BoundsAssumption == MaxDatagrams \in Nat /\ MaxReplies \in Nat

VARIABLES
  main,              \* the handler
  timer,             \* the idle timer
  control,           \* the control connection is open
  done,              \* done is closed
  activity,          \* there is a token in activity
  clientAddrCh,      \* the address in the channel; 0: none
  controlDone,       \* there is a result in controlDone
  up, clientAddr,    \* client to tunnel, and the address it has in hand
  down, replyAddr,   \* tunnel to client, and where replies go; 0: nil
  reader,            \* the reader of the control connection
  stored,            \* history: the last address put in the channel
  datagrams, replies

relays == <<up, clientAddr, down, replyAddr, clientAddrCh, stored, datagrams, replies>>
vars == <<main, timer, control, done, activity, controlDone, reader, relays>>

TypeOK ==
  /\ main \in {"start", "select", "expired", "return", "ended"}
  /\ timer \in {"running", "expired"}
  /\ {control, done, activity, controlDone} \subseteq BOOLEAN
  /\ up \in {"none", "read", "signal", "offer", "drain", "put", "ended"}
  /\ down \in {"none", "wait", "read", "signal", "deliver", "ended"}
  /\ reader \in {"none", "copy", "ended"}
  /\ {clientAddrCh, clientAddr, replyAddr, stored, datagrams, replies} \subseteq Nat

---------------------------------------------------------------------------
(* The handler.                                                            *)

\* A socket cannot be had: no goroutine is started.
StartFails ==
  /\ main = "start" /\ main' = "return"
  /\ UNCHANGED <<timer, control, done, activity, controlDone, reader, relays>>

Start ==
  /\ main = "start" /\ main' = "select"
  /\ up' = "read" /\ down' = "wait" /\ reader' = "copy"
  /\ UNCHANGED <<timer, control, done, activity, controlDone, clientAddr, replyAddr,
                 clientAddrCh, stored, datagrams, replies>>

ControlEnds ==
  /\ main = "select" /\ controlDone
  /\ controlDone' = FALSE /\ done' = TRUE
  /\ main' = "return"
  /\ UNCHANGED <<timer, control, activity, reader, relays>>

Active ==
  /\ main = "select" /\ activity
  /\ activity' = FALSE /\ timer' = "running"
  /\ UNCHANGED <<main, control, done, controlDone, reader, relays>>

Expires ==
  /\ main = "select" /\ timer = "expired"
  /\ control' = FALSE /\ main' = "expired"
  /\ UNCHANGED <<timer, done, activity, controlDone, reader, relays>>

\* Mutant: the relays are left to find out from their sockets.
IdleReturnsOnly ==
  /\ main = "expired" /\ main' = "return"
  /\ UNCHANGED <<timer, control, done, activity, controlDone, reader, relays>>

IdleReturns ==
  /\ main = "expired" /\ main' = "return"
  /\ done' = TRUE
  /\ UNCHANGED <<timer, control, activity, controlDone, reader, relays>>

\* The deferred calls close both sockets and the control connection.
Return ==
  /\ main = "return" /\ main' = "ended"
  /\ control' = FALSE
  /\ UNCHANGED <<timer, done, activity, controlDone, reader, relays>>

\* What the client sends on the control connection is thrown away.
ReaderEnds ==
  /\ reader = "copy" /\ ~control
  /\ controlDone' = TRUE /\ reader' = "ended"
  /\ UNCHANGED <<main, timer, control, done, activity, relays>>

TimerFires ==
  /\ main = "select" /\ timer = "running"
  /\ timer' = "expired"
  /\ UNCHANGED <<main, control, done, activity, controlDone, reader, relays>>

ClientCloses ==
  /\ control /\ control' = FALSE
  /\ UNCHANGED <<main, timer, done, activity, controlDone, reader, relays>>

---------------------------------------------------------------------------
(* relaySocksUDPToShadow.  A read that times out is a stuttering step.     *)

UpFrame == UNCHANGED <<main, timer, control, done, controlDone, down, replyAddr, reader, replies>>

UpReads ==
  /\ up = "read" /\ ~done /\ datagrams < MaxDatagrams
  /\ datagrams' = datagrams + 1 /\ clientAddr' = datagrams'
  /\ up' = "signal"
  /\ UpFrame /\ UNCHANGED <<activity, clientAddrCh, stored>>

UpFails ==
  /\ up = "read" /\ ~done /\ up' = "ended"
  /\ UpFrame /\ UNCHANGED <<activity, clientAddr, clientAddrCh, stored, datagrams>>

\* A closed socket ends a read as well.
UpStops ==
  /\ up = "read" /\ (done \/ main = "ended") /\ up' = "ended"
  /\ UpFrame /\ UNCHANGED <<activity, clientAddr, clientAddrCh, stored, datagrams>>

\* A datagram that cannot be parsed counts as activity all the same.
UpSignals ==
  /\ up = "signal"
  /\ activity' = TRUE
  /\ up' \in {"read", "offer"}
  /\ UpFrame /\ UNCHANGED <<clientAddr, clientAddrCh, stored, datagrams>>

\* Mutant: an address that does not fit is dropped.
OfferOnce ==
  /\ up = "offer"
  /\ stored' = clientAddr
  /\ clientAddrCh' = IF clientAddrCh = 0 THEN clientAddr ELSE clientAddrCh
  /\ up' = "read"
  /\ UpFrame /\ UNCHANGED <<activity, clientAddr, datagrams>>

Offer ==
  /\ up = "offer"
  /\ IF clientAddrCh = 0
       THEN clientAddrCh' = clientAddr /\ stored' = clientAddr /\ up' = "read"
       ELSE up' = "drain" /\ UNCHANGED <<clientAddrCh, stored>>
  /\ UpFrame /\ UNCHANGED <<activity, clientAddr, datagrams>>

\* Mutant: the old address stays in the channel.
DrainNothing ==
  /\ up = "drain" /\ up' = "put"
  /\ UpFrame /\ UNCHANGED <<activity, clientAddr, clientAddrCh, stored, datagrams>>

\* The other relay may have taken the address since.
Drain ==
  /\ up = "drain" /\ up' = "put"
  /\ clientAddrCh' = 0
  /\ UpFrame /\ UNCHANGED <<activity, clientAddr, stored, datagrams>>

\* A send that blocks while the channel is full.
Put ==
  /\ up = "put" /\ clientAddrCh = 0
  /\ clientAddrCh' = clientAddr /\ stored' = clientAddr
  /\ up' = "read"
  /\ UpFrame /\ UNCHANGED <<activity, clientAddr, datagrams>>

---------------------------------------------------------------------------
(* relayShadowUDPToSocks.                                                  *)

DownFrame ==
  UNCHANGED <<main, timer, control, done, controlDone, up, clientAddr, reader, stored, datagrams>>

TakeAddr == clientAddrCh # 0 /\ replyAddr' = clientAddrCh /\ clientAddrCh' = 0
TakeAddrIfAny == TakeAddr \/ (clientAddrCh = 0 /\ UNCHANGED <<replyAddr, clientAddrCh>>)

DownStops ==
  /\ \/ down \in {"wait", "read"} /\ done
     \/ down = "read" /\ main = "ended"
  /\ down' = "ended"
  /\ DownFrame /\ UNCHANGED <<activity, replyAddr, clientAddrCh, replies>>

DownLearns ==
  /\ down = "wait" /\ TakeAddr
  /\ down' = "read"
  /\ DownFrame /\ UNCHANGED <<activity, replies>>

DownTimesOut ==
  /\ down = "read" /\ ~done /\ TakeAddr
  /\ DownFrame /\ UNCHANGED <<activity, down, replies>>

DownReads ==
  /\ down = "read" /\ ~done /\ replies < MaxReplies
  /\ replies' = replies + 1 /\ down' = "signal"
  /\ DownFrame /\ UNCHANGED <<activity, replyAddr, clientAddrCh>>

\* The server refuses, or a packet does not decrypt: replies end for good.
DownFails ==
  /\ down = "read" /\ ~done /\ down' = "ended"
  /\ DownFrame /\ UNCHANGED <<activity, replyAddr, clientAddrCh, replies>>

DownSignals ==
  /\ down = "signal" /\ down' = "deliver"
  /\ activity' = TRUE
  /\ DownFrame /\ UNCHANGED <<replyAddr, clientAddrCh, replies>>

Deliver ==
  /\ down = "deliver" /\ TakeAddrIfAny
  /\ down' = "read"
  /\ DownFrame /\ UNCHANGED <<activity, replies>>

---------------------------------------------------------------------------
Init ==
  /\ main = "start" /\ timer = "running" /\ control = TRUE
  /\ done = FALSE /\ activity = FALSE /\ controlDone = FALSE
  /\ up = "none" /\ down = "none" /\ reader = "none"
  /\ clientAddrCh = 0 /\ clientAddr = 0 /\ replyAddr = 0 /\ stored = 0
  /\ datagrams = 0 /\ replies = 0

Main == StartFails \/ Start \/ ControlEnds \/ Active \/ Expires \/ IdleReturns \/ Return
UpRuns == UpStops \/ UpSignals \/ Offer \/ Drain \/ Put
DownRuns == DownStops \/ DownLearns \/ DownSignals \/ Deliver
World == ClientCloses \/ UpReads \/ UpFails \/ DownTimesOut \/ DownReads \/ DownFails

Next == Main \/ UpRuns \/ DownRuns \/ ReaderEnds \/ TimerFires \/ World

Spec == Init /\ [][Next]_vars

\* Goroutines run and the timer fires.  Nothing is assumed of the client and
\* of the tunnel: no datagram, reply, error or close need ever come.
FairSpec ==
  /\ Spec
  /\ WF_vars(Main) /\ WF_vars(UpRuns) /\ WF_vars(DownRuns)
  /\ WF_vars(ReaderEnds) /\ WF_vars(TimerFires)

---------------------------------------------------------------------------
(* Properties.                                                             *)

\* The second send of an address (main.go:304) never blocks the relay.
PutReady == up = "put" => clientAddrCh = 0

\* The last address stored is on its way to the other relay or is the one in
\* use there, unless a newer one is about to take its place.
AddressKept == stored \in {clientAddrCh, replyAddr} \/ up = "put"

\* When the traffic ends, or the client leaves, every goroutine ends.
AllEnd == <>(main = "ended" /\ {up, down, reader} \subseteq {"none", "ended"})
===========================================================================
