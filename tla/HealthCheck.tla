---------------------------- MODULE HealthCheck ----------------------------
(***************************************************************************)
(* scripts/vpngw-health-check.sh, which a timer runs, the mails it sends   *)
(* with scripts/vpngw-send-email.py, and the settings of these mails       *)
(* (routers/notifications.py).  Of what a run looks at, only whether it    *)
(* finds a problem matters here: it may find one or not at any time.  A    *)
(* run is cut short only when the host goes down.                          *)
(***************************************************************************)
CONSTANTS
  Passwords, NoPassword,  \* of the mail account; none given
  Right                   \* the passwords that the mail server accepts

ASSUME PasswordsAssumption == NoPassword \notin Passwords /\ Right \subseteq Passwords

VARIABLES
  conf,     \* notifications.conf, as it is read
  put,      \* what a request is about to write into it, after truncating it
  flagged,  \* the boot flag is there
  stored,   \* the state file; "none" if there is none
  at,       \* what the run does next
  found,    \* its current_state
  prev,     \* its prev_state
  tried,    \* history: the last mail a run has tried to send
  told      \* history: the last mail of a run that has arrived

healthVars == <<conf, put, flagged, stored, at, found, prev, tried, told>>

Settings == [enabled : BOOLEAN, password : Passwords \cup {NoPassword}]
States == {"OK", "PROBLEM"}
Mails == {"REBOOT", "ALERT", "RESOLVED"}

\* An empty file; one that is missing makes the mail fail just so.
Empty == [enabled |-> FALSE, password |-> NoPassword]

---------------------------------------------------------------------------
(* routers/notifications.py.                                               *)

\* PUT /config.  A password that is not given is the one there was.
Put(asked) ==
  /\ put = {}
  /\ put' = {IF asked.password = NoPassword THEN [asked EXCEPT !.password = conf.password] ELSE asked}
  /\ conf' = Empty
  /\ UNCHANGED <<flagged, stored, at, found, prev, tried, told>>

Write ==
  /\ put # {}
  /\ conf' \in put /\ put' = {}
  /\ UNCHANGED <<flagged, stored, at, found, prev, tried, told>>

ApiDies == put' = {} /\ UNCHANGED <<conf, flagged, stored, at, found, prev, tried, told>>

---------------------------------------------------------------------------
(* vpngw-health-check.sh.                                                  *)

\* vpngw-send-email.py: it arrives if the settings are right, unless the server
\* cannot be reached.  Whoever runs it goes on in either case.
Sends(mail) ==
  /\ tried' = mail
  /\ \/ conf.enabled /\ conf.password \in Right /\ told' = mail
     \/ UNCHANGED told

\* The timer; a run that has not ended is not started again.
Begin ==
  /\ at = "none"
  /\ at' = IF flagged THEN "check" ELSE "greet"
  /\ UNCHANGED <<conf, put, flagged, stored, found, prev, tried, told>>

Greet ==
  /\ at = "greet" /\ at' = "flag"
  /\ Sends("REBOOT")
  /\ UNCHANGED <<conf, put, flagged, stored, found, prev>>

Flag ==
  /\ at = "flag" /\ at' = "check"
  /\ flagged' = TRUE
  /\ UNCHANGED <<conf, put, stored, found, prev, tried, told>>

Check ==
  /\ at = "check" /\ at' = "mail"
  /\ found' \in States /\ prev' = stored
  /\ UNCHANGED <<conf, put, flagged, stored, tried, told>>

\* Mutant: what the first check after a boot finds is no change.
DueLater ==
  IF found = "PROBLEM" /\ prev = "OK" THEN {"ALERT"}
  ELSE IF found = "OK" /\ prev = "PROBLEM" THEN {"RESOLVED"} ELSE {}

\* The mail about a change, if there is one.
Due ==
  IF found = "PROBLEM" /\ prev # "PROBLEM" THEN {"ALERT"}
  ELSE IF found = "OK" /\ prev = "PROBLEM" THEN {"RESOLVED"} ELSE {}

Notify ==
  /\ at = "mail" /\ at' = "store"
  /\ IF Due = {} THEN UNCHANGED <<tried, told>> ELSE \E mail \in Due : Sends(mail)
  /\ UNCHANGED <<conf, put, flagged, stored, found, prev>>

\* Whether the mail has arrived or not.
Store ==
  /\ at = "store" /\ at' = "none"
  /\ stored' = found
  /\ UNCHANGED <<conf, put, flagged, found, prev, tried, told>>

\* At any time; it takes all of /tmp with it.
Reboot ==
  /\ flagged' = FALSE /\ stored' = "none" /\ at' = "none" /\ put' = {}
  /\ UNCHANGED <<conf, found, prev, tried, told>>

---------------------------------------------------------------------------
HealthInit ==
  /\ conf \in Settings /\ put = {}
  /\ flagged = FALSE /\ stored = "none"
  /\ at = "none" /\ found = "OK" /\ prev = "none"
  /\ tried = "none" /\ told = "none"

HealthNext ==
  \/ \E asked \in Settings : Put(asked)
  \/ Write \/ ApiDies
  \/ Begin \/ Greet \/ Flag \/ Check \/ Notify \/ Store
  \/ Reboot

HealthSpec == HealthInit /\ [][HealthNext]_healthVars

---------------------------------------------------------------------------
(* Properties.                                                             *)

HealthTypeOK ==
  /\ conf \in Settings /\ put \subseteq Settings
  /\ flagged \in BOOLEAN /\ stored \in States \cup {"none"}
  /\ at \in {"none", "greet", "flag", "check", "mail", "store"}
  /\ found \in States /\ prev \in States \cup {"none"}
  /\ tried \in Mails \cup {"none"} /\ told \in Mails \cup {"none"}

\* Between two runs, who has the last mail sent knows whether there is a problem,
\* whichever mails were lost before it and however often the host went down.
LastMailTrue ==
  at = "none" /\ flagged /\ told = tried => (stored = "PROBLEM" <=> told = "ALERT")

\* No mail about a change repeats the mail tried before it, whether that one
\* arrived or not, and however often the host goes down in between.
NoMailTwice == [][at = "mail" /\ at' = "store" => tried \notin Due]_healthVars
===========================================================================
