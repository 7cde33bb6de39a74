--------------------------- MODULE SysexLibrarian ---------------------------
(***************************************************************************)
(* The SysEx librarian's two senders: the job that sends a list of dumps,  *)
(* with or without the F7 handshake (tick_send), and the identity wizard   *)
(* (tick_wizard).  Both move on UI frames; dumps arrive on the engine      *)
(* thread in between, and the user touches the panel at any time.          *)
(*                                                                         *)
(* A deadline is the fact that it has passed.  The ghost variables record  *)
(* what the selected output's driver accepted and what came back.          *)
(***************************************************************************)
EXTENDS Naturals

CONSTANTS
  MaxDumps,   \* longest list of dumps the user queues
  Tries,      \* retries of a dump, and of an identity request (2 in the code)
  Faulty,     \* whether the driver may refuse
  MaxAsks     \* bound: jobs and wizards the user starts

VARIABLES
  armed, handshake, got_f7, identity_note,   \* Librarian
  send_job, wizard,
  is_open,     \* whether the selected output is open
  told,        \* what the status line last said of a job
  asks,        \* jobs and wizards started so far
  lastSent,    \* ghost: dumps of the current job the driver has accepted
  heard        \* ghost: a dump was received since the last one accepted

panel  == <<armed, handshake, is_open>>
jobs   == <<send_job, told, lastSent, heard>>
wiz    == <<wizard, identity_note>>
vars   == <<panel, jobs, wiz, got_f7, asks>>

ASSUME LibrarianConstants ==
  /\ MaxDumps \in Nat \ {0} /\ Tries \in Nat /\ MaxAsks \in Nat
  /\ Faulty \in BOOLEAN

Idle == [state |-> "idle"]

Jobs == [state : {"active"}, dumps : 1..MaxDumps, index : 0..(MaxDumps - 1),
         handshake : BOOLEAN, waiting : BOOLEAN, tries : 0..Tries, due : BOOLEAN]

Identify == [state : {"identify"}, left : 0..Tries, due : BOOLEAN]

Active == send_job # Idle

(* What the driver may answer.                                             *)
Answers == IF ~is_open THEN {FALSE} ELSE IF Faulty THEN BOOLEAN ELSE {TRUE}

-----------------------------------------------------------------------------
(* Environment                                                             *)

(* A whole dump arrives from any input: an answer, a late answer, or       *)
(* something nobody asked for.  Some dumps fill the identity note.         *)
OnPacket ==
  /\ heard' = (heard \/ armed)
  /\ IF armed
     THEN got_f7' = TRUE /\ identity_note' \in {identity_note, TRUE}
     ELSE UNCHANGED <<got_f7, identity_note>>
  /\ UNCHANGED <<panel, send_job, told, lastSent, wizard, asks>>

Deadline ==
  \/ /\ Active /\ ~send_job.due
     /\ send_job' = [send_job EXCEPT !.due = TRUE]
     /\ UNCHANGED <<panel, told, lastSent, heard, wiz, got_f7, asks>>
  \/ /\ wizard # Idle /\ ~wizard.due
     /\ wizard' = [wizard EXCEPT !.due = TRUE]
     /\ UNCHANGED <<panel, jobs, identity_note, got_f7, asks>>

-----------------------------------------------------------------------------
(* tick_send                                                               *)

Finish(how) == send_job' = Idle /\ told' = how

(* Mutant of Advance: the end of the list is missed by one.                *)
AdvanceShort(next) ==
  IF next + 1 >= send_job.dumps THEN Finish("sent")
  ELSE /\ send_job' = [send_job EXCEPT !.index = next, !.waiting = FALSE,
                                       !.tries = Tries, !.due = FALSE]
       /\ UNCHANGED told

(* advance_send                                                            *)
Advance(next) ==
  IF next >= send_job.dumps THEN Finish("sent")
  ELSE /\ send_job' = [send_job EXCEPT !.index = next, !.waiting = FALSE,
                                       !.tries = Tries, !.due = FALSE]
       /\ UNCHANGED told

(* Mutants of AwaitF7: an earlier dump passes for the answer; the job is   *)
(* moved to the next dump while it waits, and again when the answer comes. *)
AwaitAnyF7(tries) ==
  /\ UNCHANGED <<got_f7, told>>
  /\ send_job' = [send_job EXCEPT !.waiting = TRUE, !.tries = tries, !.due = FALSE]

AwaitNext(tries) ==
  /\ got_f7' = FALSE
  /\ send_job' = [send_job EXCEPT !.index = @ + 1, !.waiting = TRUE, !.tries = tries, !.due = FALSE]
  /\ UNCHANGED told

AwaitF7(tries) ==
  /\ got_f7' = FALSE
  /\ send_job' = [send_job EXCEPT !.waiting = TRUE, !.tries = tries, !.due = FALSE]
  /\ UNCHANGED told

(* What the driver accepts, as it sees it.                                 *)
Accepted == lastSent' = send_job.index + 1 /\ heard' = FALSE

(* send_one: the last dump of a job is not waited for.                     *)
SendOne(tries) ==
  \E ok \in Answers :
    IF ok
    THEN /\ Accepted
         /\ \/ send_job.index + 1 >= send_job.dumps /\ Finish("sent") /\ UNCHANGED got_f7
            \/ send_job.index + 1 < send_job.dumps /\ send_job.handshake /\ AwaitF7(tries)
            \/ /\ send_job.index + 1 < send_job.dumps /\ ~send_job.handshake
               /\ Advance(send_job.index + 1) /\ UNCHANGED got_f7
    ELSE Finish("failed") /\ UNCHANGED <<got_f7, lastSent, heard>>

Answered ==
  /\ send_job.waiting /\ got_f7
  /\ got_f7' = FALSE
  /\ Advance(send_job.index + 1)
  /\ UNCHANGED <<lastSent, heard>>

(* Mutant of TimedOut: every retry allows the full number again.           *)
TimedOutAgain ==
  /\ send_job.waiting /\ ~got_f7 /\ send_job.due
  /\ SendOne(Tries)

TimedOut ==
  /\ send_job.waiting /\ ~got_f7 /\ send_job.due
  /\ IF send_job.tries > 0 THEN SendOne(send_job.tries - 1)
     ELSE Finish("timeout") /\ UNCHANGED <<got_f7, lastSent, heard>>

(* advance_send never leaves a job beyond its last dump.                   *)
SendDue == ~send_job.waiting /\ send_job.due /\ SendOne(Tries)

NotYet ==
  /\ ~send_job.due /\ ~(send_job.waiting /\ got_f7)
  /\ UNCHANGED <<jobs, got_f7>>

TickJob ==
  IF Active THEN Answered \/ TimedOut \/ SendDue \/ NotYet ELSE UNCHANGED <<jobs, got_f7>>

Ask == [state |-> "identify", left |-> wizard.left - 1, due |-> FALSE]

(* tick_wizard                                                             *)
TickWizard ==
  /\ UNCHANGED identity_note
  /\ \/ wizard = Idle /\ UNCHANGED wizard
     \/ wizard # Idle /\ identity_note /\ wizard' = Idle
     \/ wizard # Idle /\ ~identity_note /\ ~wizard.due /\ UNCHANGED wizard
     \/ wizard # Idle /\ ~identity_note /\ wizard.due /\ wizard.left = 0 /\ wizard' = Idle
     \/ /\ wizard # Idle /\ ~identity_note /\ wizard.due /\ wizard.left > 0
        /\ \E ok \in Answers : wizard' = IF ok THEN Ask ELSE Idle

(* One UI frame.                                                           *)
TickSend == TickWizard /\ TickJob /\ UNCHANGED <<panel, asks>>

-----------------------------------------------------------------------------
(* User                                                                    *)

(* set_output_open of the selected output: whether it is open afterwards.  *)
Opened == IF is_open \/ ~Faulty THEN {TRUE} ELSE BOOLEAN

(* queue_send replaces a job that is still running.                        *)
QueueSend(n) ==
  /\ asks < MaxAsks /\ asks' = asks + 1
  /\ \E ok \in Opened :
       /\ is_open' = ok
       /\ IF ok
          THEN /\ got_f7' = FALSE
               /\ send_job' = [state |-> "active", dumps |-> n, index |-> 0,
                               handshake |-> handshake, waiting |-> FALSE,
                               tries |-> Tries, due |-> TRUE]
               /\ told' = "nothing" /\ lastSent' = 0 /\ heard' = FALSE
          ELSE UNCHANGED <<got_f7, jobs>>
  /\ UNCHANGED <<armed, handshake, wiz>>

(* start_wizard                                                            *)
StartWizard ==
  /\ asks < MaxAsks /\ asks' = asks + 1
  /\ \E ok \in Opened :
       /\ is_open' = ok
       /\ IF ok
          THEN /\ armed' = TRUE /\ identity_note' = FALSE
               /\ \E sent \in (IF Faulty THEN BOOLEAN ELSE {TRUE}) :
                    wizard' = IF sent THEN [state |-> "identify", left |-> Tries, due |-> FALSE] ELSE wizard
          ELSE UNCHANGED <<armed, wiz>>
  /\ UNCHANGED <<handshake, jobs, got_f7>>

(* The Identity, MIDI-CI and pack buttons arm the librarian and send one   *)
(* request, past a running job.                                            *)
SendRequest ==
  /\ \E ok \in Opened : is_open' = ok /\ armed' = (armed \/ ok)
  /\ UNCHANGED <<handshake, jobs, wiz, got_f7, asks>>

ClearDumps ==
  /\ wizard' = Idle /\ identity_note' = FALSE
  /\ UNCHANGED <<panel, jobs, got_f7, asks>>

(* The checkboxes, and the output closed in another panel.                 *)
SetPanel ==
  /\ \/ armed' \in BOOLEAN /\ UNCHANGED <<handshake, is_open>>
     \/ handshake' \in BOOLEAN /\ UNCHANGED <<armed, is_open>>
     \/ is_open' = FALSE /\ UNCHANGED <<armed, handshake>>
  /\ UNCHANGED <<jobs, wiz, got_f7, asks>>

User == (\E n \in 1..MaxDumps : QueueSend(n)) \/ StartWizard \/ SendRequest \/ ClearDumps \/ SetPanel

-----------------------------------------------------------------------------
Init ==
  /\ armed = FALSE /\ handshake = FALSE /\ got_f7 = FALSE /\ identity_note = FALSE
  /\ send_job = Idle /\ wizard = Idle /\ is_open = FALSE /\ told = "nothing"
  /\ asks = 0 /\ lastSent = 0 /\ heard = FALSE

Next == OnPacket \/ Deadline \/ TickSend \/ User

Spec == Init /\ [][Next]_vars

(* The UI asks for a frame every 16 ms, and time passes for both senders.  *)
FairSpec ==
  /\ Spec
  /\ WF_vars(TickSend)
  /\ WF_vars(Deadline /\ send_job' # send_job)
  /\ WF_vars(Deadline /\ wizard' # wizard)

-----------------------------------------------------------------------------
(* Properties                                                              *)

(* The librarian's fields and the ghosts hold what they can, and a job is  *)
(* always at one of its dumps.                                             *)
TypeOK ==
  /\ armed \in BOOLEAN /\ handshake \in BOOLEAN /\ got_f7 \in BOOLEAN
  /\ identity_note \in BOOLEAN /\ is_open \in BOOLEAN /\ heard \in BOOLEAN
  /\ send_job \in Jobs \cup {Idle} /\ (Active => send_job.index < send_job.dumps)
  /\ wizard \in Identify \cup {Idle}
  /\ told \in {"nothing", "sent", "failed", "timeout"}
  /\ asks \in 0..MaxAsks
  /\ lastSent \in 0..MaxDumps

(* "Handshake": the next dump of a job is not sent before an F7 has come   *)
(* back since the dump before it was last sent, retries included; a        *)
(* timeout repeats a dump or ends the job but never moves on.              *)
HandshakeHolds ==
  [][send_job # Idle /\ send_job.handshake /\ lastSent > 0 /\ lastSent' = lastSent + 1
       => heard]_vars

(* Dumps of a job leave in order, none is skipped.                         *)
InSequence == [][lastSent' \in {0, lastSent, lastSent + 1}]_vars

(* "Sent n SysEx dump(s)" is only said when the driver accepted them all.  *)
SaidSent == [][Active /\ told' = "sent" => lastSent' = send_job.dumps]_vars

(* Every job and every wizard comes to an end, though no answer ever comes.*)
JobEnds == (Active ~> ~Active) /\ (wizard # Idle ~> wizard = Idle)

(* Strengthening: a job in progress has sent exactly the dumps before the  *)
(* one it is at, and that one too while it waits; an F7 that it has not    *)
(* consumed since came after the dump it waits for.                        *)
JobInv ==
  /\ Active => /\ lastSent = send_job.index + (IF send_job.waiting THEN 1 ELSE 0)
               /\ told = "nothing"
               /\ send_job.waiting => send_job.handshake /\ send_job.index + 1 < send_job.dumps
                                      /\ (got_f7 => heard)
               /\ send_job.handshake /\ ~send_job.waiting /\ lastSent > 0 => heard
=============================================================================
