----------------------- MODULE SysexLibrarian_proofs -----------------------
(***************************************************************************)
(* The safety of the librarian's send job for any number of dumps, retries *)
(* and jobs.  The invariant JobInv ties what the driver has accepted to    *)
(* where the job is; the three action properties follow from it.           *)
(***************************************************************************)
EXTENDS SysexLibrarian, TLAPS

JobFields == jobs' = jobs /\ got_f7' = got_f7

LEMMA JobShape ==
  ASSUME TypeOK, Active
  PROVE  /\ send_job \in Jobs /\ send_job.state = "active" /\ send_job.index < send_job.dumps
         /\ send_job.dumps \in 1..MaxDumps /\ send_job.index \in 0..(MaxDumps - 1)
         /\ send_job.handshake \in BOOLEAN /\ send_job.waiting \in BOOLEAN
         /\ send_job.tries \in 0..Tries /\ send_job.due \in BOOLEAN
BY DEF TypeOK, Active, Jobs

\* The types of everything but the job.
RestType ==
  /\ armed \in BOOLEAN /\ handshake \in BOOLEAN /\ identity_note \in BOOLEAN /\ is_open \in BOOLEAN
  /\ wizard \in Identify \cup {Idle} /\ asks \in 0..MaxAsks

JobType ==
  /\ got_f7 \in BOOLEAN /\ heard \in BOOLEAN /\ lastSent \in 0..MaxDumps
  /\ send_job \in Jobs \cup {Idle} /\ (Active => send_job.index < send_job.dumps)
  /\ told \in {"nothing", "sent", "failed", "timeout"}

LEMMA TypeParts == (TypeOK <=> RestType /\ JobType) /\ (TypeOK' <=> RestType' /\ JobType')
BY DEF TypeOK, RestType, JobType

JobsKeep == JobType /\ JobInv

LEMMA JobUntouched ==
  ASSUME JobsKeep, JobFields
  PROVE  JobsKeep'
BY DEF JobsKeep, JobFields, jobs, JobType, JobInv, Active

LEMMA JobEnded ==
  ASSUME JobsKeep, send_job' = Idle, told' \in {"sent", "failed", "timeout"}, got_f7' \in BOOLEAN, heard' \in BOOLEAN,
         lastSent' \in 0..MaxDumps
  PROVE  JobsKeep'
BY DEF JobsKeep, JobType, JobInv, Active, Idle

\* A job that goes on.
LEMMA JobGoesOn ==
  ASSUME send_job' \in Jobs, send_job'.state = "active", send_job'.index < send_job'.dumps, told' = "nothing",
         got_f7' \in BOOLEAN, heard' \in BOOLEAN, lastSent' \in 0..MaxDumps,
         lastSent' = send_job'.index + (IF send_job'.waiting THEN 1 ELSE 0),
         send_job'.waiting => send_job'.handshake /\ send_job'.index + 1 < send_job'.dumps /\ (got_f7' => heard'),
         send_job'.handshake /\ ~ send_job'.waiting /\ lastSent' > 0 => heard'
  PROVE  JobsKeep'
<1>1. JobType'
  BY DEF JobType, Active
<1>2. JobInv'
  BY DEF JobInv, Active
<1> QED BY <1>1, <1>2 DEF JobsKeep

\* SendOne, for the first time or again: what follows from the driver's answer.
LEMMA SendOneKeeps ==
  ASSUME JobsKeep, TypeOK, Active, NEW tries \in 0..Tries, SendOne(tries)
  PROVE  /\ JobsKeep'
         /\ lastSent' = lastSent \/ (lastSent' = send_job.index + 1)
         /\ told' = "sent" => lastSent' = send_job.dumps
<1>1. /\ send_job \in Jobs /\ send_job.state = "active" /\ send_job.index < send_job.dumps
      /\ send_job.dumps \in 1..MaxDumps /\ send_job.index \in 0..(MaxDumps - 1)
      /\ send_job.handshake \in BOOLEAN /\ MaxDumps \in Nat /\ Tries \in Nat
      /\ got_f7 \in BOOLEAN /\ lastSent \in 0..MaxDumps /\ heard \in BOOLEAN /\ told = "nothing"
  BY JobShape, LibrarianConstants DEF JobsKeep, JobType, JobInv
<1>2. CASE Finish("failed") /\ UNCHANGED <<got_f7, lastSent, heard>>
  BY <1>1, <1>2, JobEnded DEF Finish
<1>3. CASE Accepted /\ send_job.index + 1 >= send_job.dumps /\ Finish("sent") /\ UNCHANGED got_f7
  <2>1. lastSent' = send_job.dumps /\ lastSent' = send_job.index + 1 /\ heard' = FALSE
    BY <1>1, <1>3 DEF Accepted
  <2>2. send_job' = Idle /\ told' = "sent" /\ got_f7' \in BOOLEAN /\ heard' \in BOOLEAN /\ lastSent' \in 0..MaxDumps
    <3>1. send_job' = Idle /\ told' = "sent" /\ got_f7' = got_f7
      BY <1>3 DEF Finish
    <3>2. lastSent' \in 0..MaxDumps
      BY <1>1, <2>1
    <3>3. got_f7' \in BOOLEAN /\ heard' \in BOOLEAN
      BY <1>1, <2>1, <3>1
    <3> QED BY <3>1, <3>2, <3>3
  <2>3. JobsKeep'
    BY <2>2, JobEnded
  <2> QED BY <2>1, <2>3
<1>4. CASE Accepted /\ send_job.index + 1 < send_job.dumps /\ send_job.handshake /\ AwaitF7(tries)
  <2>1. /\ send_job' = [send_job EXCEPT !.waiting = TRUE, !.tries = tries, !.due = FALSE]
        /\ got_f7' = FALSE /\ told' = "nothing" /\ lastSent' = send_job.index + 1 /\ heard' = FALSE
    BY <1>1, <1>4 DEF AwaitF7, Accepted
  <2>2. /\ send_job' \in Jobs /\ send_job'.state = "active" /\ send_job'.waiting /\ send_job'.handshake
        /\ send_job'.index = send_job.index /\ send_job'.dumps = send_job.dumps
    BY <1>1, <1>4, <2>1 DEF Jobs
  <2>3. JobsKeep'
    <3>1. /\ send_job'.index < send_job'.dumps /\ lastSent' \in 0..MaxDumps
          /\ lastSent' = send_job'.index + (IF send_job'.waiting THEN 1 ELSE 0)
          /\ send_job'.waiting => send_job'.index + 1 < send_job'.dumps
      BY <1>1, <1>4, <2>1, <2>2
    <3>2. got_f7' \in BOOLEAN /\ heard' \in BOOLEAN
      BY <1>1, <2>1
    <3> QED BY <2>1, <2>2, <3>1, <3>2, JobGoesOn
  <2> QED BY <2>1, <2>3
<1>5. CASE Accepted /\ send_job.index + 1 < send_job.dumps /\ ~ send_job.handshake /\ Advance(send_job.index + 1) /\ UNCHANGED got_f7
  <2>1. /\ send_job' = [send_job EXCEPT !.index = send_job.index + 1, !.waiting = FALSE, !.tries = Tries, !.due = FALSE]
        /\ told' = "nothing" /\ lastSent' = send_job.index + 1 /\ heard' = FALSE
    BY <1>1, <1>5 DEF Advance, Accepted
  <2>2. /\ send_job' \in Jobs /\ send_job'.state = "active" /\ ~ send_job'.waiting /\ ~ send_job'.handshake
        /\ send_job'.index = send_job.index + 1 /\ send_job'.dumps = send_job.dumps
    <3>1. send_job.index + 1 \in 0..(MaxDumps - 1) /\ Tries \in 0..Tries
      BY <1>1, <1>5
    <3> QED BY <1>1, <1>5, <2>1, <3>1 DEF Jobs
  <2>3. JobsKeep'
    <3>1. /\ send_job'.index < send_job'.dumps /\ lastSent' \in 0..MaxDumps
          /\ lastSent' = send_job'.index + (IF send_job'.waiting THEN 1 ELSE 0)
          /\ send_job'.waiting => send_job'.index + 1 < send_job'.dumps
      BY <1>1, <1>5, <2>1, <2>2
    <3>2. got_f7' \in BOOLEAN /\ heard' \in BOOLEAN
      BY <1>1, <1>5, <2>1
    <3> QED BY <2>1, <2>2, <3>1, <3>2, JobGoesOn
  <2> QED BY <2>1, <2>3
<1> QED BY <1>2, <1>3, <1>4, <1>5 DEF SendOne

\* One look at the job in a frame.
LEMMA TickJobKeeps ==
  ASSUME JobsKeep, TypeOK, TickJob
  PROVE  /\ JobsKeep'
         /\ send_job # Idle /\ send_job.handshake /\ lastSent > 0 /\ lastSent' = lastSent + 1 => heard
         /\ lastSent' \in {0, lastSent, lastSent + 1}
         /\ Active /\ told' = "sent" => lastSent' = send_job.dumps
<1>1. CASE JobFields
  BY <1>1, JobUntouched DEF JobFields, jobs, JobsKeep, JobInv, JobType
<1>2. CASE Active /\ Answered
  <2>1. /\ send_job \in Jobs /\ send_job.state = "active" /\ send_job.index + 1 < send_job.dumps
        /\ send_job.dumps \in 1..MaxDumps /\ send_job.index \in 0..(MaxDumps - 1) /\ send_job.handshake
        /\ heard /\ told = "nothing" /\ lastSent = send_job.index + 1 /\ MaxDumps \in Nat /\ Tries \in Nat
        /\ lastSent \in 0..MaxDumps
    BY <1>2, JobShape, LibrarianConstants DEF JobsKeep, JobInv, JobType, Answered
  <2>2. /\ send_job' = [send_job EXCEPT !.index = send_job.index + 1, !.waiting = FALSE, !.tries = Tries, !.due = FALSE]
        /\ told' = "nothing" /\ lastSent' = lastSent /\ heard' = heard /\ got_f7' = FALSE
    BY <1>2, <2>1 DEF Answered, Advance
  <2>3. /\ send_job' \in Jobs /\ send_job'.state = "active" /\ ~ send_job'.waiting
        /\ send_job'.index = send_job.index + 1 /\ send_job'.dumps = send_job.dumps
    <3>1. send_job.index + 1 \in 0..(MaxDumps - 1) /\ Tries \in 0..Tries
      BY <2>1
    <3> QED BY <2>1, <2>2, <3>1 DEF Jobs
  <2>4. JobsKeep'
    <3>1. /\ send_job'.index < send_job'.dumps /\ lastSent' \in 0..MaxDumps
          /\ lastSent' = send_job'.index + (IF send_job'.waiting THEN 1 ELSE 0)
          /\ send_job'.waiting => send_job'.index + 1 < send_job'.dumps
      BY <2>1, <2>2, <2>3
    <3>2. got_f7' \in BOOLEAN /\ heard' \in BOOLEAN
      BY <2>1, <2>2
    <3> QED BY <2>1, <2>2, <2>3, <3>1, <3>2, JobGoesOn
  <2> QED BY <2>1, <2>2, <2>4
<1>3. CASE Active /\ (TimedOut \/ SendDue)
  <2>1. lastSent = send_job.index + (IF send_job.waiting THEN 1 ELSE 0) /\ told = "nothing" /\ lastSent \in Nat
        /\ send_job.index \in Nat /\ send_job.waiting \in BOOLEAN
        /\ (send_job.handshake /\ ~ send_job.waiting /\ lastSent > 0 => heard)
    BY <1>3, JobShape DEF JobsKeep, JobInv, JobType
  <2>2. CASE \E tries \in 0..Tries : SendOne(tries)
    <3>1. /\ JobsKeep' /\ (lastSent' = lastSent \/ lastSent' = send_job.index + 1)
          /\ told' = "sent" => lastSent' = send_job.dumps
      BY <1>3, <2>2, SendOneKeeps
    <3> QED BY <2>1, <3>1
  <2>3. CASE Finish("timeout") /\ UNCHANGED <<got_f7, lastSent, heard>>
    BY <2>1, <2>3, JobEnded DEF Finish, JobsKeep, JobType
  <2>4. send_job.tries > 0 => send_job.tries - 1 \in 0..Tries
    BY <1>3, JobShape, LibrarianConstants
  <2>5. Tries \in 0..Tries
    BY LibrarianConstants
  <2> QED BY <1>3, <2>2, <2>3, <2>4, <2>5 DEF TimedOut, SendDue
<1> QED BY <1>1, <1>2, <1>3 DEF TickJob, NotYet, JobFields, jobs

\* The rest of the panel.
LEMMA RestKeeps ==
  ASSUME TypeOK, Next
  PROVE  RestType'
<1>1. RestType /\ Tries \in Nat /\ MaxAsks \in Nat
  BY TypeParts, LibrarianConstants
<1> USE DEF RestType, panel, wiz
<1>2. CASE OnPacket
  BY <1>1, <1>2 DEF OnPacket
<1>3. CASE Deadline
  <2>1. wizard \in Identify => [wizard EXCEPT !.due = TRUE] \in Identify
    BY DEF Identify
  <2> QED BY <1>1, <1>3, <2>1 DEF Deadline
<1>4. CASE TickSend
  <2>1. wizard \in Identify /\ wizard.left > 0 => Ask \in Identify
    BY <1>1 DEF Ask, Identify
  <2> QED BY <1>1, <1>4, <2>1 DEF TickSend, TickWizard
<1>5. CASE User
  <2>1. [state |-> "identify", left |-> Tries, due |-> FALSE] \in Identify
    BY <1>1 DEF Identify
  <2>2. Opened \subseteq BOOLEAN
    BY DEF Opened
  <2>3. CASE StartWizard
    <3>1. asks' \in 0..MaxAsks
      BY <1>1, <2>3 DEF StartWizard
    <3>2. wizard' \in Identify \cup {Idle}
      BY <1>1, <2>1, <2>3 DEF StartWizard
    <3>3. armed' \in BOOLEAN /\ identity_note' \in BOOLEAN /\ is_open' \in BOOLEAN /\ handshake' \in BOOLEAN
      BY <1>1, <2>2, <2>3 DEF StartWizard
    <3> QED BY <3>1, <3>2, <3>3
  <2>4. CASE \E n \in 1..MaxDumps : QueueSend(n)
    BY <1>1, <2>2, <2>4 DEF QueueSend
  <2>5. CASE SendRequest
    BY <1>1, <2>2, <2>5 DEF SendRequest
  <2>6. CASE ClearDumps \/ SetPanel
    BY <1>1, <2>6 DEF ClearDumps, SetPanel
  <2> QED BY <1>5, <2>3, <2>4, <2>5, <2>6 DEF User
<1> QED BY <1>2, <1>3, <1>4, <1>5 DEF Next

\* Every step keeps the invariant and is one that the properties allow.
Allowed ==
  /\ send_job # Idle /\ send_job.handshake /\ lastSent > 0 /\ lastSent' = lastSent + 1 => heard
  /\ lastSent' \in {0, lastSent, lastSent + 1}
  /\ Active /\ told' = "sent" => lastSent' = send_job.dumps

LEMMA JobStep ==
  ASSUME TypeOK, JobInv, [Next]_vars
  PROVE  TypeOK' /\ JobInv' /\ Allowed
<1>1. JobsKeep /\ RestType /\ LibrarianConstants
  BY TypeParts, LibrarianConstants DEF JobsKeep
<1>2. Active => told = "nothing"
  BY DEF JobInv
<1>3. lastSent \in Nat
  BY DEF TypeOK
<1>4. UNCHANGED <<lastSent, told>> => Allowed
  BY <1>2, <1>3 DEF Allowed
<1>5. CASE UNCHANGED vars
  <2>1. JobsKeep'
    BY <1>1, <1>5, JobUntouched DEF vars, jobs, JobFields
  <2>2. RestType'
    BY <1>1, <1>5 DEF vars, panel, wiz, RestType
  <2> QED BY <1>4, <1>5, <2>1, <2>2, TypeParts DEF vars, jobs, JobsKeep
<1>6. CASE Next
  <2>1. JobsKeep' /\ Allowed
    <3>1. CASE OnPacket
      <4>1. JobType' /\ JobInv'
        BY <1>1, <3>1 DEF OnPacket, JobsKeep, JobType, JobInv, Active
      <4> QED BY <1>4, <3>1, <4>1 DEF OnPacket, JobsKeep
    <3>2. CASE Deadline
      <4>1. CASE JobFields
        BY <1>1, <1>4, <4>1, JobUntouched DEF JobFields, jobs
      <4>2. CASE /\ Active /\ send_job' = [send_job EXCEPT !.due = TRUE]
                 /\ UNCHANGED <<told, lastSent, heard, got_f7>>
        <5>1. /\ send_job \in Jobs /\ send_job' \in Jobs /\ send_job'.state = "active" /\ send_job'.index = send_job.index
              /\ send_job'.dumps = send_job.dumps /\ send_job'.waiting = send_job.waiting
              /\ send_job'.handshake = send_job.handshake
          BY <4>2, JobShape DEF Jobs
        <5>2. JobType' /\ JobInv'
          BY <1>1, <4>2, <5>1 DEF JobsKeep, JobType, JobInv, Active
        <5> QED BY <1>4, <4>2, <5>2 DEF JobsKeep
      <4> QED BY <3>2, <4>1, <4>2 DEF Deadline, JobFields
    <3>3. CASE TickSend
      BY <1>1, <3>3, TickJobKeeps DEF TickSend, Allowed
    <3>4. ASSUME NEW n \in 1..MaxDumps, QueueSend(n) PROVE JobsKeep' /\ Allowed
      <4>1. CASE JobFields
        BY <1>1, <1>4, <4>1, JobUntouched DEF JobFields, jobs
      <4>2. CASE /\ send_job' = [state |-> "active", dumps |-> n, index |-> 0, handshake |-> handshake, waiting |-> FALSE,
                                 tries |-> Tries, due |-> TRUE]
                 /\ got_f7' = FALSE /\ told' = "nothing" /\ lastSent' = 0 /\ heard' = FALSE
        <5>1. /\ send_job' \in Jobs /\ send_job'.state = "active" /\ send_job'.index = 0 /\ send_job'.dumps = n
              /\ send_job'.waiting = FALSE
          BY <1>1, <4>2 DEF Jobs, RestType, LibrarianConstants
        <5>2. 0 < n /\ 0 \in 0..MaxDumps
          BY <1>1 DEF LibrarianConstants
        <5>3. got_f7' \in BOOLEAN /\ heard' \in BOOLEAN /\ lastSent' = 0 /\ told' = "nothing"
          BY <4>2
        <5>4. JobsKeep'
          BY <5>1, <5>2, <5>3, JobGoesOn
        <5>5. Allowed
          BY <1>3, <4>2 DEF Allowed
        <5> QED BY <5>4, <5>5
      <4> QED BY <3>4, <4>1, <4>2 DEF QueueSend, JobFields
    <3>5. CASE StartWizard \/ SendRequest \/ ClearDumps \/ SetPanel
      <4>1. JobFields
        BY <3>5 DEF StartWizard, SendRequest, ClearDumps, SetPanel, JobFields
      <4> QED BY <1>1, <1>4, <4>1, JobUntouched DEF JobFields, jobs
    <3> QED BY <1>6, <3>1, <3>2, <3>3, <3>4, <3>5 DEF Next, User
  <2> QED BY <1>6, <2>1, RestKeeps, TypeParts DEF JobsKeep
<1> QED BY <1>5, <1>6

LEMMA JobInitially == Init => TypeOK /\ JobInv
<1> SUFFICES ASSUME Init PROVE TypeOK /\ JobInv
  OBVIOUS
<1>1. ~ Active /\ send_job = Idle /\ wizard = Idle /\ told = "nothing"
  BY DEF Init, Active
<1>2. asks \in 0..MaxAsks /\ lastSent \in 0..MaxDumps
  BY LibrarianConstants DEF Init
<1>3. {armed, handshake, got_f7, identity_note, is_open, heard} \subseteq BOOLEAN
  BY DEF Init
<1> QED BY <1>1, <1>2, <1>3 DEF TypeOK, JobInv

\* The next dump of a job with handshake is not sent before an answer to the
\* one before it came in (tick_send and send_one of sysex.rs).
THEOREM HandshakeIsKept == Spec => HandshakeHolds
<1>1. TypeOK /\ JobInv /\ [Next]_vars => TypeOK' /\ JobInv' /\ Allowed
  BY JobStep
<1>2. Allowed => [send_job # Idle /\ send_job.handshake /\ lastSent > 0 /\ lastSent' = lastSent + 1 => heard]_vars
  BY DEF Allowed
<1> QED BY JobInitially, <1>1, <1>2, PTL DEF Spec, HandshakeHolds

\* The dumps of a job leave in order and none is skipped (advance_send).
THEOREM DumpsInSequence == Spec => InSequence
<1>1. TypeOK /\ JobInv /\ [Next]_vars => TypeOK' /\ JobInv' /\ Allowed
  BY JobStep
<1>2. Allowed => [lastSent' \in {0, lastSent, lastSent + 1}]_vars
  BY DEF Allowed
<1> QED BY JobInitially, <1>1, <1>2, PTL DEF Spec, InSequence

\* Success is only reported of a job whose dumps the driver accepted, all of
\* them (send_one).
THEOREM SuccessIsTrue == Spec => SaidSent
<1>1. TypeOK /\ JobInv /\ [Next]_vars => TypeOK' /\ JobInv' /\ Allowed
  BY JobStep
<1>2. Allowed => [Active /\ told' = "sent" => lastSent' = send_job.dumps]_vars
  BY DEF Allowed
<1> QED BY JobInitially, <1>1, <1>2, PTL DEF Spec, SaidSent
=============================================================================
