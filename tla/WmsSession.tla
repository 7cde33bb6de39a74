----------------------------- MODULE WmsSession -----------------------------
(***************************************************************************)
(* The Windows MIDI Services backend (crates/midi-forge-io/src/            *)
(* wms_session.rs): one connection a device, shared by its input and its   *)
(* output, and a sink the service calls with batches of packets.  Devices  *)
(* are numbers: <<"in", d>> and <<"out", d>> are the two ends of device d. *)
(***************************************************************************)
EXTENDS Capture

CONSTANT Refusing     \* the service may refuse a connection or a callback

VARIABLES conns,      \* WmsBackend.conns: by device, which ends are open
          sinks       \* by device, the packets its running callback has to push

wmsVars == <<conns, sinks>>
WmsDevices == {1}
Consents == IF Refusing THEN BOOLEAN ELSE {TRUE}
NewConn == [in_port |-> FALSE, out_open |-> FALSE]

\* ensure_conn: the device's connection, made if there is none.
WithConn(d) == IF d \in DOMAIN conns THEN conns ELSE Put(conns, d, NewConn)

\* open_input: the connection first, then the callback; refused the callback,
\* a new connection stays with neither end open.
OpenWmsInput(d) ==
  /\ busy = "no" /\ d \in WmsDevices
  /\ ~ WithConn(d)[d].in_port
  /\ \E connected, called \in Consents :
       IF ~ connected /\ d \notin DOMAIN conns THEN UNCHANGED <<conns, granted>>
       ELSE /\ conns' = [WithConn(d) EXCEPT ![d].in_port = called]
            /\ granted' = IF called THEN granted \cup {<<"in", d>>} ELSE granted
  /\ UNCHANGED <<frameVars, cableVars, busy, polled, sinks>>

OpenWmsOutput(d) ==
  /\ busy = "no" /\ d \in WmsDevices
  /\ ~ WithConn(d)[d].out_open
  /\ \E connected \in Consents :
       IF ~ connected /\ d \notin DOMAIN conns THEN UNCHANGED <<conns, granted>>
       ELSE /\ conns' = [WithConn(d) EXCEPT ![d].out_open = TRUE]
            /\ granted' = granted \cup {<<"out", d>>}
  /\ UNCHANGED <<frameVars, cableVars, busy, polled, sinks>>

\* Bug: closing one end disconnects the device.
DisconnectAlways(conn) == TRUE

\* close_conn_if_idle
Idle(conn) == ~ conn.in_port /\ ~ conn.out_open

Closing(d, conn) == IF Idle(conn) THEN Without(conns, {d}) ELSE Put(conns, d, conn)

\* close_input removes the callback, which waits for the one that runs.
CloseWmsInput(d) ==
  /\ busy = "no" /\ d \in DOMAIN conns /\ sinks[d] = <<>>
  /\ conns' = Closing(d, [conns[d] EXCEPT !.in_port = FALSE])
  /\ granted' = granted \ {<<"in", d>>}
  /\ UNCHANGED <<frameVars, cableVars, busy, polled, sinks>>

CloseWmsOutput(d) ==
  /\ busy = "no" /\ d \in DOMAIN conns
  /\ conns' = Closing(d, [conns[d] EXCEPT !.out_open = FALSE])
  /\ granted' = granted \ {<<"out", d>>}
  /\ UNCHANGED <<frameVars, cableVars, busy, polled, sinks>>

\* split_ump_words: the packets of a batch up to the first bad word.
Split(batch) == SubSeq(batch, 1, Max({i \in 0..Len(batch) : \A j \in 1..i : batch[j] # "bad"}))

\* sink_messages_received: the service hands over a batch.
Received(d, batch) ==
  /\ d \in DOMAIN conns /\ conns[d].in_port /\ sinks[d] = <<>>
  /\ made + Len(Split(batch)) <= MaxMade
  /\ sinks' = [sinks EXCEPT ![d] = [i \in DOMAIN Split(batch) |-> Frame(<<"in", d>>, made + i, batch[i])]]
  /\ made' = made + Len(Split(batch))
  /\ UNCHANGED <<channel, dropped, lost, cableVars, busy, polled, granted, conns>>

PushPacket(d) ==
  /\ sinks[d] # <<>>
  /\ TryPush(<<Head(sinks[d])>>)
  /\ sinks' = [sinks EXCEPT ![d] = Tail(@)]
  /\ UNCHANGED <<made, cableVars, busy, polled, granted, conns>>

\* poll: the count is taken back to zero when it is read.
PollWms ==
  /\ busy = "no"
  /\ Polled(CableEvents \o channel, CableDropped + dropped)
  /\ dropped' = 0
  /\ cables' = Drained
  /\ UNCHANGED wmsVars

WmsServes(id) ==
  /\ id[2] \in DOMAIN conns
  /\ \/ id[1] = "in" /\ conns[id[2]].in_port
     \/ id[1] = "out" /\ conns[id[2]].out_open

-----------------------------------------------------------------------------
\* WmsInit::try_new: COM and the SDK's initializer, which must know its
\* version or find the service.
SdkStarts(machine) == machine.com /\ machine.initializer /\ (machine.version \/ machine.service)

\* WmsBackend::try_new
WmsStarts(machine) ==
  SdkStarts(machine) /\ machine.winmd /\ machine.class /\ machine.service /\ machine.session

WmsInit == conns = [d \in {} |-> NewConn] /\ sinks = [d \in WmsDevices |-> <<>>]

WmsStep ==
  \/ \E d \in WmsDevices :
       \/ OpenWmsInput(d)
       \/ OpenWmsOutput(d)
       \/ CloseWmsInput(d)
       \/ CloseWmsOutput(d)
       \/ \E batch \in {<<"short", "short">>, <<"short", "bad", "short">>} : Received(d, batch)
       \/ PushPacket(d)
  \/ PollWms
=============================================================================
