------------------------------ MODULE Capture ------------------------------
(***************************************************************************)
(* What the MIDI backends share (crates/midi-forge-io/src): the bounded    *)
(* channel from the drivers' threads to the engine's poll, the count of    *)
(* frames that found it full, and the in-process cables of loopback.rs     *)
(* that WinMM, Windows MIDI Services and the null backend carry.           *)
(*                                                                         *)
(* An endpoint is <<kind, number>>, of kind "in" or "out" for a device of  *)
(* the operating system, "cin" or "cout" for the ends of a cable; the      *)
(* engine's port number stands for its endpoint.  A frame is its port, its *)
(* number among all the messages, and which part of a dump it is.          *)
(***************************************************************************)
EXTENDS Integers, Sequences, FiniteSets, FiniteSetsExt

CONSTANTS QueueCap,   \* frames a channel or a cable's queue holds
          MaxMade,    \* bound: frames made
          MaxCables   \* bound: cables created

ASSUME CaptureAssumption == QueueCap \in Nat \ {0} /\ MaxMade \in Nat /\ MaxCables \in Nat

VARIABLES channel,    \* the frames in the channel
          dropped,    \* the atomic counter of frames that found it full
          cables,     \* SoftwareLoopbacks.cables by index, or CoreMIDI's virtual ports
          next_index, \* the index of the next cable
          busy,       \* what the engine's call is waiting for, "no" between calls
          made,       \* the number of the last frame made
          polled,     \* what the last poll returned: its events and its count
          granted,    \* history: the endpoints opened and not closed since
          lost,       \* history: frames lost since the last poll
          forgotten   \* history: a cable took its count with it since then

frameVars == <<channel, dropped, made, lost>>
cableVars == <<cables, next_index, forgotten>>
captureVars == <<frameVars, cableVars, busy, polled, granted>>

Devices == {"in", "out"}
Parts == {"short", "first", "middle", "last"}
Frame(port, n, part) == [port |-> port, n |-> n, part |-> part]
Without(f, S) == [k \in DOMAIN f \ S |-> f[k]]
Put(f, k, v) == [x \in DOMAIN f \cup {k} |-> IF x = k THEN v ELSE f[x]]

\* Bug: the frame that finds the channel full is not counted.
TryPushSilently(frames) ==
  /\ channel' = SubSeq(channel \o frames, 1, Min({QueueCap, Len(channel) + Len(frames)}))
  /\ dropped' = dropped
  /\ lost' = lost + Len(channel) + Len(frames) - Len(channel')

\* push_frame, sink_messages_received, push_event_list: try_send each frame.
TryPush(frames) ==
  /\ channel' = SubSeq(channel \o frames, 1, Min({QueueCap, Len(channel) + Len(frames)}))
  /\ dropped' = dropped + Len(channel) + Len(frames) - Len(channel')
  /\ lost' = lost + Len(channel) + Len(frames) - Len(channel')

-----------------------------------------------------------------------------
(* In-process cables.                                                      *)

EmptyCable == [in_port |-> FALSE, out_open |-> FALSE, queue |-> <<>>, dropped |-> 0]

CreateCable ==
  /\ busy = "no" /\ next_index <= MaxCables
  /\ cables' = Put(cables, next_index, EmptyCable)
  /\ next_index' = next_index + 1
  /\ UNCHANGED <<frameVars, busy, polled, granted, forgotten>>

\* The count of a removed cable goes with it.
RemoveCable(c) ==
  /\ busy = "no" /\ c \in DOMAIN cables
  /\ cables' = Without(cables, {c})
  /\ granted' = granted \ {<<"cin", c>>, <<"cout", c>>}
  /\ forgotten' = (forgotten \/ cables[c].dropped > 0)
  /\ UNCHANGED <<frameVars, next_index, busy, polled>>

\* An end of a cable opens unless it is open already.
OpenCableInput(c) ==
  /\ busy = "no" /\ c \in DOMAIN cables /\ ~ cables[c].in_port
  /\ cables' = [cables EXCEPT ![c].in_port = TRUE]
  /\ granted' = granted \cup {<<"cin", c>>}
  /\ UNCHANGED <<frameVars, next_index, busy, polled, forgotten>>

\* Bug: what was sent before the close stays queued.
CloseCableInputOnly(c) ==
  /\ busy = "no" /\ c \in DOMAIN cables
  /\ cables' = [cables EXCEPT ![c].in_port = FALSE]
  /\ granted' = granted \ {<<"cin", c>>}
  /\ UNCHANGED <<frameVars, next_index, busy, polled, forgotten>>

CloseCableInput(c) ==
  /\ busy = "no" /\ c \in DOMAIN cables
  /\ cables' = [cables EXCEPT ![c].in_port = FALSE, ![c].queue = <<>>]
  /\ granted' = granted \ {<<"cin", c>>}
  /\ UNCHANGED <<frameVars, next_index, busy, polled, forgotten>>

OpenCableOutput(c) ==
  /\ busy = "no" /\ c \in DOMAIN cables /\ ~ cables[c].out_open
  /\ cables' = [cables EXCEPT ![c].out_open = TRUE]
  /\ granted' = granted \cup {<<"cout", c>>}
  /\ UNCHANGED <<frameVars, next_index, busy, polled, forgotten>>

CloseCableOutput(c) ==
  /\ busy = "no" /\ c \in DOMAIN cables
  /\ cables' = [cables EXCEPT ![c].out_open = FALSE]
  /\ granted' = granted \ {<<"cout", c>>}
  /\ UNCHANGED <<frameVars, next_index, busy, polled, forgotten>>

\* SoftwareLoopbacks::send of one packet, and of a dump as its packets: each
\* goes to the queue if the other end is open, and is lost if it is full.
SendCable(c, parts) ==
  /\ busy = "no" /\ c \in DOMAIN cables /\ cables[c].out_open
  /\ made + Len(parts) <= MaxMade
  /\ made' = made + Len(parts)
  /\ IF cables[c].in_port
     THEN LET all == cables[c].queue \o [i \in DOMAIN parts |-> Frame(<<"cin", c>>, made + i, parts[i])]
              fit == Min({QueueCap, Len(all)})
          IN /\ cables' = [cables EXCEPT ![c].queue = SubSeq(all, 1, fit), ![c].dropped = @ + Len(all) - fit]
             /\ lost' = lost + Len(all) - fit
     ELSE UNCHANGED <<cables, lost>>
  /\ UNCHANGED <<channel, dropped, next_index, busy, polled, granted, forgotten>>

\* SoftwareLoopbacks::poll: the queues and the counts of the cables, one after
\* the other as they were created.
EventsUpTo[c \in 0..(next_index - 1)] ==
  IF c = 0 THEN <<>> ELSE EventsUpTo[c - 1] \o (IF c \in DOMAIN cables THEN cables[c].queue ELSE <<>>)
DroppedUpTo[c \in 0..(next_index - 1)] ==
  IF c = 0 THEN 0 ELSE DroppedUpTo[c - 1] + (IF c \in DOMAIN cables THEN cables[c].dropped ELSE 0)
CableEvents == EventsUpTo[next_index - 1]
CableDropped == DroppedUpTo[next_index - 1]
Drained == [c \in DOMAIN cables |-> [cables[c] EXCEPT !.queue = <<>>]]

CableStep ==
  \/ CreateCable
  \/ \E c \in DOMAIN cables :
       \/ RemoveCable(c)
       \/ OpenCableInput(c)
       \/ CloseCableInput(c)
       \/ OpenCableOutput(c)
       \/ CloseCableOutput(c)
       \/ \E parts \in {<<"short">>, <<"first", "last">>} : SendCable(c, parts)

CableServes(id) ==
  \/ id[1] = "cin" /\ id[2] \in DOMAIN cables /\ cables[id[2]].in_port
  \/ id[1] = "cout" /\ id[2] \in DOMAIN cables /\ cables[id[2]].out_open

-----------------------------------------------------------------------------
CaptureInit ==
  /\ channel = <<>> /\ dropped = 0 /\ lost = 0 /\ made = 0
  /\ cables = <<>> /\ next_index = 1 /\ forgotten = FALSE
  /\ busy = "no" /\ granted = {}
  /\ polled = [events |-> <<>>, count |-> 0]

\* What every poll does: hand over the events, return a count.
Polled(events, count) ==
  /\ polled' = [events |-> events, count |-> count]
  /\ channel' = <<>> /\ lost' = 0 /\ forgotten' = FALSE
  /\ UNCHANGED <<made, next_index, busy, granted>>
=============================================================================
