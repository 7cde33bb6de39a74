------------------------------- MODULE WinMm -------------------------------
(***************************************************************************)
(* The WinMM backend (crates/midi-forge-io/src/winmm.rs): a callback on    *)
(* the driver's thread that puts frames into the channel, one byte parser  *)
(* a port for the chunks of long messages, and a blocking long send.  One  *)
(* device is enough for the callback: two only meet in the channel.        *)
(***************************************************************************)
EXTENDS Capture

CONSTANT Faulty       \* the driver may refuse to open and to send

VARIABLES inputs,     \* WinMmBackend.inputs: the open device inputs, with InputShared.live
          outputs,    \* WinMmBackend.outputs: the open device outputs
          calls,      \* by input, the frames its running callback has still to push
          parsers,    \* by port, the parts of the dump its parser is in
          sending,    \* the dump the device is sending, and how many of its parts are gone
          torn,       \* history: a dump left a parser without all its parts
          cut,        \* history: a part of a dump that had begun was never pushed, uncounted,
                      \* or an input closed before the dump it had begun to push was polled
          held,       \* the driver has the buffer of the last long send
          buffer      \* that buffer: "none", "ours", "freed" or "leaked"

dumpVars == <<sending, torn, cut>>
winVars == <<inputs, outputs, calls, parsers, dumpVars>>
sendVars == <<held, buffer>>

InputIds == {<<"in", 1>>}
OutputIds == {<<"out", 1>>}
Willing == IF Faulty THEN BOOLEAN ELSE {TRUE}

-----------------------------------------------------------------------------
(* Opening and closing.                                                    *)

\* open_input: a failure of any of its steps undoes those before it.
OpenInput(id) ==
  /\ busy = "no" /\ id \in InputIds \ DOMAIN inputs
  /\ \E willing \in Willing :
       IF willing
       THEN /\ inputs' = Put(inputs, id, TRUE)
            /\ parsers' = IF id \in DOMAIN parsers THEN parsers ELSE Put(parsers, id, <<>>)
            /\ granted' = granted \cup {id}
       ELSE UNCHANGED <<inputs, parsers, granted>>
  /\ UNCHANGED <<frameVars, cableVars, busy, polled, outputs, calls, dumpVars, sendVars>>

\* The beginning of a dump of this port is in the channel without its end.
Unfinished(id) ==
  \E i \in DOMAIN channel :
     /\ channel[i].port = id /\ channel[i].part = "first"
     /\ \A j \in (i + 1)..Len(channel) : channel[j].port = id => channel[j].part # "last"

\* Bug: the parser is kept, in the middle of a dump.
FinishCloseOnly(id) ==
  /\ busy = "close" /\ id \in DOMAIN inputs /\ ~ inputs[id] /\ calls[id] = <<>>
  /\ inputs' = Without(inputs, {id})
  /\ cut' = (cut \/ Unfinished(id))
  /\ busy' = "no" /\ granted' = granted \ {id}
  /\ UNCHANGED <<frameVars, cableVars, polled, outputs, calls, sending, torn, parsers, sendVars>>

\* close_input and shutdown_input: no callback that begins now pushes; the
\* driver closes when the one that runs is done.
BeginClose(id) ==
  /\ busy = "no" /\ id \in DOMAIN inputs
  /\ inputs' = [inputs EXCEPT ![id] = FALSE]
  /\ busy' = "close"
  /\ UNCHANGED <<frameVars, cableVars, polled, granted, outputs, calls, parsers, dumpVars, sendVars>>

\* The port's parser goes, what its callback pushed stays in the channel.
FinishClose(id) ==
  /\ busy = "close" /\ id \in DOMAIN inputs /\ ~ inputs[id] /\ calls[id] = <<>>
  /\ inputs' = Without(inputs, {id})
  /\ parsers' = Without(parsers, {id})
  /\ cut' = (cut \/ Unfinished(id))
  /\ busy' = "no" /\ granted' = granted \ {id}
  /\ UNCHANGED <<frameVars, cableVars, polled, outputs, calls, sending, torn, sendVars>>

OpenOutput(id) ==
  /\ busy = "no" /\ id \in OutputIds \ outputs
  /\ \E willing \in Willing :
       IF willing
       THEN outputs' = outputs \cup {id} /\ granted' = granted \cup {id}
       ELSE UNCHANGED <<outputs, granted>>
  /\ UNCHANGED <<frameVars, cableVars, busy, polled, inputs, calls, parsers, dumpVars, sendVars>>

CloseOutput(id) ==
  /\ busy = "no" /\ id \in outputs
  /\ outputs' = outputs \ {id} /\ granted' = granted \ {id}
  /\ UNCHANGED <<frameVars, cableVars, busy, polled, inputs, calls, parsers, dumpVars, sendVars>>

-----------------------------------------------------------------------------
(* The driver's thread.  A device sends dumps of three parts, one after    *)
(* the other, and short messages among them, whoever listens.              *)

Whole == <<"first", "middle", "last">>
Sent(n, pos) == IF pos = Len(Whole) THEN [n |-> 0, pos |-> 0] ELSE [n |-> n, pos |-> pos]

\* midi_in_callback looks at `live` once, then pushes all it was given.
Called(id, frames) ==
  /\ id \in DOMAIN inputs /\ inputs[id] /\ calls[id] = <<>>
  /\ made + Len(frames) <= MaxMade
  /\ made' = made + Len(frames)
  /\ calls' = [calls EXCEPT ![id] = frames]
  /\ UNCHANGED <<channel, dropped, lost, cableVars, busy, polled, granted>>
  /\ UNCHANGED <<inputs, outputs, parsers, torn, cut, sendVars>>

ShortCallback(id) ==
  /\ Called(id, <<Frame(id, made + 1, "short")>>)
  /\ sending' = sending

\* A buffer of the driver: the next parts of the dump, a chunk each, which
\* bear the dump's number.
LongCallback(id, size) ==
  LET n == IF sending.pos = 0 THEN made + 1 ELSE sending.n
  IN /\ Called(id, [i \in 1..size |-> Frame(id, n, Whole[sending.pos + i])])
     /\ sending' = Sent(n, sending.pos + size)

\* A part goes by: nobody listens or the input is closing, or the driver
\* reports an error (MIM_LONGERROR).  A dump whose beginning went by is 0.
Unheard(id) ==
  /\ calls[id] = <<>>
  /\ sending' = Sent(IF sending.pos = 0 THEN 0 ELSE sending.n, sending.pos + 1)
  /\ cut' = (cut \/ (id \in DOMAIN inputs /\ inputs[id] /\ sending.pos # 0))
  /\ UNCHANGED <<captureVars, inputs, outputs, calls, parsers, torn, sendVars>>

PushFrame(id) ==
  /\ calls[id] # <<>>
  /\ TryPush(<<Head(calls[id])>>)
  /\ calls' = [calls EXCEPT ![id] = Tail(@)]
  /\ UNCHANGED <<made, cableVars, busy, polled, granted, inputs, outputs, parsers, dumpVars, sendVars>>

-----------------------------------------------------------------------------
(* poll.                                                                   *)

\* A chunk goes through its port's parser: the first opens a dump, the others
\* mean something only inside one.
Parsed(dump, frame) ==
  CASE frame.part = "first" -> <<frame>>
    [] dump # <<>> /\ frame.part = "middle" -> Append(dump, frame)
    [] OTHER -> <<>>

\* The dump ends, and is not the parts of one dump.
Tears(dump, frame) ==
  /\ frame.part = "last" /\ dump # <<>>
  /\ ~ (/\ Len(dump) = 2
        /\ dump[1] = [frame EXCEPT !.part = "first"]
        /\ dump[2] = [frame EXCEPT !.part = "middle"])

\* What the parsers hold, and whether a dump was torn, after the first i
\* frames of the channel.  A port without a parser gets a new one.
After[i \in 0..Len(channel)] ==
  IF i = 0 THEN [parsers |-> parsers, torn |-> torn]
  ELSE LET now == After[i - 1]
           frame == channel[i]
           dump == IF frame.port \in DOMAIN now.parsers THEN now.parsers[frame.port] ELSE <<>>
       IN IF frame.part = "short" THEN now
          ELSE [parsers |-> Put(now.parsers, frame.port, Parsed(dump, frame)),
                torn |-> now.torn \/ Tears(dump, frame)]

PollWinMm ==
  /\ busy = "no"
  /\ Polled(channel \o CableEvents, dropped + CableDropped)
  /\ parsers' = After[Len(channel)].parsers
  /\ torn' = After[Len(channel)].torn
  /\ cables' = Drained
  /\ UNCHANGED <<dropped, inputs, outputs, calls, sending, cut, sendVars>>

-----------------------------------------------------------------------------
(* send_long_message: the call, which holds the engine's lock, waits for   *)
(* the driver to give the buffer back.                                     *)

\* A buffer the driver refuses is freed at once, and nothing has changed.
BeginLong(id) ==
  /\ busy = "no" /\ id \in outputs
  /\ busy' = "long" /\ held' = TRUE /\ buffer' = "ours"
  /\ UNCHANGED <<frameVars, cableVars, polled, granted, winVars>>

DriverDone ==
  /\ held /\ held' = FALSE
  /\ UNCHANGED <<captureVars, winVars, buffer>>

LongDone ==
  /\ busy = "long" /\ ~ held
  /\ busy' = "no" /\ buffer' = "freed"
  /\ UNCHANGED <<frameVars, cableVars, polled, granted, winVars, held>>

\* The deadline of sysex_send_timeout: reset the output.
LongTimeout ==
  /\ busy = "long" /\ held
  /\ busy' = "reset"
  /\ UNCHANGED <<frameVars, cableVars, polled, granted, winVars, sendVars>>

\* Bug: the buffer is freed although the driver still has it.
GiveUpFreeing ==
  /\ busy = "reset"
  /\ busy' = "no" /\ buffer' = "freed"
  /\ UNCHANGED <<frameVars, cableVars, polled, granted, winVars, held>>

\* Bug: after the reset the call waits until the driver is done.
GiveUpNever ==
  /\ busy = "reset" /\ ~ held
  /\ busy' = "no" /\ buffer' = "freed"
  /\ UNCHANGED <<frameVars, cableVars, polled, granted, winVars, held>>

\* It gives up 250 tries later: a buffer the driver still has is forgotten.
GiveUp ==
  /\ busy = "reset"
  /\ busy' = "no" /\ buffer' = IF held THEN "leaked" ELSE "freed"
  /\ UNCHANGED <<frameVars, cableVars, polled, granted, winVars, held>>

WinMmServes(id) == id \in outputs \/ (id \in DOMAIN inputs /\ inputs[id])

-----------------------------------------------------------------------------
WinMmInit ==
  /\ inputs = [id \in {} |-> FALSE] /\ outputs = {}
  /\ calls = [id \in InputIds |-> <<>>] /\ parsers = [id \in {} |-> <<>>]
  /\ sending = [n |-> 0, pos |-> 0] /\ torn = FALSE /\ cut = FALSE
  /\ held = FALSE /\ buffer = "none"

WinMmStep ==
  \/ \E id \in InputIds :
       \/ OpenInput(id)
       \/ BeginClose(id)
       \/ FinishClose(id)
       \/ ShortCallback(id)
       \/ \E size \in 1..(Len(Whole) - sending.pos) : LongCallback(id, size)
       \/ Unheard(id)
       \/ PushFrame(id)
  \/ \E id \in OutputIds :
       \/ OpenOutput(id)
       \/ CloseOutput(id)
       \/ BeginLong(id)
  \/ PollWinMm
  \/ DriverDone
  \/ LongDone
  \/ LongTimeout
  \/ GiveUp
=============================================================================
