# midi-forge in TLA+

midi-forge is a MIDI router, monitor and SysEx librarian: it captures from every
MIDI input, runs each event through a script, filters and maps, forwards it to
the linked outputs, and keeps the devices, the links and what is sounding on the
outputs in view. This directory specifies the parts of it where order, timing,
failure and concurrency decide whether the right bytes reach the right
instrument, model-checks them on small instances with TLC and proves the most
important results for every instance with TLAPS.

Paths below are relative to the repository. `app.rs` is
`crates/midi-forge-app/src/app.rs`; `core/`, `io/` and `app/` stand for the
`src` directories of `midi-forge-core`, `midi-forge-io` and `midi-forge-app`.

## 1. The system

### Threads and the lock

All state lives in one `EngineInner` behind an `Arc<Mutex<..>>`.

- The *engine thread* (`engine_loop`, app.rs:190) tries the lock, runs one `tick`
  if it got it, and sleeps a millisecond. A tick is
  `drain_capture; tick_throttle; poll_hotplug; tick_master; tick_script_timers;
  tick_net` (app.rs:427).
- The *UI thread* takes the lock for every frame: `sysex::tick_send` first, then
  the panels. A control therefore runs between two ticks, never inside one.
- *MCP handlers* take the lock once per call on the host, so a tool is several steps.
- *Driver callbacks* push captured bytes into bounded channels without the lock.

So a tick and a UI handler are atomic with respect to each other. What remains
concurrent is the outside: bytes are captured, devices are plugged and unplugged,
drivers refuse, time passes, the program ends, at any point within a tick.

### Components

| component | state | operations | hard behaviour | correct means |
|---|---|---|---|---|
| Engine tick, thru path (app.rs, `core/router.rs`, `core/hang.rs`) | capture batch, links, open outputs, thru gap, one throttle queue and time stamp per output, script timers, the stuck-note tracker | the stages of a tick; link, map, gap, mute, panic, Off hanging | controls change between a message's queueing and its sending; timers and panic go past the queues; full queues | capture order per wire, the gap is kept, panic is final, a sounding note is unknown only for a cause, everything captured is handled and leaves its queue |
| MIDI 1.0 parser (`core/midi1.rs`) | running status, the bytes of a message, the SysEx buffer | `push_byte`, `flush_sysex` | real time, resets, new statuses and the cap in mid-dump | messages by the running-status rules; dumps intact |
| SysEx assembly and thru (`core/sysex.rs`, app.rs) | one assembler per destination, one in the librarian | `push` for each captured packet; link, open, arm, clear | interleaved sources, lost packets, reconfiguration in mid-dump | whole dumps only, in order |
| SysEx librarian (`app/sysex.rs`) | the send job, the identity wizard, received dumps | `tick_send`, `tick_wizard`, `on_packet`, panel controls | late and unasked answers, timeouts and retries, refusals, replaced jobs | no dump without its handshake, none skipped, no false success, an end |
| Devices, ports, links, scenes, profile (app.rs, `app/mpe.rs`, `app/thru.rs`, `core/profile.rs`, `io/winmm.rs`) | endpoints, open ports, fingerprint, links, scenes, the profile file | open, close, link, rescan, hotplug poll, cables, save and load, restart | devices change in mid-rescan or mid-load; drivers refuse; ids are positions | engine and backend agree, links survive rescans, loads restore exactly |
| Backends (`io/winmm.rs`, `wms_session.rs`, `coremidi.rs`, `null.rs`, `loopback.rs`) | channel of frames, open devices, shared connections, cables, parsers by port, drop counts | open, close, callback, `poll`, `send`, long sends | a full channel, close and reopen in mid-dump, callbacks under way, blocking sends, shared connections | open ends are served, losses are counted, no dump is torn but for a named cause, every call returns |
| Packets: families, MIDI 1 and 2, filter, map (`core/ump.rs`, `midi2.rs`, `filter.rs`, `map.rs`) | a filter and a map per link | `allows`, `apply`, `learn_insert`, translation | two forms of one message; 7, 16 and 32 bits | both forms are treated alike; what is learned matches |
| Trackers (`core/live.rs`, `mpe.rs`, `nrpn.rs`, `hang.rs`) | sounding notes, voices, parameter halves | `push`, reset, panic | caps, zones, partial parameter numbers | both forms leave the same traces |
| Decoding, monitor, recorder (`core/decode.rs`, `smf.rs`, app.rs) | what was recorded | `decode`, record, write and read a file | two capture queues, running status, meta bytes | a recording plays back as played |
| Stream, Flex, SysEx8 (`core/ump_stream.rs`, `flex.rs`, `sysex8.rs`) | buffers by stream, what an endpoint tells of itself | `feed`, `push` | interleaved, lost and abandoned packets | texts arrive whole, on their stream |
| Clock health, MTC (`core/timing.rs`) | intervals, transport, song position, time code | `push`, mute, reset | times that do not grow, quarter frames | as for trackers |
| Clock master (`core/clock_master.rs`, app.rs) | tempo, next clock | `poll`, transport | late ticks, bursts, tempo changes | no drift |
| Script engine (`midi-forge-script`, `app/script.rs`) | program, `midi.state`, timers | `process`, `tick`, reload, export and import | errors, reloads over timers, restarts | timers fire once, state comes back |
| MCP server (`app/mcp/`) | the arm gate, the server's thread, a second process | tools, start, shutdown, attach | tools are several calls under the lock; shutdown joins handlers | no deadlock, no unarmed write, a complete panic |

Components also meet without the lock's help: the parser's packets feed the
assemblers; the engine hands dumps to the librarian, whose sends go to the same
backend as thru; rescans close and reopen the ports that thru sends to; cables
feed what is sent back into the capture.

`PROJECT.json` lists all components with their status, and under `hazards` what
in this code is hard to test, each at its line with the properties aimed at it.

## 2. Modules

| module | models | theorems |
|---|---|---|
| `ThruEngine` | a tick, stage by stage, with everything the user can do to it | `ThruEngine_proofs` |
| `Midi1Parser` | the byte parser and the assembler behind it | `Midi1Parser_proofs` |
| `DumpRelay` | abstract: whole dumps relayed to outputs | |
| `SysexThru` | packets of dumps through the engine to outputs and librarian | `SysexThru_proofs` |
| `SysexLibrarian` | the librarian's send job and wizard | `SysexLibrarian_proofs` |
| `DeviceSession` | devices, ports, links, scenes, profile, restarts | `DeviceSession_proofs` |
| `Capture` | what the backends share: the channel, its count, cables | `Backends_proofs` |
| `WinMm`, `WmsSession`, `CoreMidi`, `NullPorts` | one backend each, on `Capture` | `Backends_proofs` |
| `Backends` | which of them runs, and what all promise | `Backends_proofs` |
| `Ump` | packets, families, translation between the protocols | `EventPath_proofs` |
| `DataMap` | a link's map: matching, rewriting, learning | `EventPath_proofs` |
| `Trackers`, `Smf`, `Timing`, `Decode` | pure functions on packets, on `Ump` | `EventPath_proofs` |
| `EventPath` | what the engine does with an event besides sending it | `EventPath_proofs` |
| `UmpStreams` | texts and data in several packets, endpoint discovery | `EventPath_proofs` |
| `McpServer` | the window's agent server and the threads around the lock | `Host_proofs` |
| `McpStdio` | the second process, on `McpServer` | `Host_proofs` |
| `ClockMaster` | the generated MIDI clock | `Host_proofs` |
| `ScriptHost` | the script's program, timers and state | `Host_proofs` |
| `MC_*` | instances for TLC; `MC_EventPath` joins `EventPath` and `UmpStreams`, `MC_Host` joins `McpStdio`, `ClockMaster` and `ScriptHost` | |

`SysexThru` instantiates `DumpRelay` under a refinement mapping. Operators
described as a mutant or as a bug are the wrong variants of the definition after
them. They are used by no specification; substituting one for that definition
makes the property it is listed with in `PROJECT.json` fail.

### ThruEngine

State: `lock` (who holds the Mutex), `captured` (the backend's queue), `batch`, `processed`, `routed` (what
`drain_capture` holds in local variables), `phase` (where in the tick the engine
is), `links` (`Router.links`: each with its filter and map as one function on
message shapes), `open_outputs`, `throttle_ms`, `mute_clock`, `script_on`,
`throttle_q`, `throttle_at`, `timers`, `hang`. Ghosts: `nextId` and `cur` number
events in the order of capture, `lastSent`, `quiet` and `broken` record what was
put on each wire and when, `sounding` is the instrument behind an output,
`astray` the notes that an instrument may play although the stuck-note list does
not know them, for a cause the code cannot see, and `panicMark` the last event
drained before a panic.

A message is a note-on, a note-off, a controller that silences the notes of its
channel, or a clock. The engine thread takes the lock when it is free
(`TickBegin`, the `try_lock`), the UI thread for a frame (`FrameBegin`, `FrameEnd`),
which includes what its controls do. A tick is a sequence of actions, so capture and time interleave with it at every
step: `TickBegin` (poll), then per event `DrainEvent` (script), `RouteEvent`
(mute, then router), `Deliver` per destination (tracker, then queue or send);
`DrainEnd`; `FlushAll` or `FlushOne` per queue (`tick_throttle`); `TimersBegin`,
`TimerRoute`, `TimerDeliver` (`tick_script_timers`); `TickEnd`. The hotplug poll
is `DeviceSession`'s. User controls run while the frame holds the lock; `Inject`
is the panel that sends past everything but the stuck-note list. After the first
`MaxEvents` events, which have numbers, traffic may go on for ever with up to
`MaxBacklog` more captured at a time.

Abstractions: due times of script timers are "any of them may be due"; elapsed
time saturates at the largest gap, beyond which the code cannot tell it apart; a
send to a port in `Faulty` may be refused. Left out: `tick_master`, `tick_net`,
learn and the recorder (`EventPath`), the monitor log, SysEx (which goes past the
queue: `SysexThru`).

### Midi1Parser

One action, `Byte(b)`: `push_byte` in every state of the parser, then every
packet it returned into `SysexAssembler::push`. Data bytes are model values; a
status byte is its kind. The packet size and the cap are constants. Ghosts decode
the same stream by its framing alone, which is what the properties compare with.

### SysexThru and DumpRelay

An instrument is in one dump at a time; its packets are drained one by one, and
those of different instruments interleave. `Forward` is the part of
`drain_capture` behind the router: each open destination's assembler takes the
packet and a finished dump is sent, or refused by the driver and gone. `OnPacket`
is the librarian's. An assembler holds the packets whose bytes the code's buffer
holds, so "whole" is a statement about which packets are in it. Mishaps are
switched on by `UserOps`: a dump cut off, a packet lost to a full capture queue,
an output closed, a link dropped.

`DumpRelay` knows only which dumps were finished and which each output has
received: a finished dump is received at most once and after all received before.

### SysexLibrarian

`TickSend` is one UI frame (`tick_wizard`, then `tick_send` with `send_one` and
`advance_send`), `OnPacket` a dump that arrives on the engine thread between two
frames, from anyone. A deadline is the fact that it has passed. The user queues a
job over a running one, starts the wizard, sends other requests past the job,
clears, toggles the check boxes and closes the output. Left out: files, the hex
editor, MIDI-CI texts.

### DeviceSession

State: `os` (the system's lists of inputs and outputs; an id is a position),
`cables`, `handles` (what the backend holds open and which device is behind it),
`endpoints`, `device_fp`, `open`, `port_errors`, `links` with one setting each,
`scenes`, `file`, and the loops under way: `reopen` (rescan, or start-up) and
`todo` (the links of a profile being loaded). Ghost: `excused` (closed by the
user, missing or refused).

`PollHotplug`, `RefreshDevices`: compare and rescan; `Reopen` one endpoint.
`Link`, `Unlink`, `SetSetting`, `SetOpen`, `SetClosed`, `Panic`: the controls.
`RecallScene`, `LoadProfile`, then `LoadLink` one link at a time: `apply_profile`.
`AddCable`, `RemoveCable`. `Plug`, `Unplug` happen at any time, also between two
rounds of a loop. `Restart` ends the program at any point and starts it again.
Reading the lists and opening may fail.

Abstractions: the router's port numbers are never reused and so are identified
with ids; links are a function (their order does not matter to these properties);
filter and map are one setting; reading the lists is atomic with the comparison
that follows; of a profile, only links and scenes, since the other fields are
copied (its script is in `ScriptHost`).

### Backends

`Capture` has the bounded channel between drivers' threads and the engine's
poll, the counter of frames that found it full, and the in-process cables. A
frame is its port, its number and which part of a dump it is. `WinMm` adds the
device, which sends dumps of three parts whoever listens; the callbacks, one for
each short message and one for each buffer the driver fills with some of the parts
of a dump, which look at `live` once, push frame after frame and run against
`close_input` (a close waits until the driver's last callback is over); the parts
that go by while the input is closed or closing, or that the driver returns as an
error (`Unheard`); one parser per port, forgotten by a close, while what was pushed
stays in the channel and reaches a new parser of the same port; and the blocking
long send, whose buffer the driver may keep past the deadline. Of a buffer's chunks
of 256 bytes, a part stands for one or several.
`WmsSession` adds connections shared by the two ends of a device and refused
callbacks; `CoreMidi` virtual ports whose callbacks find them armed before they
close; `NullPorts` injected events. `Backends` picks one at the start
(`default_backend`) and states once what the engine relies on with any of them.

### EventPath, UmpStreams

`EventPath` is `drain_capture` seen from everything but the output: the recorder,
clock health, live view, NRPN and MPE trackers, learn, and the filter and map of
one link with the stuck-note tracker behind it. The trackers, the map, the file
format and the decoder are operators in modules of their own, applied by the
action `Drain` in the order of the code: `After[i]` is the engine after `i` events
of the batch. Two capture queues are polled one after
the other, so events need not come in the order of their times. 32-bit values are
two halves, and maps scale 15 bits, since TLC's integers are 32 bits wide. `PathNext`
is every step for every packet, map and filter, and is what is proved about; the
themes of `MC_EventPath` take small sets of each.
`UmpStreams` is the assembly of names (`ump_stream.rs`), Flex texts and SysEx8
from packets that interleave, get lost or stop, and what a StreamTracker knows.

### McpServer, McpStdio

Threads: the UI thread (a frame under the lock, then `sync_mcp_http` outside it:
spawn, or cancel and join), the engine thread, one handler per session. A tool is
its calls on `LiveHost`, each of which takes the lock anew; between two of them
the user opens, closes, disarms, rescans, and a hotplug poll loses devices. The
ghost `steady` is the outputs open ever since a call began. `McpStdio` is the
process of `midi-forge mcp`: it passes calls on to a window it finds, or opens
ports of its own with its own gate.

### ClockMaster

`TickMaster(late, got)` is one engine tick, `late` after the one before, of whose
clocks the output accepts `got`. Start, Continue, Stop, tempo, Enable and the
destination are the Master row. Ghosts count the clocks heard since Start.

### ScriptHost

A program is what it does: whether it loads, what `on_midi` makes of
`midi.state`, whether it fails, and what it schedules. `Process` is one event,
`Tick` one engine tick, the rest are the panel, the profile and restarts. What a
script returns, and its `on_idle` hook, is in `ThruEngine`; `midi.after` called while
a program loads is left out.

## 3. Model checking

Twelve runs. Eleven pass:

| run | instance | properties | what it shows |
|---|---|---|---|
| `thru_order` | 2 inputs, 1 output, gaps 1 and 2, queue of 2, 3 events | `TypeOK`, `QuietSincePanic`, `WireInOrder` | Short messages leave in capture order through a queue that overflows, gaps that change, an output that closes and reopens; after Panic nothing sounds until an event that the engine drained later is sent |
| `thru_tracked` | 2 outputs, one refusing, 2 notes of a channel, a list of one, queues of one, gap 1 or off, Inject, Off hanging, 2 events | `MissedForACause` | The stuck-note list misses a note that sounds, or will sound when the queue has gone out, only for a named cause; all of them but a panic that does not get through occur, and without any one the run fails |
| `thru_paced` | 1 refusing output that closes and opens, a script with a timer, gaps 0 (off), 1 and 2, a queue of 2, 2 numbered events and traffic that goes on for ever, fair | `PacedThru`, `CaptureIsDrained`, `QueuedLeaves` | The gap is kept when a queue runs empty in between, or the gap changes or is turned off and on; if the engine's `try_lock` does not fail for ever, nothing captured waits for ever and every queued message leaves its queue, although traffic and frames go on |
| `midi_bytes` | 2 data values, packets of 2 bytes, cap 5, runs of 7 | `TypeOK`, `NoCorruptDump`, `UnevenDumpsArrive`, `RunningStatusHolds` | Every stream of every kind of byte |
| `sysex_relay` | 2 instruments, 3 outputs with one source each, one refusing, 3 dumps of up to 3 packets | `ThruDumpsAreWhole`, `LibrarianDumpsAreWhole`, `RelaysDumps` | The thru path implements `DumpRelay`; a librarian armed or cleared in mid-dump keeps whole dumps unless two met in it |
| `sysex_mishaps` | 2 instruments merged on 1 output, 2 dumps, every mishap | `DumpsAreFramed` | Whatever is lost or closed, a dump begins with a start and ends with an end packet |
| `librarian_send` | 2 jobs or wizards, up to 3 dumps, 2 retries (the code's number), fair | `HandshakeHolds`, `InSequence`, `SaidSent`, `JobEnds` | See section 1, with answers at any moment and a driver that may refuse; jobs and wizards end though no answer comes |
| `session` | 1 keyboard, 1 synth, 1 cable, 1 scene, 1 profile; up to 2 device changes, fair | `BackendAgrees`, `LinksStayOpen`, `LoadRestores`, `ListCatchesUp` | Rescans that fail halfway, refusals, cables the list does not show; a load leaves exactly the saved links, also after a restart in mid-load |
| `backends` | each backend with 1 device and 1 cable, queues of 2, 3 frames, drivers that refuse, fair | `OpenEndsAreServed`, `TornOnlyByLoss`, `BufferOutlivesDriver`, `ClosedCablesAreSilent`, `LossIsReported`, `CallsReturn` | Opens and closes against running callbacks and in mid-dump, full queues, long sends that time out |
| `event_path` | 11 themes of 1 to 3 messages, caps of 1 or 2, a recording of 0.4 s, 1 or 2 texts of 1 or 3 pieces on each of 6 streams | `ProtocolsAgree`, `RecordingPlaysBack`, `LearnedEntriesMatch`, `AssembledWhole` | A message and its MIDI 2.0 translation are shown, tracked, filtered, mapped and decoded alike in every reachable state; recordings and learned entries are faithful; texts arrive whole |
| `host` | 1 session, 2 outputs, 2 tools, the second process; 2 tempi, bursts of 3, ticks 13 and 45 ms apart; 5 programs, 2 timers, 5 clicks; fair | `PanicIsComplete`, `EachGateHolds`, `FramesGoOn`, `ClockKeepsTime`, `TimersOnce`, `TimersFire`, `ScriptComesBack` | What runs beside the thru path; each behaviour follows one of four groups of variables that no other group reads or writes |

One shows a disagreement between the code and what it says of itself (`findings`
in `PROJECT.json`): `midi_exact`. At the code's packet size of six, a dump with a
payload of six bytes (or any nonzero multiple) leaves the parser without an end
packet, and no assembler ever returns it.

### Why the bounds are enough

The races in the thru path are between one message that waits and one that does
not, so two or three events with a queue of two contain them: one queued, one
that overflows or overtakes, one drained after a panic. Elapsed time matters
relative to the two gaps only. `Midi1Parser` is deterministic; packets of two
bytes and a cap of five reach an empty, a partial and a full last packet, the cap
at and off a packet's end, and every state followed by every byte. In `SysexThru`
three packets are one of each kind (start, continue, end), and three dumps are
one finished, one cut off and one after it. In `SysexLibrarian` three dumps are
the first, a middle and the last, which is treated differently; two jobs are one
and its replacement. In `DeviceSession` two changes are unplugging and plugging in
again. In `Backends` three frames are a dump of three parts, or the beginning of one and
the end of the next, against queues of two; the parts that nobody hears are not
counted, so a dump is torn by each of its parts being lost, and by a close. In
`ThruEngine` traffic goes on for ever with one more event at a time: one may be
captured between any two steps, so it can be faster than any gap. In
`MC_EventPath` the alphabets have every family of message and the ends of their
ranges; the trackers' state is at most pairwise (an old parameter half and a new
one, one voice and one too many), which two or three messages reach, and
`ProtocolsAgree` looks one message further in every state, at the voice messages
among `Probes` and at every two of them. In `MC_Host` one
session's tool is interleaved with every thread at every call; a second session
would only be one more thread that opens and closes outputs, which the window does
already, and the theorem needs no bound. `LateBy` contains a tick that is late by
less than an interval and one late by several, `CatchUp` is small enough that a
burst is cut short.

The proofs of section 4 need none of these bounds. `MaxEvents`, `MaxTimers`,
`MaxBacklog`, `MaxDumps`, `MaxAsks`, `MaxCables`, `MaxChanges`, `MaxRun`, `MaxMade`, `MaxTime`,
`MaxTexts`, `MaxPieces`, `MaxCalls`, `MaxPolled`, `MaxHost`, `MaxScheduled`,
`MaxCount`, `LastTick` and the numbers of clicks are bounds on behaviours that the
code does not have.

### What the properties need

Where a property needs a condition, the run's constants make it visible, and it is
no accident: outside it the code does not keep the property.

- `WireInOrder` needs a gap that is not set back to 0 while messages wait:
  `drain_capture` then sends the next message at once (app.rs:724) before
  `tick_throttle` has flushed the queue. A note-off overtakes its note-on, and the
  tracker has already forgotten the note.
- `MissedForACause` needs nothing, but says what the list is not: complete. One
  tracker sees the messages of all outputs, so a note-off let through to one output
  hides a note that still sounds on another whose link filtered it; a list of 256
  forgets; a refused or lost note-off is taken for heard; what goes past a queue
  (a timer, Inject, a gap turned off, Off hanging) ends notes that are still to
  begin. `astray` is raised by these steps only, for the notes they concern only,
  and a note that is listed again is no longer astray; so the property fails when
  the list forgets a note for any other reason.
- `QuietSincePanic` is about what the engine had drained. Events that the backend
  has captured and not yet handed over are drained after the panic and sound.
  Script timers survive Panic, and Inject sounds at once: neither is in the run.
- `CaptureIsDrained` and `QueuedLeaves` need that the engine's `try_lock`
  (app.rs:190) does not meet a taken lock each time, although the lock is free
  again and again. This is a premise of the two formulas (`TryLockSucceeds`), not of
  the fairness: no code ensures it. Under it they fail if a tick or a frame keeps
  the lock, or if a queue's gap starts again before it is over.
- `TornOnlyByLoss` counts three causes, and the run fails without any one of them: a
  frame counted as dropped; a buffer that the driver returns as an error, which the
  callback discards uncounted (winmm.rs:579); and an input that closes when the
  beginning of a dump was pushed and not yet polled. After a reopening the
  beginning then reaches a new parser of the same port (winmm.rs:358) and is joined
  with the next end that comes.
- `PacedThru` is about captured messages: what a script's timers send goes past
  the queue, and a panic forgets the pacing.
- `ThruDumpsAreWhole` and `RelaysDumps` need one source per output and no output
  closed, link dropped or packet lost in mid-dump: assemblers are kept by
  destination and nothing resets them, so two merged instruments, or an output
  closed and reopened, yield a dump no instrument sent. `sysex_mishaps` is what
  remains.
- `LibrarianDumpsAreWhole` excludes dumps in which packets of two met: the
  librarian has one assembler for all inputs.
- `LinksStayOpen` counts an endpoint that was missing at a rescan as excused: a
  device that comes back is listed but not opened again.
- `LossIsReported` excludes cables removed since the last poll: they take their
  count with them. It is about what a poll returns: the engine keeps only the last
  poll's count (app.rs:649), which the Windows MIDI Services session resets at
  every poll (wms_session.rs:441), so the window shows a loss only if it draws before
  the next tick, a millisecond later.
- `HandshakeHolds` asks for an answer since the dump was last sent. An answer bears no
  number: a late one to the first attempt counts as the answer to the second.
- `LearnedEntriesMatch` leaves out parameter numbers in one MIDI 2.0 message and
  program changes with a bank, which are learned as the first of the MIDI 1.0
  messages they stand for and recognised by the last.
- `RecordingPlaysBack` leaves out System Reset, which a file cannot hold, and
  promises times only if the messages were captured in the order of their times.
- `ScriptComesBack` needs that the editor showed what was running and that
  `midi.state` holds integers under names: integer keys come back as strings and
  tables are dropped.
- `EachGateHolds` is about what is written; that the second process opens its own
  ports without a gate is not part of it.
- `AssembledWhole` is about well-formed packets: one of SysEx8 with an invalid count
  of bytes, which `sysex8.rs` answers with an error, is left out.
- `ClockKeepsTime` is exact between Start and the first change of tempo, Continue,
  burst cut short or refused clock, and says "within an interval" after it.

### Fairness

- `ThruEngine!FairSpec`: `WF(Tick)`, a tick that has the lock goes on; `WF(FrameEnd)`,
  a frame ends (it also draws, and a file dialog within it ends when the user
  closes it); `WF(Elapse)`, time passes. `TickBegin` is not among them: it is a
  `try_lock` that may find the lock taken every time. Nothing is assumed of the
  user, of drivers or of the traffic.
- `SysexLibrarian!FairSpec`: the UI asks for a repaint every 16 ms while a job
  runs (`WF(TickSend)`), and each sender's deadline passes. No answer is assumed.
  `JobEnds` relies on `MaxAsks`: a user who replaces the job for ever keeps one
  active for ever.
- `DeviceSession`: the loops go on (`WF`), and `PollHotplug`, which user actions
  and loops disable again and again, happens if it is possible again and again
  (`SF`): `engine_loop` retries a failed `try_lock` without end, and enumeration
  of the devices succeeds at the first read of a poll.
- `Backends!FairSpec`: a callback under way runs to its end, and the call that
  waits looks again every millisecond and has a deadline. The driver need never
  give a buffer back.
- `MC_Host!MCFairness`: the UI thread and the handlers get a lock that is free
  again and again (`SF`; `std::sync::Mutex` promises no order, and no thread
  keeps it for long); the engine ends its tick and whoever holds the lock lets go
  (`WF`); the script's ticks and time go on (`WF`). That the engine ever gets the
  lock is not assumed: it only tries.

## 4. Proofs

All theorems are checked by TLAPS for all values of the constants that satisfy the
named assumptions of the modules (`ThruConstants`, `ParserConstants`,
`SysexConstants`, `LibrarianConstants`, `DefaultAssumption`, `CaptureAssumption`,
`UmpStreamsAssumption`, `ProbesAssumption`, `TimesAssumption`, `ClockMasterAssumption`,
`NoneAssumption`, `ScriptHostAssumption`, ...), which TLC evaluates in every run. A theorem that needs
more of its constants says so in its `ASSUME`; the reason is in section 3, "What the
properties need".

**ThruEngine.** `TypeCorrect` (`TypeOK`, with the bound of the queues; the
inductive invariant adds `PhaseInv`, since `FlushAll` and `FlushOne` take the head
of a queue that only `PhaseInv` says is not empty). `CaptureOrder`:
if 0 is not among the gaps and each event has a number of its own
(`MaxBacklog = 0`), `WireInOrder`, scripts included. Capture order is not inductive by itself:
a send is in order because the queue is, and the queue because what is appended to
it is the newest. `NumberInv` numbers events on their way through capture queue,
batch and script; `QueueInv` bounds each queue between the last message sent and the
event being drained, in order. `PanicIsFinal`: if no script is switched on and
nothing is injected, `QuietSincePanic`; `PanicInv` says that until a newer event is drained nothing is in
any queue or on its way, which needs `PhaseInv` and `NumberInv` again.
`MissesAreExplained` is `MissedForACause`, without any assumption. With `TypeOK`
and `PhaseInv` the property is inductive as it stands, because it speaks of what
will play when a queue has gone out (`Settled`) and not only of what plays. The work
is in how that set changes: with a message put at the end of a queue (`LeftAppend`,
`LeftEnqueue`), with its head heard (`LeftHeard`: not at all) or lost (`LeftLost`: by
the notes it would have ended), with a message that goes past it (`LeftOvertaken`).
`GapIsKept` is `PacedThru` for any outputs, gaps, refusals, timers and traffic, if there
is no panic. The
engine measures from the last send it tried, the wire from the last that was
accepted; `PaceInv` says that the engine's clock is never ahead.

**Midi1Parser.** `BytesInvariant` is inductive: `InStep` says that inside a dump the
parser's buffer is the payload so far, that all but less than a packet of it was
sent on, and that the assembler holds exactly what was sent on. From it
`ParserTypes`, `DumpsAreIntact` (`NoCorruptDump`) and `UnevenDumps`, for every
packet size and cap. `RunningStatus` is `RunningStatusHolds`: of each byte, the short
messages returned are exactly those the bytes since the last status byte amount to,
once each, and none inside a dump. `RunInv` ties the parser's status and count of
data bytes to the ghosts that decode the same bytes by their framing; it is needed
because the parser forgets its running status at a system common message and within
a dump, and keeps it over real-time bytes.

**SysexThru.** `SysexTypes` holds whatever the mishaps. Under `Joined` (one source
per output, and no unlinking, closing or loss) `ThruForwardsWholeDumps` and
`ThruRelaysDumps`, the refinement of `DumpRelay`. The invariant is `RelayInv`:
dumps are numbered in the order they begin and finish once (`SendInv`), and an open
assembler holds what its source has sent of its dump, or a leftover that its
source's next packet discards (`HoldInv`). `DumpsKeepFrames` holds under every
mishap: an open assembler holds a start and nothing but continues (`FrameInv`), so
what an end completes is framed, whoever it came from. `LibrarianKeepsWholeDumps`,
for a librarian that stays armed and loses no packet: what its one assembler holds
is the first packets of one dump, which is still at that point or was cut off there,
or packets of two that met (`KeepInv`).

**DeviceSession.** `EngineAndBackendAgree` and `NoLinkDiesByItself`: both properties
are inductive as they stand, since every operation, the loops' rounds included,
restores them. `LoadsRestore`: the links under construction are among the profile's
with their settings (`Loading`), and no set of links that was ever saved contains a
link between the two ends of one cable (`AllApart`), which `set_thru` would refuse.

**SysexLibrarian.** `HandshakeIsKept`, `DumpsInSequence` and `SuccessIsTrue` are
action properties. The invariant is `TypeOK` with `JobInv`: a job in progress has
had exactly the dumps before the one it is at accepted, and that one too while it
waits; an answer it has not consumed came after the dump it waits for. `JobStep`
shows that every step keeps it and is `Allowed` by all three.

**Backends.** Six theorems, for every backend `default_backend` may make, any queue
sizes and any number of cables and frames. All rest on `TypeInv`, the types of what
the backends share and of what each keeps.

- `EndsStayServed` (`OpenEndsAreServed`). `GrantedInv` says of each kind of endpoint
  where its being open is kept: a map of inputs, the two flags of a shared
  connection, a set of sources, a cable's flags. A WinMM input that is closing is
  still in the map, and counts as open until the close is over.
- `LossesAreReported` (`LossIsReported`). `Counted`: until a poll reports it, what was
  lost is in the channel's counter and those of the cables together. The work is in
  the sum over the cables, which is a recursive function: a push adds at most what it
  drops, a poll resets all of them.
- `ClosedEndsAreSilent` (`ClosedCablesAreSilent`): with `GrantedInv`, every frame a
  poll hands over is of an end that is granted or of a device. Removing a cable and
  closing an input clear what is queued for it, which is why nothing stale is left.
- `DumpsTearOnlyByLoss` (`TornOnlyByLoss`), the hardest of them. In WinMM callbacks
  push a dump in any number of buffers while the engine drains the channel, closes
  and opens inputs and resets parsers. `TornInv`: as long as nothing was dropped or
  `cut`, the frames in the channel followed by those the callback has yet to push
  take the parser on without a tear (`Run`), to where the device itself is in its dump
  or outside of any (`GoesOn`); outside of any, if the input is closed. A close keeps
  this because the channel then begins no dump that it does not end (`Unfinished`), so
  that a parser without memory is outside of any after it too (`RunStartsAgain`); the
  parts that the device goes on to send after a reopening are ignored until the next
  first one.
- `BuffersAreKept` (`BufferOutlivesDriver`): while the driver has it, a buffer belongs
  to the waiting call or was leaked on purpose.
- `QueuesKeepToTheirLimit` (`TypeOK`): `Limits` adds that a frame dropped was made
  before, counting those a callback has made and not pushed.

**EventPath.** `TextsArriveWhole` (`AssembledWhole`), for any set of streams, texts
and pieces. `StreamsInv` follows each stream by itself: the packets to come are the
rest of a text of which, if none was lost, its assembler holds the beginning; what an
assembler holds is of its stream and, except of a name, from the first piece on;
and a block's name is the last that arrived for it. Two streams never share an
assembler's key: this is what `UmpStreamsAssumption` is for, which says which
group and id the packets of each kind carry.
`LearnedIsRecognised` (`LearnedEntriesMatch`), for `PathSpec`: any batch of any
well-formed packets (`UmpPackets`), any map the editor can make, whatever is clicked
in between. It has three parts. A packet that has one MIDI 1.0 form is a controller,
a bend, a pressure, a note or a program change (`OneForm`), and the entry learned from
such a form matches the packet and rewrites it to itself, in whichever protocol it
came (`LessonMatches`, `LessonKeeps`: the rewrite puts status and channel together
again from what they were taken apart into). The entry goes to the front, so it is
the first that matches (`LearnedFirst`). Over a batch, by induction on the events
drained (`LearnedUpTo`): before the first teacher the map is as it was, from there on
it is what the first teacher made of it, whatever the other events of the batch are.
The invariant `PathTypes` gives the types of map and captured packets.
`ProtocolsTreatedAlike` (`ProtocolsAgree`), for any set of packets compared (`Probes`)
and all that `PathSpec` can do before. The MIDI 1.0 form of a translation
is the message itself, or the note-off that a note-on of velocity 0 stands for
(`Translated`), because every 7- and 14-bit value comes back from 16 and 32 bits
(`SameVelocity`, `SameValue7`, `SameBend`). The clock and the parameter, MPE and
stuck-note trackers go by that form or see the note-off in both (`SeenAsMeant`). The
live view has fields for each protocol (`LiveAsMeant`); that they are comparable
depends on what it showed before, of which `ViewTypes` is the invariant. What the
monitor shows under one key is filtered and hidden together because the key tells
the family (`KeyTells`, `KeyKeepsTogether`).
`RecordingsPlayBack` (`RecordingPlaysBack`), for recordings of any length and in any
order. `RecordTypes` says that what is recorded are packets with the times of their
capture. From there it is about the file (`Smf`) alone: what `write_vlq` writes is
read back (`VlqWritten`, `VlqRead`); the track is the tempo, the messages with the
ticks before them and the end, each at a known place (`TrackLaid`); and by induction
on the messages the reader, after as many rounds, stands at the end of the last with
the tick it was written at (`Replayed`). Its running status never matters, since every
message is written with its own. `TimesAssumption` says that no two messages are
2^28 ticks apart (77 hours): such a gap would be written in five bytes, and `read_vlq`
takes four at most.

**ClockMaster.** `MasterKeepsTime`. `MasterInv` says where the next clock lies: at
most an interval of some tempo ahead (`Soon`), and while nothing happened that
could move a clock, exactly as many intervals after Start as clocks were heard,
with the last poll less than an interval before it (`Steady`). The proof rests on a
lemma about the quotient that a late poll divides by (`DueClocks`).

**McpServer, McpStdio.** `PanicReachesAll`, for any number of sessions and outputs.
The invariant `PanicInv` follows the outputs that stayed open from one call under the
lock to the next: open, then among those read as open, then among those found
listed, and then in what is still to be sent or was sent. `GatesHold`
(`EachGateHolds`): a process of its own is armed only if it was given `--arm`, and
only between its start and its end (`OwnInv`); the window's gate is read under the
lock that the write is made under.

**ScriptHost.** `ProfilesRestoreScripts`: what runs is a program that loads, and the
file holds what was exported when it was saved. `TimersFireOnce` (`TimersOnce`):
`TimerInv` says that the numbers of the pending timers and those of the messages
sent are disjoint and together all the numbers given out, each once. A tick takes
the timers that are due out of the list by a recursive function; the proof is that it
splits the list in two.

**Induction over data.** The library's induction theorems take an operator as their
parameter, which the installed provers cannot instantiate. `EveryNatural` (in
`Host_proofs`, `Backends_proofs` and `EventPath_proofs`) does without: a set of numbers with zero and the
successor of each of its elements is all of them, from the well-foundedness of strict
inclusion between finite sets. What a recursive function computes is then proved by
taking for the set those numbers for which it holds. To be reasoned about in this way,
the filters and sums over sequences that these theorems speak of are recursive
functions rather than folds.

Only model-checked:

- the liveness properties (`CaptureIsDrained`, `QueuedLeaves`, `JobEnds`,
  `ListCatchesUp`, `CallsReturn`, `FramesGoOn`, `TimersFire`): fairness and ENABLED
  are out of the prover's reach;
- `EveryDumpArrives`, which does not hold.

Every invariant and action property of the runs that pass is stated by a theorem.

## 5. Known divergences

What the modelling showed of the code that a reader may not expect. The models do
as the code does.

- Turning the thru gap off lets messages overtake the queue (section 3).
- The stuck-note list is one for all outputs, and is fed when a message is queued,
  not when it is sent: section 3 lists what it misses. Events captured but not
  polled when Panic is pressed sound after it.
- A count of lost messages is overwritten by the next tick's (app.rs:649) and may
  never be shown.
- A WinMM input that is closed and opened in mid-dump may yield one dump made of the
  beginning of one and the end of another (winmm.rs:358), and parts that the driver
  returns as an error, or that come while the input closes, are not counted as lost.
- WinMM ids are positions (app.rs:847): a keyboard plugged in ahead of another
  moves it to the next position, and after the rescan the link made for the one
  forwards the other. A device replaced by one of the same name between two polls
  is not noticed (app.rs:919).
- A script that returns its event unchanged does not always pass it on unchanged:
  `table_to_event` rebuilds every packet other than SysEx7, MIDI 2.0 voice and
  system messages as a MIDI 1.0 voice packet (engine.rs:442), so utility, SysEx8,
  Flex and Stream packets do not survive the default script.
- Integer keys of `midi.state` come back as strings and tables are dropped
  (engine.rs:193); the prelude calls it a persisted table. `midi.after` counts from
  the last tick, not from the call. A profile or scene saves the editor's text,
  applied or not, and loading it compiles it; an empty text leaves the program.
- Learn takes the first MIDI 1.0 form of a message and matching the last
  (map.rs); the identity rewrite of a map turns registered controllers into plain
  ones and per-note bend into bend; `invert_velocity` makes a note-on of 127 one of
  velocity 0.
- A data LSB is combined with an older MSB (nrpn.rs:138), and panic does not clear
  the NRPN tracker. MPE's reset of controllers resets the channel, not its voices.
- A gap of 77 hours in a recording makes its file unreadable (smf.rs:149).
- The recorder stops while the monitor is paused; events older than the one before
  lengthen the file; playing a file ignores its times and goes past the stuck-note
  tracker.
- The Stream tracker takes a continuation without a start, takes a request for a
  configuration for one, and lets endpoint information override the protocol.
- The master sends up to 48 clocks at once when it is enabled again after a while.
- A refused callback leaves a connection with neither end open (wms_session.rs).
- The process of `midi-forge mcp` may open outputs the window has open too.
- A datagram that happens to look like a command of the network protocol is taken
  for one (app.rs:486).

## 6. Not modelled

Drawing, argument parsing and texts; constant tables (devices, manufacturers,
packs); MIDI-CI's encodings, the packing of UMP fields and their names, which have
no state; sockets and Network MIDI 2.0, which answers an invitation and otherwise
takes each datagram by itself; the occupancy hint; the monitor's and routes' rings,
which drop their oldest rows; jitter statistics. Lua, JSON, HTTP and the systems'
MIDI interfaces are external and modelled from how the code uses them.

What would come next: `SysexThru` on top of `ThruEngine`'s queue, to say in which
order dumps and short messages reach an output; `ScriptHost`'s timers as a
refinement of `ThruEngine`'s.

To check: `tlc -config ThruOrder.cfg MC_ThruEngine`, and likewise for the others
(each configuration belongs to the module that `PROJECT.json` names);
`tlapm ThruEngine_proofs.tla`, and likewise.
