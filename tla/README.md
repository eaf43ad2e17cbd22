# Verification of the SC-ADAT appliance

The appliance turns a PC with an RME Digi9652 into an ADAT mixer: JACK runs the
card, scsynth mixes 16 inputs into eight groups and a master, `mixerctl` answers
clients over OSC, and a native recorder writes every source to disk while the
mixer runs; beside it are a bridge for the keyboard and trackball of a Dyaxis console and
offline tools for that console's firmware. This directory holds TLA+ models of the
control logic, TLC configurations that check them on small instances, and TLAPS
proofs that hold for every size.

Paths below are relative to the root of the repository.

1. [The system and its parts](#1-the-system-and-its-parts)
2. [Modules](#2-modules)
3. [How the models correspond to the code](#3-how-the-models-correspond-to-the-code)
4. [Runs, bounds and results](#4-runs-bounds-and-results)
5. [Fairness](#5-fairness)
6. [Proofs](#6-proofs)
7. [Where the code and its documentation disagree](#7-where-the-code-and-its-documentation-disagree)
8. [Not modelled](#8-not-modelled)
9. [Running the checks](#9-running-the-checks)

## 1. The system and its parts

```
 clients (console, Norns, Chataigne)
        |  OSC/UDP  /mixer/set, get, get-all, meters
        v
 mixerctl.serve ---- OSC/UDP ----> scsynth (routers, groups, master, generator)
   |  RecorderManager                  | JACK ports
   |  Popen, signals, status file      v
   +--------------> sc-adat-recorder <-+   (also arecordmidi)
                        | WAV, segment.json, recorder.status
                        v
                 recording volume
```

| Part | Source | State | Operations | What is hard | What makes it correct |
|---|---|---|---|---|---|
| Recorder process | `package/sc-adat-recorder/sc-adat-recorder.c` | atomics (`running`, `stop_reason`, `io_failure`, `dropped`), JACK ring, current/staged/retired segment, `recorder.status` | callback, drain/append/promote/stage in the writer thread, two signal handlers | callback, writer and signals interleave without locks; any file-system call fails; disk full or gone; segment boundaries inside a block | tracks are gapless and aligned unless the process says otherwise; segments tile; every stop ends the process with the right word and exit status |
| Recorder manager | `mixer/recorder_manager.py` | `state`, process handle, cached mount check, MIDI child, `session.json` | `status`, `start`, `stop`, finalization | process, file and mount change between two looks of one call; killed recorder; unmount | no recorder is lost or started twice; `session.json` tells the truth; failures show; mount loss ends a recording |
| Source map | `mixer/source_map.py`, `mixer/mixerctl.py` | the map of mono and stereo sources over 16 inputs | load, propose, validate | long sequences of pair, un-pair and group edits | every input in exactly one place; an edit changes what it names |
| Mixer controller | `mixer/mixerctl.py` `serve` | published dictionary, `values`, deadlines, nodes on scsynth, messages in flight | `/mixer/set`, `/mixer/get`, `/mixer/get-all`, recorder controls, timeouts | 32 datagrams per edit; three copies of the truth (published, configured, heard); a blocking socket | no input is heard twice; what is published is heard; the generator never sounds without a fresh arm and always ends |
| Graph start | `mixerctl.py` `start_graph`, `read_config`, shutdown | attempt counter, socket timeout | `/sync`, `/n_free`, `/g_new`, `/s_new`, retries | late acknowledgements, `/fail`, replies to an earlier life, a signal at any point | a serving mixerctl owns its graph and no other |
| Bulk state and console | `mixerctl.py` `state_chunk_packets`, `mixer/console.py` | snapshot, chunks, attempts | get-all, get, set and read back | chunks in any order, replies of earlier requests, timeouts | an accepted snapshot is one state of the server; the master is not raised unconfirmed |
| Control contract | `mixer/control_contract.py`, `control/generated` | none (a table) | generation, validation | agreement of three tables | keys and ranges agree |
| Recorder policy | `mixer/recorder_policy.py` | none | free-space and segment arithmetic | boundaries | the reserve is never spent |
| Audio clock | `audio/clock.py`, `scripts/mixer` | ALSA sync mode and source, running services | `set`, `apply`, `status`, `preflight` | any call fails or does nothing, the rollback too, behind which nothing is read back; a person starts or stops the mixer meanwhile | the verdict is what the card has, as far as the card obeys the rollback; no change under a running JACK; services run again |
| Payload | `scripts/payload-*`, `payload/runtime/payload-consumer` | releases, `current`, `previous`, loaded definitions | build, promote, rollback, select, activate | crash between renames; invalid release | an invalid release is never active; there is a way back |
| Boot | `board/.../init.d`, `usr/bin` | ready files, pids | ordered start scripts, self-test | services that die after they were ready | PASS means that it runs |
| Live processor | `live-processor/src` | ring, per-role gain state, shared meters | input/output callbacks, `process_block` | overrun, underrun, torn meters | bounded output, counted losses |
| AW2816 bridge | `live-processor/aw2816` | running status, pending message, SysEx buffer | byte parser, ingest, replay | interrupted messages, real-time bytes anywhere | no byte is lost or read twice |
| Norns client | `control/norns` | `ready`, received keys, status | synchronize, accept, send | replies of an earlier round, mismatching contract | unready until all is read from the right contract |
| Dyaxis ADB bridge | `dyaxis/bridge` | pressed keys, repeat deadline, LEDs, buttons | packets from the serial line, LED events | lost or split packets, an LED that is switched before the lock it shows | no letter stays down for ever; the LED agrees with the desktop |
| U17 tools | `dyaxis/analysis`, `dyaxis/host` | an image, registers; a byte counter; a simulator under a pseudo-terminal | build, validate, emulate; one service byte; start, step, stop | carries and borrows, a counter of one byte, two processes and a deadline | three checksums agree; a frame has the length it announced; a reported stop happened |

`PROJECT.json` lists the remaining parts (builds, probes, Chataigne, synthesis
definitions), which keep no state of their own, and the hazards at
their lines. Hazards of parts that no module models, beyond those in `PROJECT.json`:

* payload: `switch` moves `current` before `previous` (`payload/runtime/payload-consumer:8`); `valid` compares the manifest with a list of six files while `scripts/payload-build:34` lists all it packs (line 6); after an activation at boot the loaded release may not be `current` (line 15).
* Norns: a second synchronization counts replies to the first (`control/norns/sc_adat.lua:165`), and any `/mixer/ok` replaces the status CONTRACT MISMATCH (line 256).
* manager: a restarted mixerctl has no handle on a recorder that still runs (`mixer/recorder_manager.py:25`).
* clients: a source is addressed by a number that another client's edit may change while the write is in flight (`mixer/mixerctl.py:797`).
* live processor: a full ring drops the newest frame (`live-processor/src/live.rs:136`), an empty one feeds zeros to the gains (line 187); a meter snapshot may mix two blocks (`live-processor/src/core.rs:91`).
* AW2816: the rest of an over-long SysEx is read as data without status (`live-processor/aw2816/src/lib.rs:211`), and running status lives across real-time bytes (line 273).
* boot: the self-test looks at ready files, while scsynth runs under a limit of 20 seconds (`S60self-test:11`, `S50scsynth:9`), which ends about when its readiness loop does (line 12).

**Interaction.** Clients talk to `mixerctl` alone. `mixerctl` is one thread:
`serve` handles one datagram after the other and calls `RecorderManager` in the same
thread, so there is no lock anywhere in the control plane; concurrency comes
from the other processes (scsynth, the recorder, arecordmidi), from the mount, and from
clients between whose messages anything may have happened. Inside the recorder
the JACK thread, the writer thread and signal handlers share atomics and one
lock-free ring. `audio-clock` is a command of its own that meets the mixer through
docker and the card. The Dyaxis tools touch nothing of the mixer.

## 2. Modules

| Module | Kind | What it is |
|---|---|---|
| `Recorder` | component | the native recorder: callback, ring, writer, signals, segments, status file, exit |
| `CaptureStream` | abstract | what a multitrack capture promises |
| `RecorderRefinement` | refinement | `Recorder` implements `CaptureStream` through the concatenation of its WAV files |
| `RecorderProcess` | abstract | the process as its parent sees it: life, stop reason, status file |
| `RecorderStatusRefinement` | refinement | `Recorder` implements `RecorderProcess` |
| `RecorderManager` | composition | the manager together with a `RecorderProcess`, the volume and the MIDI child |
| `SourceMap` | component | the map, its validation, the entries an edit proposes |
| `InputMapping` | abstract | clients' view: who shares a source with whom, and in which group |
| `MixerControl` | composition | `serve` over `SourceMap`, with scsynth behind a queue of messages; implements `InputMapping` |
| `TestGenerator` | component | the arm, run and node deadlines of the test generator |
| `MixerStart` | composition | `start_graph`, shutdown, kill and restart of mixerctl, with scsynth message by message |
| `MixerConsole` | composition | `OscClient` and the console over a faulty network, with the handlers of the server and another client |
| `AudioClock` | composition | `audio-clock set` with its amixer and docker calls, beside `mixer start` and `mixer stop` |
| `AdbBridge` | composition | the bridge's loop between keyboard, serial line and desktop |
| `U17Image` | algorithm | the builder, the validator, the emulated start-up check and two transcriptions of its checksum |
| `U17Service` | component | the simulated dispatch of service bytes |
| `U17Session` | composition | uCsim and its harness around a pseudo-terminal |
| `U17Bench` | composition | one of the three U17 tools at a time |
| `RecorderProofs` | proofs | the recorder: its invariant, order, alignment and end of a recording; its steps are steps of `RecorderProcess` and of `CaptureStream` |
| `RecorderManagerProofs` | proofs | the manager with any recorder process |
| `MixerControlProofs` | proofs | the map, the routers, the published values; the refinement of `InputMapping` |
| `MixerNodesProofs` | proofs | the nodes on scsynth: the graph of `MixerStart` and the node of `TestGenerator` |
| `MixerConsoleProofs` | proofs | the calls of the console over the network |
| `AudioClockProofs`, `AdbBridgeProofs` | proofs | the clock command; the bridge |
| `U17Proofs` | proofs | the service bytes, the simulator's session and the image's checksums |
| `MCRecorder`, `MCRecorderRefinement`, `MCMixerControl`, `MCU17Bench` | instances | constants for TLC; the other configurations use their component directly |

The chain is: `Recorder` => `RecorderProcess`, and `RecorderManager` is composed with
`RecorderProcess` instead of the whole recorder. So the manager is checked against
everything the recorder may do to its status file and its exit, without the
frames. Likewise `MixerControl` => `InputMapping`, and `MixerStart` explains the initial state of
`MixerControl`: all routers of the configured map are there when `serve` begins
(`GraphOnReturn`, and what it leaves open). Actions whose names appear after "Slip" or "Faulty"
in a comment are mutants: plausible bugs, used nowhere in a specification;
`PROJECT.json` says which property each of them breaks.

## 3. How the models correspond to the code

`PROJECT.json` maps each definition to its lines. The main decisions:

**Recorder.** A captured frame is its ordinal number, and a segment keeps the
sequence of numbers in each track's file: loss, repetition and disorder show
at once. `CallbackEnter` reads `running`, `CallbackCopy`/`CallbackOverflow` is the rest
of `process`: anything may happen in between (line 79). The writer is split at every
place another activity can be noticed: drain, each track of a block, promotion,
staging, the end of the loop, the report, `main`. `Outcomes` is the result of a
file-system call, `Probes` that of `statvfs`; the volume may go at any time. Free
space has three levels, the ones the code tells apart. Not modelled: `load_plan`,
argument checks, JACK setup, sample formats.

**Recorder manager.** `pc` stands between two looks of one call: the first read of
the status file, `poll()`, the second read, the mount check, connecting the ports.
`status()` inside `start()` is the same code and the same actions, told apart by
`request`. The mount is checked at most every five seconds and cached (`due`, `mountOk`). `raised`
is the end of mixerctl by an exception that nothing catches: a second reading that is no
JSON (`PollRaises`), or a recorder that is still there three seconds after the SIGKILL of `start`'s
abort (`AbortTimesOut`, line 279), since `serve` does not catch `TimeoutExpired`. `NoOrphanRecorder` is about a mixerctl
that lives: the end of mixerctl itself leaves a recorder without a parent.

**Source map and controller.** A source is mono or an ordered stereo pair. An ID is a sequence
that gets one element longer with each un-pairing, as the code appends `_<input>` to the old ID.
`RuntimeSourceEntries` is the whole of `_runtime_source_entries`, with its
early returns in `EditAllowed`. An edit is one action: it replaces `sources`, renews the
published dictionary, and appends to `osc` a free for each of the slots and one
`s_new` for each source, in the code's order; scsynth takes them one at a time.
Of the eight source controls Trim, Pan and Width stand for the three ways a
control can depend on the mode; the panic mute stands for the controls that have
nothing to do with sources. Values are from a small set, 0 and 1 among them.

**Test generator.** Deadlines count seconds. `blocking` is the consequence of
`start_graph` leaving the socket without a timeout: with it, the poll that clears the
published values never comes. `node` is scsynth's own timeout in the SynthDef.

**Start of the graph.** Loopback datagrams to scsynth and back keep their order and are
not lost, but come late: `toSc` and `toCtl` are the two queues. Both modes are there: the stereo mode loads two SynthDefs and waits
for them (`FirstSynced`), the quad mode goes on at once (`QuadSynced`). `start_graph` takes any
`/synced` for the answer to its last `/sync`, whatever the number, as the code does; a retry
comes after any quarter of a second of silence, so at any time. A kill leaves
everything that is under way, a new life opens the same port and gets the replies that were not
sent yet (`inherited`). A node is freed with its container. The 16 router numbers are
freed, those of the map made; two of them and one group stand for all.

**Console.** One control is one chunk. Every lost, repeated, delayed or overtaking
datagram and every time-out before its time is one of `MaxFaults`. A time-out when nothing
is under way costs nothing: it must come. `outcome` is what the last call returned, `seen` and `odd`
are history for the properties. `Adjust` is one step from the value that is shown, `Enter` a typed
number; both decide against `console[Master]` whether to confirm.

**Audio clock.** Each amixer and docker call is a step: done, failed, or, for a
write, accepted without effect. The two writes of the rollback are no different (`UndoMode`,
`UndoSource`), and as line 138 prints its message without a readback, `cmd.ignored` keeps for the
properties which of them had no effect: `OutcomeIsTrue` vouches for the other ones. Reading the card and the
report after the change may fail as well (`Look`, `After` with the verdict `unread`). A `compose up` or `stop`
that fails may have started or stopped any of the services. `StartChecks` and `StartServices` are the two halves of
`mixer start`, between which the clock may be set: the lock of `mixer start` is not
taken by `audio-clock`. `blind` marks a behaviour in which docker failed the command
or a start came beside it: the code takes a docker that fails for a stopped mixer (line 65).

**Bridge.** A packet is a sequence of tokens; `Read` takes a whole line, a part of
it (the 20 ms of `readline` end and neither half is a packet), or nothing. The steps of
a turn are in the code's order: LED events, the repeat that is over, the tokens. The desktop toggles
its lock for a tap later than the bridge switches the LED. Of the LEDs only the Caps bit is modelled: `Init` is behind
the tap that turns a lit Caps Lock off; the one that turns Num Lock on, and the LEDs sent once more when the
keyboard answers after its reset (`adb_mouse_bridge.py:117-138`), are left out. `Tick` is time while `readline`
waits; the age of the repeating key stops at its limit.

**U17 tools.** A byte has `Base` values, so a carry, a borrow and a wrapped sum
happen in an image of fifteen bytes; the layout (sum, signature, checksum, trampolines) is
the code's with other numbers. `Lose` changes any byte before the check begins. The service bytes have
the values of the source, eleven of the 256, on both sides of each comparison.
The simulator and its harness are two processes; what the child prints is read in any pieces, and lines that
nobody looks for may come between (`Talk`). Both waits end after five seconds or with too much output (`GaveUp`: 2,000,000
bytes in the code, `Enough` messages here). Two assumptions: of uCsim, that the command file ends with the
message of its last breakpoint; of Linux, that a write to the master of a pseudo-terminal whose child is gone
is accepted and dropped, and only the read fails, so `TypeStep` and `TypeState` raise nothing. `Start-up` is always the
emulator's: the console itself answered `Checksum Failed` to a candidate that the emulated check accepts
(`dyaxis/analysis/U17_FIRST_APPLICATION_FAILURE.md:13`, line 34), so the model says nothing of how the hardware maps that memory.

External definitions (in the map marked so) are scsynth's handling of its commands and the life of a
node, as `start_graph` and `serve` rely on them; the network, other clients, docker, ALSA, the desktop, the
keyboard and uCsim, as the modelled code meets them; and what the kernel, the volume
and the passing of time do.

## 4. Runs, bounds and results

Passing runs:

| Run | Instance | Properties | What it shows |
|---|---|---|---|
| `recorder_faults` (970,000 states) | 2 tracks, segments of 2 frames, blocks up to 2, ring of 3, 5 frames, every failure | `Tiled ExactRecording InOrder FilesClosed StoppedExitsZero ImplementsRecorderProcess` | rotation, counts and order of frames survive every interleaving and failure, and the process keeps the promises the manager needs |
| `recorder_stream` (126,000) | the same without failing calls | `ImplementsCaptureStream StopEndsProcess` | the recording is one gapless capture per track; every stop ends the process |
| `manager` (209,000) | sessions one after the other, with kills, unmounts, remounts and I/O errors | `NoOrphanRecorder CleanIsClean FinishedIsRecorded FailureShown StopCollected MountLossStops` | no recorder is lost, `session.json` and the state are right about how a recording ended; a stopping recorder is collected, and mount loss ends a recording |
| `mixer` (318,000) | 3 inputs starting with a pair, 3 edits, 1 write, up to 6 messages behind | `ProposalsCover NeverDoubleRouted RoutedWhenDrained ImplementsInputMapping SetsLand ValuesFollowSource` | every edit keeps the map sound; halfway through any rebuild no input is heard twice and no write is lost; values move with their source |
| `generator` (635) | arm 3 s, run 5 s | `SoundNeedsArm SoundEnds AutoStopShown` | every sound is armed afresh and ends |
| `clock` (345,000) | an input with and one without a Sync Check, two rates, every call may fail, every write may have no effect | `OutcomeIsTrue QuietChange ServicesReturn` | the verdict is what the card has, whichever call failed, but for a control whose rollback the card ignored; the clock never changes under a JACK that docker told of; services come back |
| `start` (136,000) | 2 router numbers, 1 used, 1 group, 3 attempts, 2 lives | `GraphOwned GraphOnReturn NoFalseRejection` | whatever an earlier life left, a serving mixerctl ends with its own graph and no other node |
| `console` (1,490,000) | 2 controls, 2 values, 3 retries, 3 calls, 1 foreign write, 2 faults | `SnapshotIsServerState RecoversLosses RaiseConfirmed ReadbackIsOfKey` | a whole state is one snapshot of the server; losses are retried; a master is not raised unconfirmed |
| `adb` (372,000) | 2 letters, 1 modifier, Caps Lock, 1 button, 3 strokes, 1 lock change elsewhere | `FollowsKeyboard NoOrphanKey LedsAgree RepeatEnds` | Linux follows the keyboard; with lines lost no letter stays down for ever, and the LED still agrees with the desktop |
| `u17` (664,000) | byte of 5 values, image of 15 bytes, 2 lost bytes; 11 service bytes; 2 breakpoints, 2 other lines, 3 messages are enough | `VerdictsAgree FrameLength ReportIsTrue` | the checksums agree and see each lost byte; a frame takes the bytes it announced; a reported stop is where the program is, and a breakpoint or the step is lost only when the wait was given up |

Two runs find the code at odds with its documentation (section 7): `mixer_heard`
and `manager_dead_recorder`. Four more configurations, which are not part of the
run list, reproduce further disagreements:

| Configuration | Module | Violated |
|---|---|---|
| `MCRecorderStart.cfg` | `MCRecorder` | `FinalizedStartsOnTime` |
| `MCMixerPairs.cfg` | `MCMixerControl` | `PairsStay` |
| `MCMixerSession.cfg` | `MCMixerControl` | `SessionFollowsMap` |
| `RecorderManagerUnpolled.cfg` | `RecorderManager` | `MountLossStops` under `UnpolledSpec` |

**Why the bounds are enough to see something.** In the recorder, five frames with segments of
two and blocks of up to two give two rotations, a block that ends on a boundary and one
that crosses it; a ring of three holds a block and a half, so both fits and
overflows occur at each position. Two tracks are the fewest that can disagree; the proofs
cover any number. The manager has no bound: its state is finite. Three edits over
three inputs are the fewest that pair, break the pair from its other side and pair
again with a third input; two pairs at once need four inputs and are in
`MCMixerPairs.cfg`, and the proofs cover any number. `MaxBacklog` limits how far scsynth may lag when
the *next* request is handled: with 6, a request may meet an almost complete rebuild
still in flight. Arm and run times differ and are long enough that each may end first in every order with
the node's. Three attempts are one more than `GraphOnReturn` can vouch for, so that the
first attempt whose acknowledgement is another's is included; two lives are one inheritance.
Two faults can lose a chunk and repeat another, or hit two attempts of one call; a third attempt
then succeeds, which `RecoversLosses` states. Three strokes are a
press, a press of another letter and one of the two releases; with a limit of two ticks the
repeat may end before or after the release. In the U17 image the sum begins at 20 and ends before 41
in base five: the address carries, the end borrows, and a full payload wraps the sum. With two other lines
and three messages that are enough, the harness gives up before the command file has ended, between the
breakpoints and the stop, or not at all.

`CHECK_DEADLOCK FALSE` is used where the system stops: the recorder, a process that ends; `start`
and `console`, after the last life or call of the bound; `u17`, when a report is made.

## 5. Fairness

* **Recorder**: weak fairness of the writer thread, of `main` and of the end of a
  callback. The kernel schedules a runnable thread, and a callback is a bounded
  copy. Nothing is assumed of JACK calling, of signals, or of calls succeeding.
* **Manager** (`MSpec`): weak fairness of the steps inside a call (one running thread), of the
  clock behind the five-second check, and of the recorder's own end (`PFairness`, a
  consequence of the recorder's fairness by the refinement); strong
  fairness of `CallStatus`, which stands for clients that keep asking for values. The
  last is an assumption about clients: mixerctl itself polls only when its socket
  times out, and `start_graph` ends with `settimeout(None)` (line 648). `UnpolledSpec` drops it,
  and `RecorderManagerUnpolled.cfg` shows what is lost.
* **Generator**: time passes (WF of `Second`) and, where the socket can time out, the
  poll comes (WF of `Poll`).
* **Audio clock**: weak fairness of `Command`, the next call of a command that was begun.
  `subprocess.run` returns or raises; nothing is assumed of success or of the persons beside it.
* **Bridge**: weak fairness of `Loop`, since `readline` has a time-out, and strong fairness of `Tick`:
  time passes in each of infinitely many waits, while the loop leaves the waiting state again and again.
* **Mixer, start, console, U17**: only safety is claimed, so no fairness; `RoutedWhenDrained` and
  `GraphOwned` speak of the states in which all messages have arrived.

## 6. Proofs

All obligations are discharged by SMT, Zenon and PTL.

**Recorder** (`RecorderProofs`), for any number of tracks and any ring, block and
segment size. Assumption: `RecorderAssumption` (positive sizes). Type correctness is
inductive by itself. `Tiled`, `WrittenOnDisk` and `ExactRecording` are not: a write
extends the current segment by frames that only the ring counters describe, and a promotion
makes the staged segment the current one. So the inductive invariant `IInv` has them together
with `Counters`: `written <= taken <= drained <= accepted`, a block is under way only in
`append`, there is a segment wherever the writer may write, and a staged segment is fresh and
starts where the current one ends. `ExactRecording` then survives a write because, while
nothing was given up, `taken` is the end of the current segment (`WrittenOnDisk` and
`Tiled`). `ReasonKept` is an action property, proved action by action.

The order of the files needs more. `InOrder` needs `Passed`: no file holds
a frame the writer has not come to, so whatever a write appends, torn or whole, comes after
everything there is. `OnePeriodLate` needs that the loop is left only when
stopping, when no new callback begins. `StoppedExitsZero` has a hypothesis, `PeriodsFit`: each period fits
into the callback's buffer (4096 frames) and into an empty ring (8 MiB). Without it the
statement is false: a period too large that was under way at the report would be dropped after
it, and `main` would exit with 4 behind a file that says `STOPPED`. The instance of
`recorder_faults` meets it. `FilesClosed` is inductive together with `IInv`.

`RecorderIsProcess` shows for every instance that the recorder takes only steps of
`RecorderProcess`. Its invariant `StatusInv` says that a process that is stopping has a reason
and that the exit comes last. The fairness of `RecorderProcess` is checked by TLC only.

`RecorderIsCapture` shows that it takes only steps of `CaptureStream`, from `NoFaults`: no call fails
while the volume is there, and free space does not grow, the switches of `recorder_stream`. Both are needed:
a segment that is refused and then made, or a promotion that fails after a clean stop, lets the
writer go on behind frames it gave up while it reports nothing. The volume may still go and space end. The abstract
capture is the join of all files of a track, a fold of the library. What a fold
yields is a fact about all sequences, which would need induction; it is proved first-order instead. `Joins` describes the
partial joins as one function, and a least length for which a lemma fails is led to a contradiction
(`LeastNumber`, from the well-foundedness of the numbers): there is one such
function (`JoinsExist`, `JoinsAgree`), and what is appended to the last file is appended to the join
(`FlattenLast`). The invariant `StreamInv` then says of each track that its join rises and, until
the recorder knows of a failure, that it is the capture up to `written`; `written` falls behind `taken` only
where the writer can no longer get on (`Stuck`), which under `NoFaults` lasts.

**Manager** (`RecorderManagerProofs`), assumption `ManagerAssumption` (four Booleans).
`MTypeOK`, `NoOrphanRecorder` and `CleanIsClean` are inductive together: `clean` survives a
step of the process because a process that moves is alive, and then known and not clean. The
proof sorts the actions into those that leave process and session alone, those that move or
signal the process, and those that end, collect or start one. `SessionKept` is an action
property that follows from `NoOrphanRecorder`. `SessionsCompleted` and `FailuresShown` go through the
steps that forget a process, of which there are few: each has written `session.json`, or met a
volume that is not ready, and has the state of the second look at the file.

**Mixer** (`MixerControlProofs`), for any number of inputs, groups and values and any
backlog, from `ConfiguredAssumption` (the configured map is valid: `read_config`
validates it), `TrimAssumption`, `ValuesAssumption` and `NoNodeAssumption` (an empty slot is no router).

* *The map.* The invariant is `MapInv`: the map consists of sources and has each input in exactly
  one place. `Covers` is what an edit needs to find the one holder of an input
  (`HolderFact`), and what its proposal has again (`EditsCover`), from which `MapInvariance` follows.
  `MappingRefines` maps `Init` to the initial states of `InputMapping` and each edit to
  `Pair`, `Unpair` or `Regroup`, and every other step to a stutter.
* *The nodes.* What holds of the routers now depends on all messages still on their way, of
  which there may be any number. `GraphInv` says that there is a future: a function that
  gives the routers after the first *k* pending messages (`Future`), in which no input is ever
  routed twice, each `n_set` meets a node, and the last value is the map's. A message that is sent
  extends the function at its end (`SendLeads`, `RebuildLeads`), one that is handled drops its first
  value (`LeadsFact`); so no induction over the queue is needed. That a rebuild has such a future from *any*
  routers is where the order of the code matters: all slots are freed before the first
  is made (`FreesFuture`, `NewsFuture`). `RoutedOnce`, `DrainedIsRouted` and `WritesLand` read the
  first and the last value of the future.
* *The dictionary.* `MixerTypes` needs that IDs tell the sources of the map apart, since values
  are looked up by ID: otherwise an edit could publish a control of the other mode. `ValuesMove` needs the same
  of the new map: the value a client finds is looked up in the old map by the ID of a source in the new one,
  and a source with the same inputs has the same ID.

**Start** (`MixerNodesProofs`), for any routers, groups, attempts and lives, from `FiniteAssumption` (finite sets)
and `NodesAssumption` (the router numbers and the other nodes differ).

* *What the queue brings about.* What a serving mixerctl will have depends on every command
  under way, its own and those of earlier lives. `Present(n, nodes, toSc)` says that *n* will be there when all are
  handled: a command that makes it is followed by none that frees it, or it is there and none frees it; `Absent`
  is the reverse. The invariant `EndInv` has `Ends`, what each place of `start_graph` has already brought about, and `Succeeding`:
  each `s_new` and `n_set` under way finds its container, and finds its number free. A handled
  command shifts the queue by one (`SettledShift`), a sent one extends it (`SettledNew`);
  what the long bundles of a start do is proved once (`GraphFact`, `BusesFact`). `GraphIsOwned` is its case of an
  empty queue, `OnlyMissingDefs` follows since with the SynthDefs there is no `/fail` but of a free.
* *Which reply is which.* `GraphThereOnReturn` is about the `/synced` that ends a start. `Timely` says
  for a first life with one or two attempts that behind the first or the second sync still to be answered no command makes or frees
  a node of the graph. With a third attempt it does not hold, and neither does the property (section 7).

**Console** (`MixerConsoleProofs`), for any finite set of controls (`KeysAssumption`), any values, retries, calls and faults. `Base` says that what an attempt
gathered is part of the one snapshot it names, from which `WholeSnapshots` follows whatever the network does. The
others are about calls that begin with nothing under way. `ReadInv`: requests and replies
between a write and its read-back are of its key, and no value on the way is older than the write. `RecInv`: in an
attempt with nothing late or repeated, either everything still missing is under way, or one more datagram was lost than
attempts were given up. `CalmInv`: as long as nobody else writes, no write failed and no reply was late or repeated, the console shows
what the server has, but for the one key whose write is under way; `NoSilentRaise` is its consequence
for the step that sends a write of the master.

**Generator** (`MixerNodesProofs`), for any two times (`TimesAssumption`). Nothing in the
state says how old an arm is, so the history (`armed`, `sinceArm`) is related to the deadline:
`sinceArm + armLeft = ArmSeconds` while there is one, and then the arm is unused. A
node begins to sound only in `Enable`, behind a deadline that has not passed.

**Audio clock** (`AudioClockProofs`), for any inputs, checks and rates (`SourcesAssumption`, `RatesAssumption`). `CInv` says for each
place of the command what the card may hold: before the first write the old values, after it the old
source and one of two modes, in the rollback whatever the writes left, then the old mode unless the card ignored it; and that a
command that was not `blind` has an `audio` that is down wherever it writes. `VerdictIsTrue` is its case
`done`, `ClockChangesQuietly` follows because only the four writing steps change the card.

**Bridge** (`AdbBridgeProofs`), for any keys; Caps Lock is none of them (`CapsAssumption`). `NoOrphanKey` is inductive by itself:
a press releases what was watched before. For `LedShowsLock` the invariant relates the LED
to events that are still to come: the last of them is the lock of the desktop. A tap switches the
LED at once and leaves `taps` above zero until the desktop answers it with an event, so
whatever the LED shows meanwhile, the event that is read last sets it right. `KeyboardFollowed` has `Told` for each key: the last
edge of it on the wire, or else in the line that is handled, or else what Linux has, says whether it is held;
two edges of one packet are in one line, so the last packet with an edge of the key decides by its last.

**U17 tools** (`U17Proofs`), for any set of received bytes, any breakpoints and any number of them that is waited
for (`BreaksAssumption`), any limit of the output (`OutputAssumption`). `FrameInv` relates the two counters in a transfer: they make up what was announced, or 257 when one byte was
announced and selected the payload. For the session, `SessionInv` says what the messages printed so far tell of the program
(`Truthful`), that one step is typed and nothing before it (`OneStep`), that it is typed behind the last message of the
command file unless the wait was given up (`Loaded`, by counting messages, and `GaveUpStays`: the text never shrinks), and that a breakpoint in the text ends the wait (`Found`).
Reading moves the border between text read and text printed, and `Truthful` does not depend on that border.
For the image (`LayoutAssumption`: the layout fits the addresses, it begins on a page, payloads end before the signature), `ImageInv` says that the
loop stands at `XBase + n` while r4 and r5 hold the sum of the first `n` bytes (`Holds`: as the digits of its remainder), so that the compare
with borrow (`Compares`) ends it at the end of the sum, and the complement of the two bytes is that of the word (`Digits`). One byte that differs
changes the sum by less than `Base`, hence its remainder (`OtherRemainder`). The sums are recursive functions; a least place where a
fact fails (`FirstPlace`) replaces the induction.

| Theorem | Statement |
|---|---|
| `RecorderTypes`, `RotationTiles`, `ReportedIsOnDisk`, `RecordingIsExact`, `FirstReasonStays` | `TypeOK`, `Tiled`, `WrittenOnDisk`, `ExactRecording`, `ReasonKept` |
| `FramesInOrder`, `TracksStayAligned`, `StopLosesOnePeriod`, `StoppedMeansZero`, `AllFilesClosed` | `InOrder`, `TracksAligned`, `OnePeriodLate`, `StoppedExitsZero`, `FilesClosed` |
| `RecorderIsProcess` | `Recorder` implements `RecorderProcess` without its fairness |
| `RecorderIsCapture` | under `NoFaults`, `Recorder` implements `CaptureStream` (`ImplementsCaptureStream`) |
| `ManagerTypes`, `NoRecorderLost`, `CleanTermination`, `SessionsKept`, `SessionsCompleted`, `FailuresShown` | `MTypeOK`, `NoOrphanRecorder`, `CleanIsClean`, `SessionKept`, `FinishedIsRecorded`, `FailureShown` |
| `MixerTypes`, `MapInvariance`, `EditsCover`, `MappingRefines` | `MxTypeOK`; the map is sound; `ProposalsCover`; `ImplementsInputMapping` |
| `RoutedOnce`, `DrainedIsRouted`, `WritesLand`, `ValuesMove` | `NeverDoubleRouted`, `RoutedWhenDrained`, `SetsLand`, `ValuesFollowSource` |
| `EndsRight`, `OnlyMissingDefs`, `GraphIsOwned`, `GraphThereOnReturn` | the queue ends in the graph; `NoFalseRejection`, `GraphOwned`, `GraphOnReturn` |
| `GeneratorTypes`, `SoundIsArmed` | `GTypeOK`, `SoundNeedsArm` |
| `ConsoleTypes`, `WholeSnapshots`, `ReadbackFresh`, `LossesRecovered`, `NoSilentRaise` | types; `SnapshotIsServerState`, `ReadbackIsOfKey`, `RecoversLosses`, `RaiseConfirmed` |
| `VerdictIsTrue`, `ClockChangesQuietly` | `OutcomeIsTrue`, `QuietChange` |
| `LettersAreWatched`, `LedShowsLock`, `KeyboardFollowed` | `NoOrphanKey`, `LedsAgree`, `FollowsKeyboard` |
| `TransfersEnd`, `TrueReport`, `VerdictsAreOne` | `FrameLength`, `ReportIsTrue`, `VerdictsAgree` |

The type invariants, `WrittenOnDisk`, `TracksAligned`, `OnePeriodLate`, `ReasonKept` and
`SessionKept` are proved and no longer part of a run.

**Only model-checked**: everything that eventually happens (`StopEndsProcess`,
`StopCollected`, `MountLossStops`, `SoundEnds`, `AutoStopShown`, `ServicesReturn`, `RepeatEnds`)
and the fairness in `ImplementsRecorderProcess`, because liveness under fairness is out of the prover's reach. Every safety invariant and every action property
that a passing run checks is stated by a theorem.

## 7. Where the code and its documentation disagree

Each with a counterexample that TLC finds, in a run of the list or in one of the configurations of
section 4:

| Configuration | What happens |
|---|---|
| `RecorderManagerDead.cfg` (run `manager_dead_recorder`) | A killed recorder leaves `RECORDING` in its file, the manager adopts it, and no recording can start until mixerctl is restarted. |
| `MCMixerHeard.cfg` (run `mixer_heard`) | After an edit the new router has the configured controls while the published ones are the client's; the other way round for the panic mute. |
| `MCRecorderStart.cfg` | After a promotion was refused for space, the writer drops the rest of the block and goes on; if space comes back the next block starts a segment whose `start_frame` is too small, and it is finalized (`sc-adat-recorder.c:253`). |
| `RecorderManagerUnpolled.cfg` | Without a client asking for values nobody looks at the mount, because the socket blocks for ever (`mixerctl.py:648`). |
| `MCMixerPairs.cfg` | An edit of one input splits every pair it does not name (`mixerctl.py:388`); a group edit through the right input exchanges the sides (line 411). |
| `MCMixerSession.cfg` | A recording started after an edit uses the map of the start (`mixerctl.py:723`). |

Met while modelling, each visible in a model but without a run of its own:

* A full stop reports `STOPPED_FULL` even after an I/O failure (`sc-adat-recorder.c:332`; `docs/stereo-performance-recording.md:18`), and the manager lets it
  replace `DISK_LOST` in its own state (`recorder_manager.py:116`, the same document at line 49).
* A promotion refused after SIGTERM drops frames, yet the process reports `STOPPED` and
  exits 0 (`sc-adat-recorder.c:253`).
* The older `trim<N>` and `source<i>Trim` set one control of one node and do not follow
  each other (`mixerctl.py:837`; `docs/mixer.md:51-55`).
* `source<i>Group` and `channel<N>Group` take any number and change nothing (`mixerctl.py:203`).
* A mono source does not get its ID back when a pair is broken (`mixerctl.py:390`; the contract
  calls the field stable), and a second break of the same pair may be refused for a duplicate ID.
* `testGeneratorEnable` stays 1 after the sound ended when the socket blocks
  (`mixerctl.py:648`); a mapping edit shows a sounding generator as off (line 522); an enable
  while the last node still sounds is answered ok and refused by scsynth (line 820).
* Clients name a source by its number, and an edit of another client renumbers it (line 797).
* From the third attempt of a start on, or after a restart beside messages of the earlier life, `start_graph`
  may return before its graph is there (`CompleteOnReturn` in `MixerStart` does not hold): it takes the
  `/synced` of another attempt for its own (`mixerctl.py:631`). Writes that come at once then meet empty slots.
* A chunk of an earlier snapshot fails the attempt that reads it, and what is left of the socket's
  contents fails the next ones as well, so one late answer can use up all three (`console.py:87`). A restart of the server
  numbers its snapshots from one again (`mixerctl.py:712`), which the console cannot tell from the earlier ones.
* `write failed; audio untouched` (`console.py:345`) is shown for every failed write, also for one whose
  acknowledgement or read-back was lost after the server had applied it (`AudioUntouched` in `MixerConsole`).
* In the console the digits 1 to 3 switch pages and cannot be typed into a number (`console.py:557`).
* Clock changes "must happen while JACK is stopped" (`clock.py:99`); with docker out of
  order, or a `mixer start` that had passed its preflight, it may change while JACK runs (`ChangeWhileStopped`).
* `clock change rolled back` (`clock.py:138`) is printed without a readback: when the card ignored a write of the
  rollback it has another clock than before (`RolledBackIsRestored` in `AudioClock` does not hold).
* A recorder that outlives the SIGKILL of `start`'s abort by three seconds ends mixerctl (`recorder_manager.py:279`).
* `audio-clock set` accepts inputs without a Sync Check and Word Clock (`clock.py`), which the preflight of `mixer start`
  then refuses for good.
* A lost release of a modifier is made up for by nothing: it stays down until the key is pressed again
  (`ModifierEnds` in `AdbBridge`).
* The service simulation takes 256 payload bytes, 257 in all, for a transfer announced as one byte whose first byte
  selects the payload; a full block of 128 payload bytes would need a count of 129, which is refused (`u17_host_tool.py:140`).
* A run of the uCsim harness that reaches its deadline, or its limit of output, reports that no breakpoint was met, although the
  output it did not read any more may hold one (`u17_ucsim_runner.py:105`).

## 8. Not modelled

Parts whose behaviour is a matter of control are modelled as far as the table of
components in `PROJECT.json` says. Left out, and why:

| Part | Why |
|---|---|
| Payload, boot | Shell scripts of a handful of file-system calls and BusyBox start scripts. Their atomicity is that of the file system and of init. The hazards are in section 1 and would be the next things to model: a crash between the two symlink switches, a self-test that looks at ready files only. What mixerctl sees of a late scsynth is in `MixerStart`. |
| Control contract | A table with a generated copy; no state. How `serve` treats the keys is in `MixerControl`. |
| Recorder policy | One comparison each. The start reserve is a parameter of `RecorderManager`. |
| Live processor | Gains and filters in floating point; what could go wrong is numeric. |
| AW2816 bridge | A byte parser whose correctness is a statement about unbounded input, in a crate the appliance does not start. |
| Norns client, Chataigne | Clients of the protocol of `MixerConsole`, with pages and generated files around it. |
| Synthesis definitions | Signal processing; the life of a node is external in `MixerControl`, `MixerStart` and `TestGenerator`. |
| Firmware reports | Disassembly and listings, files in, files out. |
| Builds, probes, laboratory scripts | Files in, files out; no state. |

Within the modelled parts: `load_plan`, argument checks, JACK setup and sample formats of the recorder; the contents of
`session.json` and `tracks.tsv`, free-space arithmetic and a restart of mixerctl beside a running recorder; the
syntax of `mixer.conf`, names and ID characters; meters beyond their request, and controls other than the kinds of
section 3; the drawing of the console and its health page; the parsing of amixer's output; trackball
motion and serial capture files.

What is worth proving next: what `ImplementsCaptureStream` becomes when calls
may fail, an abstract capture with a gap that is reported.

## 9. Running the checks

```
tlc -workers 2 -config MCRecorderFaults.cfg MCRecorder
tlapm RecorderProofs.tla
```

`PROJECT.json` names the module and the configuration of each run. Each run takes from a few
seconds to about three minutes with two workers. From nothing `RecorderProofs` takes about six minutes and
each of the other seven one to three.
