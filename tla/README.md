# Verification of the low-latency vision pipeline

TLA+ models, TLC configurations and TLAPS proofs for the pipeline that captures a
Windows desktop, looks for an object in it on a Mac, and holds a key on a USB keyboard
that small boards present to a PC. Paths below are relative to the repository
(`src/` left out); line numbers in the modules' comments refer to it.

    Windows agent --UDP, JPEG--> macvision (source -> detector -> rule -> Trigger)
                                   |  serial, 1 byte            |  UDP, 1 byte
                                   v                            v
                             ESP32 link                    Pi agent  <- real keyboard
                                   |  one wire                  |  serial, frames of 10 bytes
                                   v                            v
                             Pro Micro (HID)     ESP32 proxy -> Pro Micro (proxy)
                                   |  USB                       |  USB
                                   +----------> PC <------------+

The two right-most columns are alternatives: the direct trigger link presses one key,
the Pi merges the trigger with a keyboard that somebody types on.

## 1. The system's components

### Windows agent (`windows-agent/src`) - WindowsAgent
State: the duplication interface, the staging texture and its format, the sequence
number, the stop flag. Operations: acquire a frame (time-out, `ACCESS_LOST`, cursor-only
update, frame), crop it to the staging texture, encode, send. It talks to DXGI (calls)
and to the Mac (datagrams, never answered). Hard: the duplication is lost at any time,
the surface format changes under the staging texture, a frame that does not fit is
skipped, and DXGI is silent while the screen rests, so what was not sent is not sent
later. Correct when: the encoder reads what the surface holds, and the Mac ends up with
what a resting screen shows.

### Sources (`mac-app/macvision/sources`) - UdpSource, Camera, VideoLink
UDP: the socket's queue and the `SequenceTracker` (last number, dropped here, lost on
the way). `recv` takes one datagram, then drains the rest and keeps the newest; foreign
datagrams, overtaking and restarts of the agent all arrive through the same socket.
Correct when: lost and dropped are told apart exactly, and nothing between the screen and
the frame loop swallows the frame on which the screen comes to rest.

Camera: a reader thread, a one-place buffer under a condition variable, the handle,
counters. `recv` waits with a deadline; the reader trades a failing handle for a new
one; `close` waits 0.5 s for the reader. Correct when: every frame is counted as
delivered or dropped, stale means that the device was silent that long, every handle is
released, and `recv` always returns.

### Perception (`detector*.py`, `rule.py`, `stats.py`) - Decision, LatencyStats
Pure functions of a frame and of a window of frames. A CoreML model has an input of its
own size: the frame is scaled into it with padding, and boxes come back through the
inverse; the rule asks whether a box of a wanted class covers the centre pixel. The
statistics know only differences of two machines' clocks, and take the smallest one of a
rolling window for the offset. Hard: rounding on the way in and not on the way out, a
clock that slews, a window that forgets its minimum. Correct when: the verdict is the one
on the objects themselves; the excess is exact and the estimate errs on the side it says.

### Frame loop and start-up (`__main__.py`, `loop.py`) - StartUp, FrameLoop
State: which resources are open, the last evidence, the state handed to the trigger, the
link and whether its keepalive thread lives. `--trigger-target` and `--source` are parsed
and given their defaults; trigger, source and detector are opened in that order, each may
fail, signals become exceptions, a `finally` block takes everything down. Correct when:
the source is the one the text asks for, a return has closed the trigger and every source that
was opened, a camera without input releases, the key is up after any end of the process, and
the exit code tells a link that lost its keepalive from one that never had one.

### Trigger and SerialTransport (`trigger.py`) - MacTrigger, MacSerial, TriggerPort
Trigger: the current state, a lock, a keepalive thread and a stop event; the frame loop
updates, the keepalive repeats, `stop` releases. SerialTransport: the port object and
its descriptor, a lock, a reconnect thread that does not take the lock, a stop event.
Hard: an exception raised by a signal anywhere in `update`, a port that is pulled while
it is opened, written, dropped or closed. Correct when: one writer at a time, the release
is the last byte, no handle is leaked or left open, everything ends.

### Pi agent (`pi-agent/piproxy`) - KeyState, PiProxy, Keyboard, SerialSink, PiLife
`KeyState` merges the keyboard's keys and the trigger's into one report of six slots.
Around it: the keyboard reader (grabs devices, reads events), the UDP receiver and the
HTTP handlers (set keys), the emitter (builds and sends on a nudge or after 20 ms), the
watchdog (releases the trigger after 250 ms of silence) and the main thread (supervises
the emitter, shuts down in order). `SerialSink` owns the serial port: it resolves the
device, opens it lazily with a back-off, drops it on errors. They share `KeyState`
(one lock), the emitter's event, `last_seen` and the sink's lock. Hard: a nudge between
build and wait, an update while the watchdog decides, the emitter's death with the
keyboard grabbed, a sink that is closed while the emitter sends. Correct when: the
report is the union of both sources as far as slots go and never more, no change is
forgotten, the trigger is never held unsupervised, the last report is the empty one.

The process (`main` as a whole, PiLife): it refuses a bad configuration, may find its port
taken, starts threads that press keys before its signal handlers are there, ends on a
signal, an emitter that died or a kill, and systemd starts it again. Behind the serial sink
a board releases what falls silent; behind the gadget (`HidGadgetSink`) nothing does.
Correct when: whoever had a sink and returns has released, and no key outlives the process for
long.

### Report link (`esp32-proxy.ino`, `pro-micro-proxy.ino`) - ReportLink
A frame is a start byte, eight bytes of report and their XOR. The ESP32 counts bytes to
pass whole frames on; the Pro Micro reassembles, checks, sends a changed report to USB
and releases all keys after 250 ms without an accepted frame. Hard: bytes lost at either
hop, a sender that stops in the middle of a frame. Correct when: what the host is shown
was sent, a loss costs a bounded number of frames, the host catches up, silence releases.

### Direct trigger link (`esp32-link.ino`, `pro-micro-hid.ino`) - TriggerLink
The ESP32 keeps the newest byte, mirrors it on a wire and drops the wire after 250 ms of
silence; the Pro Micro presses and releases a key on the wire's edges. Hard: `millis()`
wraps, buffers fill, boards restart. Correct when: silence releases the key in time and
nothing else does, the newest byte counts, the key settles on a state that rests.

## 2. Modules

| Module | Code | What a step is |
|---|---|---|
| KeyMerge | report.py's promise | the set of keys the host is told changes (abstract) |
| KeyState | report.py | one method; all hold the class's lock from start to end |
| PiProxy (extends KeyState) | sinks.py Emitter, TriggerWatchdog; api.py; keyboard.py; piproxy/\_\_main\_\_.py | a thread from one point another thread can see to the next |
| Keyboard | keyboard.py | one scan, one read of a device, one event of the world |
| SerialSink | sinks.py SerialSink | entering the lock, opening, writing, failing |
| PiLife | piproxy/\_\_main\_\_.py, HidGadgetSink, setup.sh's unit | a stage of the process, a report, a restart |
| ReportLink | SerialSink.send's frame, both proxy sketches | one byte through both boards |
| FarEnd | TRIGGER.md's watchdog rule | hear, release, hold (abstract) |
| TriggerLink | both link sketches, the Mac's updates and keepalive | one pass of a `loop()`, one byte |
| MacTrigger | trigger.py Trigger | a statement that another thread can see |
| MacSerial | trigger.py SerialTransport | likewise; the fields are published one by one |
| TriggerPort (extends both) | Trigger calling its transport | a step of either, a call, a return, an interrupt |
| StartUp | parse_target, open_trigger, parse_source, defaults | operators, no state |
| FrameLoop (extends StartUp) | mac-app \_\_main\_\_.py, loop.py | one stage of start-up, of an iteration, of the teardown |
| WindowsAgent | main.cpp, capture.cpp, network.cpp | one stage of the loop |
| UdpSource | sources/udp.py, protocol.py | one recv, one drained datagram, one return |
| VideoLink (extends both) | the network between them | a datagram arrives, is lost or overtaken; a relaunch |
| Camera | sources/camera.py | a critical section of the reader or of recv |
| Decision | detector_coreml.py, detector.py, rule.py | one frame and its verdict |
| LatencyStats | stats.py | one `observe` |

Actions carry the names of the functions or of the statements they stand for, variables
those of the attributes. Program counters (`emPc`, `rcPc`, ...) name what a thread is
about to do. Definitions named `X_Something` are mutations of `X`: deviations a plausible
bug would cause, kept beside the definition with the property they break.

Composition.
- PiProxy EXTENDS KeyState: its threads call the merge's own actions.
- TriggerPort EXTENDS MacTrigger and MacSerial: `send` and `close` are called under
  Trigger's lock, with the reconnect thread, the device and signals beside them.
- VideoLink EXTENDS WindowsAgent and UdpSource and puts the network between `sendto` and
  the socket: what the frame loop is shown follows from what the screen showed.
- MCVideo EXTENDS VideoLink and Camera: `source` says which of the two macvision opened;
  the other keeps its initial state. MCFirmware does the same with the two rigs of boards,
  MCPiParts with three parts of the Pi's agent that PiProxy abstracts from, MCMac with
  macvision's process and loop, its verdict and its statistics. In these a behaviour is one of one part: the parts do not
  share state in the code, so interleaving them would add states and no case.

Refinement.
- KeyState implements KeyMerge (MCKeyState, `MergeSpec`): what `build` reports follows the
  abstract merge step by step. KeyMerge keeps `physical` and `trigger` and forgets
  `order`; its `down` is the set of keys in the report.
- TriggerLink's wire and PiProxy's trigger both implement FarEnd (MCTriggerLink,
  `LinkSpec`; MCPiProxy, `ProxyEndSpec`): the key rises only because the Mac was heard and
  outlives its silence by a bounded time. The two ends are built quite differently (a
  loop, and a thread that polls and decides in three steps), and macvision is written for
  either.

Where modules meet without being composed, one states what the other assumes: PiProxy's
sink may drop any report or die (SerialSink does the first, PiLife's gadget too), PiLife's
emitter builds what KeyState holds (PiProxy shows how), TriggerLink's Mac is Trigger's
`update` and keepalive with any byte lost, ReportLink's Pi is the emitter and
`SerialSink.send`, FrameLoop's `recv` returns what Camera and UdpSource may return and its
`infer` what Decision may say.

## 3. Runs

| Run | Module | Distinct states | Question |
|---|---|---|---|
| KeyState_merge | MCKeyState | 652 | is the merge faithful when more keys are held than fit? |
| KeyState_leak | MCKeyState | (violation) | is it still, when the trigger key is also pressed by hand? |
| PiProxy_keyboard | PiProxy | 471,185 | do the threads lose a change, a release or the keyboard? |
| PiProxy_http | MCPiProxy | 2,444,957 | is the trigger supervised when two threads set it? |
| TriggerPort | TriggerPort | 54,498 | does the Mac's end survive unplugging, signals and stop? |
| Mac | MCMac | 101,196 | is the key up and what was opened closed, whatever is asked and whatever fails; is the verdict that of the objects, is the estimate of the delay what it says? |
| Video | MCVideo | 519,465 | does the frame loop get what a resting screen shows, are frames accounted for, does the camera recover? |
| LatencyStats_overstates | LatencyStats | (violation) | does e2e understate by exactly one hop? |
| PiParts | MCPiParts | 32,824 | do the reader, the port and the process let go and come back? |
| Keyboard_outlives | Keyboard | (violation) | does a key go with its keyboard, when another keyboard stays? |
| Firmware | MCFirmware | 141,415 | do both rigs of boards release in time and catch up? |
| ReportLink_alias | MCReportLink | (violation) | can a torn stream pass the checksum? |

What the properties of each run say is in the comment above each definition, with the
lines of the code they are about. The bounds, and why they are enough:

- **KeyState_merge**: five keys for three slots, so that the trigger evicts and keys wait
  for a slot; nothing in the merge depends on the number of slots or usages (the theorems
  hold for all of them). `MaxOrder` = 5 is not a restriction here: with disjoint usages
  `order` holds each key at most once. **KeyState_leak** has the real six slots; `MaxOrder`
  = 9 leaves room for the six copies that fill them.
- **PiProxy_keyboard**: one physical key beside the trigger key, every thread, a sink that
  drops or dies, one signal. `MaxOrder` = 1 keeps `order` to one entry, so a key and the
  trigger are not held together; what happens when they are is KeyState's question.
  `Timeout` = 1 tick. **PiProxy_http**: no keyboard, the receiver and one HTTP handler,
  `Timeout` = 2 so that the watchdog can be met before, at and after the deadline. Two
  threads that set the trigger are the smallest number that can contend; the theorems
  hold for any number.
- **TriggerPort**: two handles, since at most one is in use while another is opened; a
  transmit buffer of two bytes that fills and refuses; any number of unpluggings, updates
  and interrupts.
- **Mac**: no bounds on the process; every shape of `--trigger-target` and `--source` that the
  parsers tell apart, what stands behind a udp port included, every stage may fail and a signal
  or a kill may hit anywhere. Frames of 2 to 9 pixels a side in a square and an oblong model,
  wanted and unwanted labels: scales above and below one, both paddings, ties of the rounding,
  and centres at odd and even sides. Window of three, two spans, two offsets: the minimum
  enters, stays and leaves. The proofs have every window, size and object;
  **LatencyStats_overstates** the statistics on their own.
- **Video**: four versions of the screen, one of which does not fit a datagram, three pixel
  formats, one of them not supported; any datagram may be lost, and there is one mishap
  among a desktop switch, a change of format, a relaunch, a runt and an overtaken datagram.
  Camera: three capture objects, three frames, a camera given up after two failures, stale
  after two ticks.
- **PiParts**: two keyboards with one key and a kernel buffer of three events that overflows;
  keyboards are pulled and put back any number of times. That a key which lingers excuses no
  other key takes two keys to see: the theorem `AlwaysMirrors` has any number of them. Two
  device names, a foreign device that may or may not be there, a transmit buffer of two and
  a half frames, so that writes are whole, short and refused. A process with either sink,
  killed or signalled up to twice, restarted any number of times. **Keyboard_outlives** is the
  reader on its own.
- **Firmware**: link: a watchdog of 2 ticks, `millis()` modulo 5 (the smallest width the
  watchdog allows is 4), a buffer of two bytes, two restarts among Mac, ESP32 and Pro
  Micro; silence is counted past a whole turn of the clock. Proxy: reports of three bytes
  of two bits, one loss or outage at any byte before each accepted frame, without an end;
  one bit of the header is in none of these reports, as bit 7 of 0xAB is in no report without
  Right GUI (keymap.py's usages end at 0x6A). **ReportLink_alias** has one whose checksum is
  the header, as Right GUI and Tab have in the code.

`CHECK_DEADLOCK FALSE` is stated where the program ends (the process returns, the port is
closed) or where a bound stops the environment.

### What the four violation runs show

- **KeyState_leak** (`MergeExact`): pressing and releasing by hand the key that the trigger
  holds leaves an entry behind in `_order` each time (report.py:58); six of them fill the
  slots, and a key that is held is missing from the report, against report.py:12-13.
- **ReportLink_alias** (`AcceptedWasSent`): the XOR of a whole frame is the header byte, so
  a receiver that missed a header and meets that byte inside the frame accepts the
  rotated frame, again on every repetition (pro-micro-proxy.ino:92-99).
- **LatencyStats_overstates** (`UnderstatesByHop`): transit runs from the capture to `recv`,
  so its excess over the window's minimum contains what capture and encoding took longer
  than in the best frame; adding `upstream` counts that once more (stats.py:66-71). e2e then
  exceeds the true time less the hop, and can exceed the true time, against docs/PROTOCOL.md.
  While every frame takes equally long on Windows the statement is true (`EstimateHonest`).
- **Keyboard_outlives** (`NoKeyOutlives`): a key is held on one of two keyboards and that one is
  pulled: `_drop` releases only when no keyboard is left (keyboard.py:137), and KeyState keeps
  the key until it is used on another keyboard or the last one goes, against keyboard.py:9-12
  and 135-136. `Mirrors` says that this concerns the keys held on the lost keyboard only.

### Limits of the code that the properties state

Some properties carry a condition because the code does not promise more. Each was met
as a counterexample:

- `SilenceReleases`, `KeySettles`, `HostCatchesUp`, `KeysComeUp` exempt a PC that missed
  the last USB report: neither Pro Micro sketch looks at the result of the transfer, and
  neither repeats it (pro-micro-hid.ino:32-37, pro-micro-proxy.ino:47-54, 105).
- `WireSettles` speaks of a state that rests: `_loop` reads `_active` before `_send` takes
  the lock, so a keepalive can carry the old state once after an update, although the
  comment at trigger.py:547-551 rules it out. The next keepalive corrects it.
- `CameraReleased` allows one handle that was opened after `close` gave up its 0.5 s of
  waiting (camera.py:343-356).
- `ReleasedOnExit` exempts `kill` and a second signal inside the `finally` block, which
  leaves it before `trigger.stop()`; the far end's watchdog then lifts the key.
- `UnexplainedKeyFalls` exempts a hit of the udp source while the Mac lives: a dead agent
  and a static screen are the same silence, and the keepalive repeats the last decision.
- `Mirrors` is stated key by key. It exempts the keys that were held on one of several keyboards
  when that one was lost (Keyboard_outlives), and those whose change the kernel dropped
  (SYN_DROPPED: the loop does not resynchronise), both until the key is used again.
- `LetGo` exempts the gadget when the release races the emitter: `HidGadgetSink.close` takes
  no lock (sinks.py:250-255), so an emitter that outlasted `join(timeout=1.0)` inside a write
  may write after it. The other release is `SerialSink.close`, which takes the lock.
- `KeyLetsGo` exempts the gadget when its process is killed and not started again: "the
  downstream watchdog" of sinks.py:324 and \_\_main\_\_.py:184 exists behind the serial sink
  only. A kill is also a signal between the start of the threads (136) and the handlers
  (159-160), `systemctl stop` before the restart, or systemd's start limit.
  A start that ends without a sink leaves a key of the gadget as the crash before it did.
- `ReleasedLast` says that no send follows that of the release, not that the release reached
  the port: a send may find no port, wait out the back-off or be cut short (sinks.py:171-196),
  and then the board's own watchdog releases.
- `ReturnsClean` excepts the device of a camera whose own `open()` raised: the capture object is
  there before the first frame is read and the crop is checked (camera.py:127-195), and `main`
  returns 2 after `trigger.stop()` alone (\_\_main\_\_.py:294-310). It goes with the process.
- `SourceAsAsked` does not call a udp text wrong for what stands behind its port: options and a
  path are accepted and ignored (sources/\_\_init\_\_.py:192-195).
- `ExitCodeTells` speaks of the run; a `SIGTERM` before its handler is there ends macvision
  without any exit code of its own.
- `DecisionExact` needs a model that sees every third pixel: below that, rounding the
  letterbox can carry an edge across the centre.
- `Recovers` excludes a second serial device: the fallback of `_resolve` may take it and a
  sink whose writes succeed never looks again (sinks.py:112). A full transmit buffer makes
  pyserial's write spin with the lock held (sinks.py:141) until the device drains or goes;
  that `close` returns then is not claimed.
- `LossExact` lets each runt hide one lost frame, and says nothing after a relaunch or an
  overtaken datagram: the tracker knows a restart only by `seq <= last_seq` (udp.py:44-59).
- `HoldIsRight` exempts a rest on a frame that does not fit, and a datagram that was lost,
  overtaken, flushed at the start, or drained in front of a runt: nothing sends the same
  screen again (main.cpp:178). A desktop that cannot be duplicated, as a lock screen, ends
  the agent (capture.cpp:222).

## 4. Fairness

Every fairness assumption is of a thread that runs, of time that passes, or of a device
that is not dead for ever; no action of a user or of a failure is fair.

- **PiProxy**: weak fairness of every thread (each runs on its own and blocks only with a
  time-out); strong fairness of a send that succeeds: a sink that is sent to again and again
  delivers again and again. Without it a sink could drop every report, and no end could
  be promised.
- **TriggerPort**: weak fairness of every thread's statements; strong fairness of the locks
  and of the reconnect thread's hand-back under the transport's lock, which others hold
  for moments but again and again; the open of a device that is there ends, the open of one
  that is not may hang; the device drains.
- **Mac**: the main thread's work, the keepalive and the far end's watchdog; the verdict and
  the statistics have no liveness property and no fairness.
- **Video**: the agent's process, the receiving thread, and a late datagram that arrives in
  the end; the camera's reader, `recv` and time; strong fairness of a reopen that succeeds:
  each failing handle is traded for a new one, and not every attempt raises.
- **PiParts**: the reader reads what is ready; strong fairness of a scan that gets a given
  keyboard, since the loop scans again and again and a refusal (EBUSY) is not for ever. The
  sink's emitter runs, time passes; strong fairness of an open that succeeds. main and the
  emitter run, systemd restarts what it has not given up, the Pro Micro's watchdog runs; strong
  fairness of a start that gets its sink, since a refusal is not for ever. That the cable of the gadget comes to rest is a premise of `KeyLetsGo`.
- **Firmware**: both loops of the rig run and time passes. Link: strong fairness of the
  keepalive (heard again and again), of a read that empties the buffer and of acting on
  the byte: bytes are 20 ms apart, a pass of `loop()` takes microseconds. Proxy: the
  keepalive sends, bytes that are not lost arrive, silence lasts.

## 5. Proofs

TLAPS proves the following for every value of the constants that satisfies the named
assumptions of the modules (`SlotsAssumption`, `TimeoutAssumption`, `LinkAssumption`,
`ReportAssumption`, `StatsAssumption`, `DecisionAssumption`, `SinkAssumption`,
`SerialAssumption`, `KeyboardAssumption`, `LifeAssumption`, `CameraAssumption`,
`AgentAssumption`, `UdpAssumption`, `VideoAssumption`), which TLC evaluates in the runs.
Every invariant, every refinement and every action property that a passing run checks is
stated by a theorem; each was first checked by TLC, and so was the inductive invariant
under it. The theorems speak of a component's own specification (`SinkSpec`, `KeyboardSpec`,
`LifeSpec`, `VideoSpec`, `CameraSpec`, `StatsSpec`, `DecisionSpec`, `ReportSpec`, `Spec`);
that the runs that put parts side by side run these is a lemma of each module (`PartsRun`,
`SourcesRun`, `RigsRun`).

**KeyStateProofs**: `TypeCorrect`, `OrderCoversHeld`, `NothingInvented`,
`TriggerAlwaysReported`. The inductive invariant is TypeOK /\ HeldInOrder: types alone do
not tell that a held key has an entry, which both facts about reports need. The work is in
what a list comprehension, `list.remove` and `append` do to the set of entries
(`OrderedRange`, `RemoveFirstRange`, `AppendRange`), by well-founded induction on the
length of the list. These theorems do not assume that the trigger key is disjoint from the
keyboard's, where KeyState_merge does.
`MergeRefined` and `MergeAlwaysExact` have the hypothesis that the trigger's key cannot be
pressed by hand, and cannot do without: KeyState_leak is the counterexample. Under it MergeInv
adds that `order` has no duplicates and lists exactly what is held. Then the entries that
are held are as many as the keys that are held (`MergeCardinality`), so what fits is
reported; and a step that adds no trigger key moves no remaining entry further back
(`MergeStep`), so no key that is down flickers.

**PiProxyProofs**: `TriggerAlwaysSupervised`, `ProxyImplementsFarEnd`, `WakeupNeverLost`.
The bound on the trigger's age is not inductive by itself: the watchdog takes three steps
from its decision to the release. The strengthening (`WatchType`, `WatchAlive`, `InTime`)
says that an age beyond the time-out is only ever met by a watchdog past its sleep, and
that the watchdog ends only when it was told to; time does not pass while a thread has a
step to take (`Tick`'s guard). `NoLostWakeup` is inductive relative to the types:
the emitter clears the wake-up before it builds, so whatever changes afterwards finds the
wake-up set or a nudge pending.

**PiPartsProofs**: `LetGoAlways`, `ReleasedAlwaysLast`, `AlwaysMirrors`.
`LetGo` alone says nothing of a process that still runs: LifeInv adds that nothing is written
before the threads start, that the emitter exists from then to the end of the process and
builds nothing new once main closes the sink, and that a PC that lost the gadget has no key
down. For the sink, SinkInv ties each caller's place in `send` to the lock, and says how far
the emitter can be when main is at the lock (inside, or through with sending) and behind it
(through with sending): `ReleasedLast` speaks only of the end. For the keyboard, KeyboardInv says
of each key on each device what the unread events will make of it: the last change in the
queue is the key's state on the keyboard (`Consistent`), a held key is in KeyState from that
keyboard or on its way (`HeldIsKnown`), one that KeyState has from a keyboard is held there or
its release is on the way (`KnownIsHeld`), no two devices have to do with the same key
(`Exclusive`, which rests on an assumption of section 6), and each key of KeyState is there from
one keyboard that is grabbed, or lingers (`Owned`): so a lost keyboard takes nothing out of the
equality but its own keys. `Mirrors` asks of the events only whether a change of a key is
among them and which comes last, so that no fold has to be evaluated.

**TriggerPortProofs**: `NothingEverLeftOpen`, `ReleaseAlwaysLastByte`, for any number of
handles and any transmit buffer. PortInv says who owns what at every statement of the caller,
of the reconnect thread and of `close`: one sender at a time holds Trigger's lock and none comes
after the last, which sends a release (`OneSender`, `OneCaller`); a `ser` that is set and `_fd`
are the same handle but between the two assignments of the reconnect thread (`Fields`; without
`ser` an interrupted teardown may leave an old `_fd`); at most one handle
is open, the transport's or the one in that thread's hand (`Known`); `close` meets that thread
inside `open` or not at all (`Closing`); and bytes lie behind a live port only (`Backlog`). None
of this follows from the two properties, which speak only of the end.

**FirmwareProofs**, the direct link: `LinkTypeCorrect`, `SilenceReleasesAlways`,
`NoEarlyReleaseAlways`, `NewestWinsAlways`, `LinkImplementsFarEnd`. The inductive invariant is
TypeOK /\ WireTimed /\ BeliefTimed: while the wire is up, the difference of the two wrapped
clocks is the true time of silence, which holds only because the wire never stays up for
a whole turn of the clock (`ElapsedTick`); and the Pro Micro's belief is no older.
`NewestWins` needs that the last byte of the buffer is the newest received (`NewestLast`).

**FirmwareProofs**, the Pi's link: `AcceptedWasAlwaysSent`, for reports of any length. It has
two hypotheses that a run or a short example shows to be needed: some bit of the header is
in no report (ReportLink_alias is the other case), and at most one byte or frame is lost
before each accepted frame. Two lost bytes are enough to pass another report: of two
frames of one report the first loses its first byte and the second its header; then the
checksum of the first frame stands in as the report's last byte and the first byte of the
second as its checksum, and the XOR is right. ReportInv follows the two boards through the
frame: they are outside, or in step with the whole frame, or one byte was lost and they
are in one of five stages until the frame they put together ends. A frame made of two has
the header's own bit in the report or in the byte taken for the checksum, never in both
(`FreeRejects`, `MarkedRejects`), so it is dropped.

**PerceptionProofs**: `ExcessAlwaysExact`, `EstimateAlwaysHonest`, for every window, every set
of spans and offsets. The types do not tell that `min` of the window exists, nor what it is
the delay of: the inductive invariant StatsInv adds that each transit is that of the frame
beside it (`Follows`) and that every rest of the window has a least entry (`MinimaExist`),
which survives the loss of the oldest entry because it is stated of every rest. What `append`
on a bounded deque does to both sequences is the lemma `PushIs`. EstimateInv adds what the
three numbers shown were computed from. `DecisionAlwaysExact`, for every size of frame and
model, every object that Decision shows and every set of classes: rounding makes the scaled
side at most half a pixel of the model too long or too short, so near its middle an edge
is off by about a quarter, which is less than a pixel of the frame where the model sees
every third one; coordinates are not rounded on the way back and the padding cancels out
(`CoversIs`). So the pixel before the centre stays before it and the one behind it behind
(`EdgesKeepTheirSide`); where half a pixel is lost in full it takes that python rounds ties to
even (`RoundIs`). The arithmetic is not linear, and the lemmas take it apart into
monotonicity of products.

**VideoProofs**: `FramesAlwaysAccounted`, `StaleIsAlwaysSilence`, `HandlesAlwaysReleased`, for any
number of frames, failures and handles. The books are inductive with the types; that stale
means silence needs that the wait of a recv is no longer than the silence unless a frame is
there (`WaitIsSilence`), and the handles need an owner at every point of a trade, also of
one that `close` interrupted (`Owned`). `FormatAlwaysMatches`: TextureInv adds that the staging
texture, where there is one, has the format that `m_format` says.
`LossAlwaysExact`: as long as one agent runs and nothing is overtaken, LossInv keeps the
numbers in the socket in order and above the last one returned (`Pipeline`), and keeps
the books (`Books`): of the frames sent after the last one returned and not lost, those that
are not in the socket were read, and whatever was read beyond them is a runt. The property
itself says nothing between two returns; the books are what carries it from one to the
next, where `_last_seq`, the drops and the losses have to add up (`CountApart`, `NumbersFit`).

**FrameLoopProofs**: `ReturnsAlwaysClean`, `ReleasedOnEveryExit`, `ExitCodeAlwaysTells`,
`SourceAlwaysAsAsked`. The model has no bounds; the proofs say why the properties hold: LoopInv tells
what is open at each stage from which main can return and that only a failed open leaves
the source unknown and its device behind, that nothing is decided before the
handler of SIGTERM is there, and that what `Sample` saw of the keepalive stays true until
the return, because the thread is joined only afterwards (`Kept`).

Only model-checked: every liveness property (`WireCatchesUp`, `DeadEmitterUngrabs`,
`WireSettles`, `Reconnects`, `UnexplainedKeyFalls`, `Attaches`, `Recovers`,
`KeyLetsGo`, `KeySettles`, `HostCatchesUp`, `KeysComeUp`, `HoldIsRight`, `CameraRecovers`):
fairness and ENABLED are out of TLAPS' reach.

## 6. Assumptions of the models

- A tick of a clock is long against a thread's or a loop's step: time passes only when
  nobody has a step to take (PiProxy, TriggerLink). Joins with a time-out may give up at any
  time where the code lets them (TriggerPort, SerialSink, Camera).
- Two keyboards: a key is used on one at a time (`Exclusive`, in section 5, rests on it). Nobody
  types through `POST /key` beside them (in Keyboard; PiProxy's `PostKey` models the request).
- The CoreML model reports an object edge for edge; floating point is left out of Decision.
- Nobody else writes to the Pi's gadget, and a host that detaches forgets its keys.
- A transmit buffer does not fill between two statements of the reconnect thread
  (`RoomForAWhile`), and one that is full for good is a device that does not drain.
- The wire between ESP32 and Pro Micro is pulled down while the ESP32 is without power.
- DXGI: a new duplication has a frame at once; `DuplicateOutput` fails while the desktop
  on the screen is not the user's.
- One host, one Mac, one agent: a second sender on the same ports is not modelled.

## 7. Not modelled

Not at all: names and tables of keys, the USB identity of the Pro Micro (constants); the JPEG
encoder (pixel conversion and a library); set-up scripts and bench tools, but for the unit
that systemd runs. In part: of the Pi agent's threads the API's GET requests, counters and
body parsing; of the other sinks the log sink, which holds no key; of the camera its
geometry, the requested size and the warm-up; of detectors, codec and display the calls
into their libraries (what they may raise is an input of FrameLoop, what they compute is
assumed by Decision); of the Windows agent its dump and bench modes, command line and pixel
copy. PROJECT.json gives the reason for each.

`UdpTransport.send` never blocks in the models; in the code a host given by a name that
does not resolve is looked up again in `sendto`, with Trigger's lock held, against
trigger.py:107-112. It is a matter of duration, which the models do not have.
A transport whose keepalive thread could not be started is left to the garbage collector
(`_start`).

## 8. Plan

The order was: the merge and the Pi's threads first, since a key that stays down is the
worst this system can do; then the trigger path from the Mac to the PC; then sources,
capture and start-up. What comes next:

1. An end-to-end composition: FrameLoop's decisions over a lossy transport to FarEnd, with
   FarEnd in the place of either end, which the two refinements justify.
2. A more abstract far end for the report link: what a receiver promises about the reports
   it shows, implemented by ReportLink and assumed of PiProxy's sink.
3. Proofs: the safety half of the liveness properties that is still implicit, as that no
   thread of PiProxy or TriggerPort waits for a lock whose holder has ended, and that the
   sink's release reaches a port that accepts it; the type invariants of the parts as
   theorems of their own.
4. The gadget's missing watchdog as a run of its own: a kill without a restart leaves the key
   down, which `KeyLetsGo` now exempts.
