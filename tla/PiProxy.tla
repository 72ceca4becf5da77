------------------------------- MODULE PiProxy --------------------------------
(***************************************************************************)
(* pi-agent: the threads around KeyState.  The keyboard reader, the UDP    *)
(* trigger receiver and the HTTP handlers change KeyState and nudge the    *)
(* emitter; the emitter alone sends reports to the sink; the watchdog      *)
(* releases the trigger when the Mac is silent; the main thread supervises *)
(* the emitter and shuts everything down in order.                         *)
(*                                                                         *)
(* A step is what a thread does between two points where another thread    *)
(* can see it: one KeyState method (one lock acquisition), one Event       *)
(* operation, one read of last_seen, one send.  The unit of time is the    *)
(* watchdog's poll period, timeout_s / 4.  Threads run far faster than     *)
(* that, so time advances only when each is at a point where it blocks.    *)
(***************************************************************************)
EXTENDS KeyState

CONSTANTS
  HasKeyboard,   \* FALSE with --no-keyboard
  Handlers,      \* HTTP request threads that can run at once
  Timeout        \* timeout_s in poll periods; 4 in the code

ASSUME TimeoutAssumption == Timeout \in Nat \ {0}

VARIABLES
  kbPc,      \* keyboard reader: "idle", "handle", "nudge", "done", "gone" with the process
  grabbed,   \* the keyboard is grabbed: nobody but the proxy sees its keys
  applyPc,   \* receiver and HTTP threads: "idle", "set", "feed", "nudge"
  emPc,      \* emitter: "head", "wait", "clear", "build", "send", "done", "dead"
  wake,      \* Emitter._wake
  report,    \* Emitter._last
  wire,      \* the report the sink delivered last
  wdPc,      \* watchdog: "sleep", "due", "snapshot", "release", "nudge", "done"
  age,       \* time since last_seen, or Never while last_seen is 0.0
  stopped,   \* the components whose stop event is set
  mainPc     \* where the main thread is

threadVars == <<kbPc, grabbed, applyPc, emPc, wake, report, wire, wdPc, age, stopped, mainPc>>
vars == <<keyVars, threadVars>>

Receiver == "udp"
Appliers == Handlers \cup {Receiver}
Never == Timeout + 3    \* no age: ages stop at Timeout + 2
ReleaseAll == [modifiers |-> {}, keys |-> << >>]

Goto(from, to) == mainPc = from /\ mainPc' = to

-----------------------------------------------------------------------------
(* Mutations: each breaks the property named with it. *)

\* ProxyEndSpec: the watchdog asserts again what it found held.
WatchdogRelease_Asserts ==
  /\ wdPc = "release"
  /\ set_trigger({TriggerUsage})
  /\ wdPc' = "nudge"
  /\ UNCHANGED <<kbPc, grabbed, applyPc, emPc, wake, report, wire, age, stopped, mainPc>>

\* TriggerSupervised: the update does not feed the watchdog.
ApplySet_Unfed(a, active) ==
  /\ applyPc[a] = "set"
  /\ set_trigger(IF active THEN {TriggerUsage} ELSE {})
  /\ applyPc' = [applyPc EXCEPT ![a] = "nudge"]
  /\ UNCHANGED <<kbPc, grabbed, emPc, wake, report, wire, wdPc, age, stopped, mainPc>>

\* NoLostWakeup: the event is cleared after the send instead of before the build.
EmitterSend_ThenClear(delivered) ==
  /\ emPc = "send"
  /\ wire' = IF delivered THEN report ELSE wire
  /\ wake' = FALSE
  /\ emPc' = "head"
  /\ UNCHANGED <<keyVars, kbPc, grabbed, applyPc, report, wdPc, age, stopped, mainPc>>

\* WireCatchesUp: no keepalive, the emitter sleeps until it is nudged.
EmitterWake_NudgedOnly ==
  /\ emPc = "wait" /\ wake
  /\ emPc' = "clear"
  /\ UNCHANGED <<keyVars, kbPc, grabbed, applyPc, wake, report, wire, wdPc, age, stopped, mainPc>>

\* DeadEmitterUngrabs: main leaves without stopping the keyboard reader.
NoticeDeadEmitter_KeepsGrab ==
  /\ emPc = "dead" /\ Goto("supervise", "close")
  /\ UNCHANGED <<keyVars, kbPc, grabbed, applyPc, emPc, wake, report, wire, wdPc, age, stopped>>

-----------------------------------------------------------------------------
(* Keyboard reader.  One pass of _loop reads a batch of events; _handle and *)
(* _drop change the state, then nudge.  The stop event is looked at between *)
(* batches only.                                                            *)

KeyboardRead ==
  /\ kbPc = "idle"
  /\ kbPc' = IF "keyboard" \in stopped THEN "done" ELSE "handle"
  /\ UNCHANGED <<keyVars, grabbed, applyPc, emPc, wake, report, wire, wdPc, age, stopped, mainPc>>

KeyboardEvent ==
  /\ kbPc = "handle"
  /\ \/ \E u \in Usages : press_physical(u) \/ release_physical(u)
     \/ \E bit \in ModifierBits, down \in BOOLEAN : set_modifier_bit(bit, down)
     \/ clear_physical
  /\ kbPc' = "nudge"
  /\ UNCHANGED <<grabbed, applyPc, emPc, wake, report, wire, wdPc, age, stopped, mainPc>>

KeyboardNudge ==
  /\ kbPc = "nudge"
  /\ wake' = TRUE
  /\ kbPc' \in {"handle", "idle"}
  /\ UNCHANGED <<keyVars, grabbed, applyPc, emPc, report, wire, wdPc, age, stopped, mainPc>>

\* The batch held only repeats, unmapped keys or other events.
KeyboardIgnore ==
  /\ kbPc = "handle"
  /\ kbPc' = "idle"
  /\ UNCHANGED <<keyVars, grabbed, applyPc, emPc, wake, report, wire, wdPc, age, stopped, mainPc>>

-----------------------------------------------------------------------------
(* TriggerReceiver.apply, called by the receiver thread for the newest        *)
(* datagram and by POST /trigger; POST /key changes the physical side instead *)

ApplyBegin(a) ==
  /\ applyPc[a] = "idle"
  /\ (IF a = Receiver THEN "trigger" ELSE "http") \notin stopped
  /\ applyPc' = [applyPc EXCEPT ![a] = "set"]
  /\ UNCHANGED <<keyVars, kbPc, grabbed, emPc, wake, report, wire, wdPc, age, stopped, mainPc>>

ApplySet(a, active) ==
  /\ applyPc[a] = "set"
  /\ set_trigger(IF active THEN {TriggerUsage} ELSE {})
  /\ applyPc' = [applyPc EXCEPT ![a] = "feed"]
  /\ UNCHANGED <<kbPc, grabbed, emPc, wake, report, wire, wdPc, age, stopped, mainPc>>

ApplyFeed(a) ==
  /\ applyPc[a] = "feed"
  /\ age' = 0
  /\ applyPc' = [applyPc EXCEPT ![a] = "nudge"]
  /\ UNCHANGED <<keyVars, kbPc, grabbed, emPc, wake, report, wire, wdPc, stopped, mainPc>>

ApplyNudge(a) ==
  /\ applyPc[a] = "nudge"
  /\ wake' = TRUE
  /\ applyPc' = [applyPc EXCEPT ![a] = "idle"]
  /\ UNCHANGED <<keyVars, kbPc, grabbed, emPc, report, wire, wdPc, age, stopped, mainPc>>

PostKey(h) ==
  /\ applyPc[h] = "set"
  /\ \E u \in Usages : press_physical(u) \/ release_physical(u)
  /\ applyPc' = [applyPc EXCEPT ![h] = "nudge"]
  /\ UNCHANGED <<kbPc, grabbed, emPc, wake, report, wire, wdPc, age, stopped, mainPc>>

-----------------------------------------------------------------------------
(* Emitter._loop *)

EmitterHead ==
  /\ emPc = "head"
  /\ emPc' = IF "emitter" \in stopped THEN "done" ELSE "wait"
  /\ UNCHANGED <<keyVars, kbPc, grabbed, applyPc, wake, report, wire, wdPc, age, stopped, mainPc>>

\* The wait ends on the event or on the keepalive timeout.
EmitterWake ==
  /\ emPc = "wait"
  /\ emPc' = "clear"
  /\ UNCHANGED <<keyVars, kbPc, grabbed, applyPc, wake, report, wire, wdPc, age, stopped, mainPc>>

EmitterClear ==
  /\ emPc = "clear"
  /\ wake' = FALSE
  /\ emPc' = "build"
  /\ UNCHANGED <<keyVars, kbPc, grabbed, applyPc, report, wire, wdPc, age, stopped, mainPc>>

EmitterBuild ==
  /\ emPc = "build"
  /\ report' = build
  /\ emPc' = "send"
  /\ UNCHANGED <<keyVars, kbPc, grabbed, applyPc, wake, wire, wdPc, age, stopped, mainPc>>

\* sink.send: the report is delivered, or the sink drops it or raises.
EmitterSend(delivered) ==
  /\ emPc = "send"
  /\ wire' = IF delivered THEN report ELSE wire
  /\ emPc' = "head"
  /\ UNCHANGED <<keyVars, kbPc, grabbed, applyPc, wake, report, wdPc, age, stopped, mainPc>>

\* The bug no handler catches, which main supervises for.
EmitterDies ==
  /\ emPc \in {"build", "send"}
  /\ emPc' = "dead"
  /\ UNCHANGED <<keyVars, kbPc, grabbed, applyPc, wake, report, wire, wdPc, age, stopped, mainPc>>

-----------------------------------------------------------------------------
(* TriggerWatchdog._loop *)

\* _stop.wait returns when the period is over or the stop event is set.
WatchdogPoll ==
  /\ wdPc = "due" \/ (wdPc = "sleep" /\ "watchdog" \in stopped)
  /\ wdPc' = IF "watchdog" \in stopped THEN "done"
             ELSE IF age # Never /\ age > Timeout THEN "snapshot" ELSE "sleep"
  /\ UNCHANGED <<keyVars, kbPc, grabbed, applyPc, emPc, wake, report, wire, age, stopped, mainPc>>

WatchdogSnapshot ==
  /\ wdPc = "snapshot"
  /\ wdPc' = IF trigger # {} THEN "release" ELSE "sleep"
  /\ UNCHANGED <<keyVars, kbPc, grabbed, applyPc, emPc, wake, report, wire, age, stopped, mainPc>>

WatchdogRelease ==
  /\ wdPc = "release"
  /\ set_trigger({})
  /\ wdPc' = "nudge"
  /\ UNCHANGED <<kbPc, grabbed, applyPc, emPc, wake, report, wire, age, stopped, mainPc>>

WatchdogNudge ==
  /\ wdPc = "nudge"
  /\ wake' = TRUE
  /\ wdPc' = "sleep"
  /\ UNCHANGED <<keyVars, kbPc, grabbed, applyPc, emPc, report, wire, age, stopped, mainPc>>

\* One poll period passes: every thread is blocked, waiting or gone.  A join of the
\* emitter that is still waiting then has timed out.
Tick ==
  /\ kbPc \in {"idle", "done"}
  /\ \A a \in Appliers : applyPc[a] = "idle"
  /\ wdPc \in {"sleep", "done"}
  /\ emPc \in {"wait", "done", "dead"} /\ ~ (emPc = "wait" /\ wake)
  /\ mainPc \in {"supervise", "ungrab", "dead_ungrab", "join"}
  /\ age' = IF age \in {Never, Timeout + 2} THEN age ELSE age + 1
  /\ wdPc' = IF wdPc = "sleep" THEN "due" ELSE wdPc
  /\ mainPc' = IF mainPc = "join" THEN "close" ELSE mainPc
  /\ UNCHANGED <<keyVars, kbPc, grabbed, applyPc, emPc, wake, report, wire, stopped>>

-----------------------------------------------------------------------------
(* main: supervision and the two ways out *)

Signal ==
  /\ Goto("supervise", "stop_http")
  /\ UNCHANGED <<keyVars, kbPc, grabbed, applyPc, emPc, wake, report, wire, wdPc, age, stopped>>

NoticeDeadEmitter ==
  /\ emPc = "dead" /\ Goto("supervise", "dead_stop_keyboard")
  /\ UNCHANGED <<keyVars, kbPc, grabbed, applyPc, emPc, wake, report, wire, wdPc, age, stopped>>

\* Each stop() only sets an event (or closes the socket); the thread sees it later.
StopComponent ==
  /\ \/ Goto("stop_http", "stop_trigger")            /\ stopped' = stopped \cup {"http"}
     \/ Goto("stop_trigger", "stop_keyboard")        /\ stopped' = stopped \cup {"trigger"}
     \/ Goto("stop_keyboard", "ungrab")              /\ stopped' = stopped \cup {"keyboard"}
     \/ Goto("dead_stop_keyboard", "dead_ungrab")    /\ stopped' = stopped \cup {"keyboard"}
     \/ Goto("stop_watchdog", "stop_emitter")        /\ stopped' = stopped \cup {"watchdog"}
  /\ UNCHANGED <<keyVars, kbPc, grabbed, applyPc, emPc, wake, report, wire, wdPc, age>>

\* KeyboardReader.stop after join(timeout=1.0), whether or not the thread ended.
Ungrab ==
  /\ Goto("ungrab", "stop_watchdog") \/ Goto("dead_ungrab", "close")
  /\ grabbed' = FALSE
  /\ UNCHANGED <<keyVars, kbPc, applyPc, emPc, wake, report, wire, wdPc, age, stopped>>

StopEmitter ==
  /\ Goto("stop_emitter", "join")
  /\ stopped' = stopped \cup {"emitter"}
  /\ wake' = TRUE
  /\ UNCHANGED <<keyVars, kbPc, grabbed, applyPc, emPc, report, wire, wdPc, age>>

JoinEmitter ==
  /\ emPc \in {"done", "dead"} /\ Goto("join", "close")
  /\ UNCHANGED <<keyVars, kbPc, grabbed, applyPc, emPc, wake, report, wire, wdPc, age, stopped>>

\* sink.close sends the all-zero report, which can be lost like any other.
CloseSink ==
  /\ \/ Goto("close", "return")         /\ wire' = ReleaseAll
     \/ Goto("close", "return_unheard") /\ UNCHANGED wire
  /\ UNCHANGED <<keyVars, kbPc, grabbed, applyPc, emPc, wake, report, wdPc, age, stopped>>

\* The threads are daemons: wherever they are, they end with the process.
Return ==
  /\ Goto("return", "exited") \/ Goto("return_unheard", "exited")
  /\ kbPc' = "gone" /\ emPc' = "gone" /\ wdPc' = "gone"
  /\ applyPc' = [a \in Appliers |-> "gone"]
  /\ UNCHANGED <<keyVars, grabbed, wake, report, wire, age, stopped>>

-----------------------------------------------------------------------------
ProxyInit ==
  /\ KeyInit
  /\ kbPc = IF HasKeyboard THEN "idle" ELSE "done"
  /\ grabbed = HasKeyboard
  /\ applyPc = [a \in Appliers |-> "idle"]
  /\ emPc = "head" /\ wake = FALSE
  /\ report = ReleaseAll /\ wire = ReleaseAll
  /\ wdPc = "sleep" /\ age = Never
  /\ stopped = {} /\ mainPc = "supervise"

Keyboard == KeyboardRead \/ KeyboardEvent \/ KeyboardNudge \/ KeyboardIgnore
Apply(a) ==
  \/ ApplyBegin(a) \/ ApplyFeed(a) \/ ApplyNudge(a)
  \/ \E active \in BOOLEAN : ApplySet(a, active)
EmitterLoop ==
  \/ EmitterHead \/ EmitterWake \/ EmitterClear \/ EmitterBuild
  \/ \E delivered \in BOOLEAN : EmitterSend(delivered)
Watchdog == WatchdogPoll \/ WatchdogSnapshot \/ WatchdogRelease \/ WatchdogNudge
Main ==
  \/ NoticeDeadEmitter \/ StopComponent \/ Ungrab \/ StopEmitter \/ JoinEmitter
  \/ CloseSink \/ Return

ProxyNext ==
  \/ Keyboard \/ EmitterLoop \/ EmitterDies \/ Watchdog \/ Tick
  \/ \E a \in Appliers : Apply(a)
  \/ \E h \in Handlers : PostKey(h)
  \/ Signal \/ Main

ProxySpec == ProxyInit /\ [][ProxyNext]_vars

\* The scheduler runs every thread, and a sink that is sent to again and again
\* delivers again and again.
FairProxySpec ==
  /\ ProxySpec
  /\ WF_vars(Keyboard)
  /\ WF_vars(EmitterLoop)
  /\ SF_vars(EmitterSend(TRUE))
  /\ WF_vars(Watchdog)
  /\ WF_vars(Main)
  /\ \A a \in Appliers : WF_vars(applyPc[a] # "idle" /\ Apply(a))

-----------------------------------------------------------------------------
(* Properties *)

\* A thread that changed the state still has its nudge ahead of it.
NudgePending ==
  \/ kbPc = "nudge" \/ wdPc = "nudge"
  \/ \E a \in Appliers : applyPc[a] \in {"feed", "nudge"}

\* A state change is never forgotten: the emitter does not go to sleep on a report
\* that is out of date unless somebody is about to wake it (sinks.py:301-308; the
\* order of clear and build is what this rests on).
NoLostWakeup ==
  emPc \in {"send", "head", "wait"} /\ ~ wake /\ ~ NudgePending => report = build

\* The trigger is never held without supervision: the watchdog is armed or about
\* to be, and it lets go within one poll of the timeout (sinks.py:357-370).
TriggerSupervised ==
  trigger # {} /\ "watchdog" \notin stopped /\ mainPc # "exited" =>
    \/ \E a \in Appliers : applyPc[a] = "feed"
    \/ age # Never /\ age <= Timeout + 1

\* A nudge that was sent is not lost either: as long as the proxy runs and the state
\* rests, the wire catches up, whatever the sink drops (sinks.py:269-278).
WireCatchesUp ==
  \/ []<><<TRUE>>_keyVars
  \/ []<>(wire = build)
  \/ <>(emPc = "dead" \/ mainPc # "supervise")

\* The keyboard is handed back when the emitter is gone (__main__.py:162-174).
DeadEmitterUngrabs == emPc = "dead" ~> ~ grabbed

===============================================================================
