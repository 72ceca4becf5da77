-------------------------------- MODULE PiLife --------------------------------
(***************************************************************************)
(* pi-agent/piproxy/__main__.py: the life of the agent's process from its  *)
(* start to its end, and again, under systemd (setup.sh, Restart=always).  *)
(* Between the emitter and the PC's key is the sink: "serial" leads to the *)
(* Pro Micro, which releases when it hears nothing; "hidg" is the Pi's own *)
(* USB gadget, whose last report stands until the next.  The log sink      *)
(* holds no key.  How the threads in between work is PiProxy.              *)
(***************************************************************************)
EXTENDS Naturals

CONSTANT MaxKills   \* bound of the model: signals and sudden ends

ASSUME LifeAssumption == MaxKills \in Nat

VARIABLES
  kind,      \* --sink
  sound,     \* the trigger key is known and evdev is there, or --no-keyboard given
  stage,     \* where main is: "sink", "udp", "threads", "supervise", "join", "close", "return", "gone"
  emitter,   \* "none", "idle", "send", "dead" or over
  taken,     \* the report the emitter has built: TRUE with the key down
  held,      \* KeyState has the key down
  sent,      \* the last report this process gave to the sink, FALSE before the first
  attached,  \* a PC listens at the sink's other end
  key,       \* down at the PC
  how,       \* how the last process ended: "none", "refused" (main returned before it had
             \* a sink it uses), "returned", "killed"
  raced,     \* the release was written while the emitter was inside a write (history)
  wanted,    \* the unit is active: systemd starts it again
  kills

mainVars == <<stage, how, kills>>
lifeVars == <<kind, sound, mainVars, emitter, taken, held, sent, attached, key, raced, wanted>>

\* The process is over, and with it its threads.
Leave(h) ==
  /\ stage' = "gone" /\ how' = h
  /\ emitter' = "none" /\ held' = FALSE

\* Sink.send: a hidg that nobody listens to raises ESHUTDOWN and drops the report.
Put(down) == sent' = down /\ key' = IF attached THEN down ELSE key

-----------------------------------------------------------------------------
(* Mutations: each breaks the property named with it. *)

\* LetGo: main leaves a dead emitter without closing the sink.
NoticeDeadEmitter_Leaves ==
  /\ stage = "supervise" /\ emitter = "dead"
  /\ Leave("returned")
  /\ UNCHANGED <<kind, sound, taken, sent, attached, key, raced, wanted, kills>>

\* KeyLetsGo: main only waits for the signal.
NoticeDeadEmitter_Never == FALSE /\ UNCHANGED lifeVars

-----------------------------------------------------------------------------
(* Starting *)

\* An unknown key is refused before there is a sink; without evdev main returns with a
\* sink it leaves open, but has written nothing to.
Misconfigured ==
  /\ stage = "sink" /\ ~ sound
  /\ Leave("refused")
  /\ UNCHANGED <<kind, sound, taken, sent, attached, key, raced, wanted, kills>>

\* Whatever the constructor raises: the gadget's node is not there or not ours, pyserial is
\* not installed.  The serial sink opens without its port.
BuildSinkFails ==
  /\ stage = "sink" /\ sound
  /\ Leave("refused")
  /\ UNCHANGED <<kind, sound, taken, sent, attached, key, raced, wanted, kills>>

BuildSink ==
  /\ stage = "sink" /\ sound
  /\ stage' = "udp"
  /\ UNCHANGED <<kind, sound, emitter, taken, held, sent, attached, key, how, raced, wanted, kills>>

\* The port is taken, by another piproxy: sink.close() releases, main returns 2.
BindFails ==
  /\ stage = "udp"
  /\ Put(FALSE) /\ Leave("returned")
  /\ UNCHANGED <<kind, sound, taken, attached, raced, wanted, kills>>

\* Emitter first, then the threads that may press a key, then the HTTP API, whose failure
\* is only a warning.
StartThreads ==
  /\ stage = "udp"
  /\ stage' = "threads" /\ emitter' = "idle"
  /\ UNCHANGED <<kind, sound, taken, held, sent, attached, key, how, raced, wanted, kills>>

InstallHandlers ==
  /\ stage = "threads"
  /\ stage' = "supervise"
  /\ UNCHANGED <<kind, sound, emitter, taken, held, sent, attached, key, how, raced, wanted, kills>>

-----------------------------------------------------------------------------
(* Running *)

\* The keyboard, the receiver, the watchdog or the HTTP API.
Change ==
  /\ stage \in {"threads", "supervise"}
  /\ held' = ~ held
  /\ UNCHANGED <<kind, sound, mainVars, emitter, taken, sent, attached, key, raced, wanted>>

Build ==
  /\ emitter = "idle"
  /\ taken' = held /\ emitter' = "send"
  /\ UNCHANGED <<kind, sound, mainVars, held, sent, attached, key, raced, wanted>>

\* After stop() the emitter ends between two reports.
Send ==
  /\ emitter = "send"
  /\ Put(taken) /\ emitter' = IF stage \in {"threads", "supervise"} THEN "idle" ELSE "dead"
  /\ UNCHANGED <<kind, sound, mainVars, taken, held, attached, raced, wanted>>

EmitterDies ==
  /\ emitter \in {"idle", "send"}
  /\ emitter' = "dead"
  /\ UNCHANGED <<kind, sound, mainVars, taken, held, sent, attached, key, raced, wanted>>

-----------------------------------------------------------------------------
(* Ending *)

NoticeDeadEmitter ==
  /\ stage = "supervise" /\ emitter = "dead"
  /\ stage' = "close"
  /\ UNCHANGED <<kind, sound, emitter, taken, held, sent, attached, key, how, raced, wanted, kills>>

\* SIGTERM of systemctl stop or a shutdown, SIGINT of a terminal: before the handlers are
\* there it ends the process as it stands, afterwards main stops what may press a key.
Signal ==
  /\ stage \in {"sink", "udp", "threads", "supervise"}
  /\ wanted' \in {wanted, FALSE}
  /\ IF stage = "supervise"
     THEN stage' = "join" /\ UNCHANGED <<how, emitter, held>>
     ELSE Leave("killed")
  /\ kills < MaxKills /\ kills' = kills + 1
  /\ UNCHANGED <<kind, sound, taken, sent, attached, key, raced>>

\* Emitter.stop: an emitter inside a write outlasts join(timeout=1.0).
Join ==
  /\ stage = "join"
  /\ stage' = "close"
  /\ emitter' = IF emitter = "idle" THEN "dead" ELSE emitter
  /\ UNCHANGED <<kind, sound, taken, held, sent, attached, key, how, raced, wanted, kills>>

\* The serial sink's close() takes the lock an emitter inside send holds; the gadget's
\* writes beside it.
CloseSink ==
  /\ stage = "close" /\ (kind = "serial" => emitter # "send")
  /\ Put(FALSE) /\ raced' = (emitter = "send")
  /\ stage' = "return"
  /\ UNCHANGED <<kind, sound, emitter, taken, held, attached, how, wanted, kills>>

ReturnFromMain ==
  /\ stage = "return"
  /\ Leave("returned")
  /\ UNCHANGED <<kind, sound, taken, sent, attached, key, raced, wanted, kills>>

-----------------------------------------------------------------------------
(* The world *)

\* SIGKILL, the kernel, an exception nobody expects.
Kill ==
  /\ stage # "gone"
  /\ kills < MaxKills /\ kills' = kills + 1
  /\ Leave("killed")
  /\ UNCHANGED <<kind, sound, taken, sent, attached, key, raced, wanted>>

\* Restart=always, whatever the exit status.
Restart ==
  /\ stage = "gone" /\ wanted
  /\ stage' = "sink" /\ how' = "none"
  /\ sent' = FALSE /\ raced' = FALSE
  /\ UNCHANGED <<kind, sound, emitter, taken, held, attached, key, wanted, kills>>

\* systemctl stop in the second before the restart, or systemd's start limit.
GiveUp ==
  /\ stage = "gone" /\ wanted
  /\ wanted' = FALSE
  /\ UNCHANGED <<kind, sound, mainVars, emitter, taken, held, sent, attached, key, raced>>

\* A PC that loses the gadget loses its keys; the Pro Micro stays with the PC.
Detach ==
  /\ attached
  /\ attached' = FALSE /\ key' = (key /\ kind = "serial")
  /\ UNCHANGED <<kind, sound, mainVars, emitter, taken, held, sent, raced, wanted>>

Attach ==
  /\ ~ attached
  /\ attached' = TRUE
  /\ UNCHANGED <<kind, sound, mainVars, emitter, taken, held, sent, key, raced, wanted>>

\* The watchdog of the Pro Micro (ReportLink).
Silence ==
  /\ kind = "serial" /\ key /\ (~ attached \/ emitter \in {"none", "dead"})
  /\ key' = FALSE
  /\ UNCHANGED <<kind, sound, mainVars, emitter, taken, held, sent, attached, raced, wanted>>

-----------------------------------------------------------------------------
LifeInit ==
  /\ kind \in {"serial", "hidg"} /\ sound \in BOOLEAN
  /\ stage = "sink" /\ how = "none" /\ kills = 0
  /\ emitter = "none" /\ taken = FALSE /\ held = FALSE /\ sent = FALSE
  /\ attached \in BOOLEAN /\ key = FALSE
  /\ raced = FALSE /\ wanted \in BOOLEAN

Main ==
  \/ Misconfigured \/ BuildSinkFails \/ BuildSink \/ BindFails \/ StartThreads \/ InstallHandlers
  \/ NoticeDeadEmitter \/ Join \/ CloseSink \/ ReturnFromMain
LifeNext ==
  \/ Main \/ Change \/ Build \/ Send \/ EmitterDies \/ Signal
  \/ Kill \/ Restart \/ GiveUp \/ Attach \/ Detach \/ Silence

LifeSpec == LifeInit /\ [][LifeNext]_lifeVars

-----------------------------------------------------------------------------
(* Properties *)

\* "every key comes up before we exit" (__main__.py:183), on every way main returns that had
\* a sink, also in a start that follows a crash: unless the gadget was written to by two
\* threads at once.  A start without a sink leaves the key as the crash left it (KeyLetsGo).
LetGo ==
  stage = "gone" /\ how = "returned" /\ ~ raced => ~ sent /\ (kind = "hidg" => ~ key)

\* "no key survives the process holding it" (setup.sh:167-169): the release, the watchdog
\* at the other end or the next process lets go of a key that no KeyState holds, except
\* behind a gadget whose process was killed and is not started again.  The cable comes to
\* rest.
Covered == kind = "serial" \/ wanted \/ stage # "gone"
KeyLetsGo ==
  <>[]attached \/ <>[](~ attached) =>
    (key /\ ~ held /\ Covered ~> ~ key \/ held \/ ~ Covered)
===============================================================================
