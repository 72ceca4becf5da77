------------------------------ MODULE FrameLoop ------------------------------
(***************************************************************************)
(* mac-app/macvision/__main__.py, main, and loop.py, run: the trigger link *)
(* is opened, then the source, then the detector; frames become decisions; *)
(* a finally block takes everything down again.  Signals and exceptions    *)
(* can hit anywhere, and at the far end a watchdog releases the key when   *)
(* the keepalive falls silent.                                             *)
(*                                                                         *)
(* What a source returns is Camera's and UdpSource's business, how a state *)
(* travels MacTrigger's; here recv returns a frame that shows a hit or a   *)
(* miss, no frame, or no frame and stale.                                  *)
(***************************************************************************)
EXTENDS StartUp

VARIABLES
  asked,     \* the text of --source
  source,    \* what was built of it; Unknown before
  link,      \* the transport: "none", "udp", "serial", or "" before open_trigger
  keepalive, \* its thread: "none", "alive", "dead", "stopped"
  pc,        \* "trigger", "source", "load", "signal", "flush", "recv", "infer",
             \* "present", "sample", "close", "stop", "exited"
  opened,    \* the resources that are open: "trigger", "source" (its device or socket)
  handler,   \* the handler of SIGTERM is installed
  live,      \* the source has input
  seen,      \* what recv returned last: "none", "hit", "miss", "stale"
  active,    \* the state handed to the trigger last
  key,       \* the key at the far end
  keepalive_died,
  how,       \* how main ended: "", "returned", "raised", "cut" in its teardown,
             \* "terminated", "killed"
  code       \* the exit code that main returned, or ""

linkVars == <<link, keepalive, active, key>>
endVars == <<keepalive_died, how, code>>
vars == <<asked, source, pc, opened, handler, live, seen, linkVars, endVars>>

Running == pc # "exited"
InRun == pc \in {"recv", "infer", "present"}

\* Trigger.update: the write is one attempt.
Update(state) ==
  /\ active' = state
  /\ key' \in IF link = "none" THEN {key} ELSE {key, state}
  /\ UNCHANGED <<link, keepalive>>

\* What stop() does to the link; its release is the last thing written.
LinkStopped ==
  /\ active' = FALSE
  /\ keepalive' = IF keepalive = "alive" THEN "stopped" ELSE keepalive
  /\ UNCHANGED <<link, key>>

TriggerStopped == LinkStopped /\ opened' = opened \ {"trigger"}

Return(rc) == pc' = "exited" /\ how' = "returned" /\ code' = rc /\ UNCHANGED keepalive_died

-----------------------------------------------------------------------------
(* Mutations: each breaks the property named with it. *)

\* ReturnsClean: the source stays open when the detector does not load.
LoadFails_KeepsSource ==
  /\ pc = "load"
  /\ TriggerStopped /\ Return("2")
  /\ UNCHANGED <<asked, source, handler, live, seen>>

\* ReleasedOnExit: run is entered without the handler of SIGTERM.
Load_Unhandled ==
  /\ pc = "load"
  /\ pc' = "recv"
  /\ UNCHANGED <<asked, source, opened, handler, live, seen, linkVars, endVars>>

\* UnexplainedKeyFalls: only a press is repeated.
Keepalive_PressOnly ==
  /\ Running /\ "trigger" \in opened /\ keepalive = "alive" /\ active
  /\ key' = TRUE
  /\ UNCHANGED <<asked, source, link, keepalive, pc, opened, handler, live, seen, active, endVars>>

\* ExitCodeTells: a link that never had a keepalive is not told from one that lost it.
Sample_AnyLink ==
  /\ pc = "sample"
  /\ keepalive_died' = (keepalive # "alive")
  /\ how' = "returned" /\ pc' = "close"
  /\ UNCHANGED <<asked, source, opened, handler, live, seen, linkVars, code>>

-----------------------------------------------------------------------------
(* Startup *)

\* --list-ports and --list-cameras
List ==
  /\ pc = "trigger"
  /\ \E rc \in {"0", "1", "2"} : Return(rc)
  /\ UNCHANGED <<asked, source, opened, handler, live, seen, linkVars>>

\* open_trigger never raises; the link starts released.
OpenTrigger ==
  /\ pc = "trigger"
  /\ \E t \in Targets : link' \in open_trigger(t)
  /\ keepalive' = IF link' = "none" THEN "none" ELSE "alive"
  /\ opened' = opened \cup {"trigger"} /\ pc' = "source"
  /\ UNCHANGED <<asked, source, handler, live, seen, active, key, endVars>>

OpenSource ==
  /\ pc = "source"
  /\ parse_source(asked) # Unknown
  /\ source' = Defaulted(parse_source(asked))
  /\ opened' = opened \cup {"source"} /\ pc' = "load"
  /\ UNCHANGED <<asked, handler, live, seen, linkVars, endVars>>

\* A source that cannot be parsed, built or opened.  A socket that cannot be bound is gone
\* with it; a camera's open() has the device before it reads a frame and checks the crop,
\* and main does not close a source whose open() raised.
OpenSourceFails ==
  /\ pc = "source"
  /\ \E left \in IF parse_source(asked).kind = "camera" THEN {{}, {"source"}} ELSE {{}} :
       opened' = left
  /\ LinkStopped /\ Return("2")
  /\ UNCHANGED <<asked, source, handler, live, seen>>

\* The detector and the window; a window that fails is left out.
Load ==
  /\ pc = "load"
  /\ pc' = "signal"
  /\ UNCHANGED <<asked, source, opened, handler, live, seen, linkVars, endVars>>

LoadFails ==
  /\ pc = "load"
  /\ LinkStopped /\ opened' = {}
  /\ Return("2")
  /\ UNCHANGED <<asked, source, handler, live, seen>>

InstallHandler ==
  /\ pc = "signal"
  /\ handler' = TRUE /\ pc' = "flush"
  /\ UNCHANGED <<asked, source, opened, live, seen, linkVars, endVars>>

\* Outside run and before the finally block, but with the handler installed.
Flush ==
  /\ pc = "flush"
  /\ pc' = "recv"
  /\ UNCHANGED <<asked, source, opened, handler, live, seen, linkVars, endVars>>

-----------------------------------------------------------------------------
(* run *)

RecvFrame(s) ==
  /\ pc = "recv" /\ live
  /\ seen' = s /\ pc' = "infer"
  /\ UNCHANGED <<asked, source, opened, handler, live, linkVars, endVars>>

\* A runt, or a payload that does not decode: the state is held.
RecvNothing ==
  /\ pc = "recv" /\ live /\ source.kind = "udp"
  /\ seen' = "none"
  /\ UNCHANGED <<asked, source, pc, opened, handler, live, linkVars, endVars>>

RecvStale ==
  /\ pc = "recv" /\ source.kind = "camera" /\ ~ live
  /\ seen' = "stale" /\ Update(FALSE)
  /\ UNCHANGED <<asked, source, pc, opened, handler, live, endVars>>

\* The decision is written before anything is drawn.
Infer ==
  /\ pc = "infer"
  /\ Update(seen = "hit")
  /\ pc' = "present"
  /\ UNCHANGED <<asked, source, opened, handler, live, seen, endVars>>

Present ==
  /\ pc = "present"
  /\ pc' = "recv"
  /\ UNCHANGED <<asked, source, opened, handler, live, seen, linkVars, endVars>>

\* q in the window
Quit ==
  /\ pc = "present"
  /\ pc' = "sample"
  /\ UNCHANGED <<asked, source, opened, handler, live, seen, linkVars, endVars>>

\* An exception of source, detector or display.
Raise ==
  /\ InRun
  /\ pc' = "close" /\ how' = "raised"
  /\ UNCHANGED <<asked, source, opened, handler, live, seen, linkVars, keepalive_died, code>>

-----------------------------------------------------------------------------
(* Teardown *)

\* Still in the try, so before stop() joins the thread.
Sample ==
  /\ pc = "sample"
  /\ keepalive_died' = (keepalive # "alive" /\ link # "none")
  /\ how' = "returned" /\ pc' = "close"
  /\ UNCHANGED <<asked, source, opened, handler, live, seen, linkVars, code>>

\* display.close and source.close
CloseSource ==
  /\ pc = "close"
  /\ opened' = opened \ {"source"} /\ pc' = "stop"
  /\ UNCHANGED <<asked, source, handler, live, seen, linkVars, endVars>>

StopTrigger ==
  /\ pc = "stop"
  /\ TriggerStopped
  /\ pc' = "exited"
  /\ code' = IF how # "returned" THEN "" ELSE IF keepalive_died THEN "1" ELSE "0"
  /\ UNCHANGED <<asked, source, handler, live, seen, keepalive_died, how>>

-----------------------------------------------------------------------------
(* Signals *)

\* KeyboardInterrupt: run catches it, nobody else does; one that hits the finally block
\* itself cuts it short.
Interrupt ==
  /\ Running
  /\ \/ InRun /\ pc' = "sample" /\ UNCHANGED how
     \/ pc = "sample" /\ pc' = "close" /\ how' = "raised"
     \/ pc \in {"close", "stop"} /\ pc' = "exited" /\ how' = "cut"
     \/ pc \in {"trigger", "source", "load", "signal", "flush"} /\ pc' = "exited" /\ how' = "raised"
  /\ UNCHANGED <<asked, source, opened, handler, live, seen, linkVars, keepalive_died, code>>

\* SIGTERM raises the same exception once its handler is installed, and ends the process
\* before.
Terminate ==
  IF handler THEN Interrupt
  ELSE /\ Running
       /\ pc' = "exited" /\ how' = "terminated"
       /\ UNCHANGED <<asked, source, opened, handler, live, seen, linkVars, keepalive_died, code>>

\* SIGKILL, or a crash of the interpreter.
Kill ==
  /\ Running
  /\ pc' = "exited" /\ how' = "killed"
  /\ UNCHANGED <<asked, source, opened, handler, live, seen, linkVars, keepalive_died, code>>

-----------------------------------------------------------------------------
(* The world *)

InputStops ==
  /\ live
  /\ live' = FALSE
  /\ UNCHANGED <<asked, source, pc, opened, handler, seen, linkVars, endVars>>

InputReturns ==
  /\ ~ live
  /\ live' = TRUE
  /\ UNCHANGED <<asked, source, pc, opened, handler, seen, linkVars, endVars>>

\* What was written last arrives: the thread repeats it while the link is open.
\* The write of the release at the end may be lost: Watchdog covers its arrival too.
Keepalive ==
  /\ Running /\ "trigger" \in opened /\ keepalive = "alive"
  /\ key' = active
  /\ UNCHANGED <<asked, source, link, keepalive, pc, opened, handler, live, seen, active, endVars>>

\* Reporting a failed write to a stderr that is gone raises in the thread.  Once the
\* teardown has begun this is what stop() does anyway.
KeepaliveDies ==
  /\ keepalive = "alive" /\ pc \notin {"close", "stop", "exited"}
  /\ keepalive' = "dead"
  /\ UNCHANGED <<asked, source, link, pc, opened, handler, live, seen, active, key, endVars>>

\* 250 ms of silence at the far end.
Watchdog ==
  /\ Running /\ "trigger" \in opened => keepalive # "alive"
  /\ key' = FALSE
  /\ UNCHANGED <<asked, source, link, keepalive, pc, opened, handler, live, seen, active, endVars>>

-----------------------------------------------------------------------------
Init ==
  /\ asked \in Texts /\ source = Unknown
  /\ link = "" /\ keepalive = "none"
  /\ pc = "trigger" /\ opened = {} /\ handler = FALSE
  /\ live \in BOOLEAN /\ seen = "none"
  /\ active = FALSE /\ key = FALSE
  /\ keepalive_died = FALSE /\ how = "" /\ code = ""

Work ==
  \/ OpenTrigger \/ OpenSource \/ Load \/ InstallHandler \/ Flush
  \/ RecvFrame("hit") \/ RecvFrame("miss") \/ RecvNothing \/ RecvStale
  \/ Infer \/ Present
  \/ Sample \/ CloseSource \/ StopTrigger

Fail == List \/ OpenSourceFails \/ LoadFails \/ Quit \/ Raise

Next ==
  \/ Work \/ Fail \/ Interrupt \/ Terminate \/ Kill
  \/ InputStops \/ InputReturns
  \/ Keepalive \/ KeepaliveDies \/ Watchdog

Spec == Init /\ [][Next]_vars

\* The main thread, the keepalive and the watchdog run; nothing has to fail or to quit.
FairSpec == Spec /\ WF_vars(Work) /\ WF_vars(Keepalive) /\ WF_vars(Watchdog)

-----------------------------------------------------------------------------
(* Properties *)

\* Every return of main, the error returns of the startup included, has closed the trigger,
\* and the source too if its open() had succeeded (__main__.py:260-351, 389-405).  What may
\* be left is the device of a camera whose own open() raised (camera.py:127-195): nobody
\* closes that one.
HalfOpened == source = Unknown /\ parse_source(asked).kind = "camera"
ReturnsClean ==
  how = "returned" /\ pc = "exited" => opened \subseteq (IF HalfOpened THEN {"source"} ELSE {})

\* "in a finally block, so the key is released on every exit path" (loop.py:34-35),
\* wherever in startup and run an exception or a signal hits; short of a process that is
\* killed, and of a second signal that cuts the finally block itself.
ReleasedOnExit == pc = "exited" /\ how \notin {"cut", "killed"} => ~ active

\* Once no more input comes, or the process has ended in whatever way, the key comes up for
\* good (sources/__init__.py, Capture.stale; __main__.py:398-402): all that may go on holding
\* it is a hit of the udp source, which cannot tell a dead agent from a static screen, and
\* then only a Mac that lives and repeats it does.
UnexplainedKeyFalls ==
  <>[](~ live \/ ~ Running) =>
    \/ <>[](~ key)
    \/ <>[](Running /\ source.kind = "udp" /\ active /\ keepalive = "alive")

\* "asking after the finally block always says not alive and every clean shutdown would
\* report a dead thread and exit 1" (__main__.py:386-388): 1 is returned exactly if the link
\* had a keepalive and lost it during the run.
ExitCodeTells ==
  pc = "exited" /\ link # "" /\ code \in {"0", "1"} => ((code = "1") <=> (keepalive = "dead"))

\* "parse_source ... never raises" and nothing in it is guessed (sources/__init__.py:149-268,
\* __main__.py:265-287): an open source is the kind, the device and the port that the text
\* names, 0 included; a port that makes no sense opens none, a camera's options neither.
\* What a udp text has behind its port is not looked at: it changes nothing.
SourceAsAsked ==
  source # Unknown =>
    /\ asked.scheme \in {source.kind, ""}
    /\ source.kind = "camera" => asked.options # "bad"
    /\ asked.name # "" => source.name = asked.name
    /\ asked.port # "" => source.port = asked.port /\ asked.port # "bad"
    /\ ~ asked.bare /\ source.kind = "camera" => asked.name # ""
===============================================================================
