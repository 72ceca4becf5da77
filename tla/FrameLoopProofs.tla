---------------------------- MODULE FrameLoopProofs ----------------------------
(***************************************************************************)
(* Whatever macvision is asked for and wherever it is hit: what main       *)
(* leaves behind when it ends.                                             *)
(***************************************************************************)
EXTENDS FrameLoop, TLAPS

Before == {"trigger", "source", "load", "signal", "flush"}
Stages == Before \cup {"recv", "infer", "present", "sample", "close", "stop", "exited"}

LoopType ==
  /\ asked \in Texts /\ pc \in Stages
  /\ active \in BOOLEAN /\ handler \in BOOLEAN /\ keepalive_died \in BOOLEAN
  /\ how \in {"", "returned", "raised", "cut", "terminated", "killed"}

\* Before run nothing was decided; the handler of SIGTERM is there before the first decision.
Undecided ==
  /\ pc \in Before => ~ active
  /\ ~ handler => pc \in (Before \ {"flush"}) \cup {"exited"}

\* What is open at the stages from which main can return, and that only they say how.
Opening ==
  /\ pc = "trigger" => opened = {}
  /\ pc \in {"source", "stop"} => opened \subseteq {"trigger"}
  /\ pc \in {"trigger", "source"} => source = Unknown
  /\ opened \subseteq {"trigger", "source"}
  /\ pc \notin {"close", "stop", "exited"} => how = ""
  /\ pc # "exited" => code = ""
  /\ pc \in {"close", "stop"} => how \in {"returned", "raised"}

\* A link has a keepalive exactly if it is one; what Sample saw of it stays true.
Kept ==
  /\ link \in {"", "none", "udp", "serial"}
  /\ pc = "trigger" => link = "" /\ keepalive = "none"
  /\ pc \notin {"trigger", "exited"} =>
       link # "" /\ keepalive \in (IF link = "none" THEN {"none"} ELSE {"alive", "dead"})
  /\ pc \in {"close", "stop"} /\ how = "returned" => (keepalive_died <=> keepalive = "dead")

LoopInv ==
  LoopType /\ Undecided /\ Opening /\ Kept /\ ReturnsClean /\ ReleasedOnExit /\ ExitCodeTells

-----------------------------------------------------------------------------
\* open_trigger always ends with a link.
LEMMA LinkOpened == \A t \in Targets : open_trigger(t) \subseteq {"none", "udp", "serial"}
<1> SUFFICES ASSUME NEW t \in Targets PROVE open_trigger(t) \subseteq {"none", "udp", "serial"}
  OBVIOUS
<1>1. _open_serial(t.name) \subseteq {"none", "serial", "raised"}
  BY DEF _open_serial, build_transport
<1>2. UNION {_open_serial(p) : p \in {"", "first"}} \subseteq {"none", "serial", "raised"}
  BY DEF _open_serial, build_transport
<1>3. build_transport("udp") = {"udp", "raised"}
  BY DEF build_transport
<1> QED
  BY <1>1, <1>2, <1>3 DEF open_trigger

LEMMA LoopInvInit == Init => LoopInv
BY DEF Init, LoopInv, LoopType, Stages, Before, Undecided, Opening, Kept, ReturnsClean,
       ReleasedOnExit, ExitCodeTells

\* The world around main moves nothing that main has opened.
LEMMA WorldKeeps ==
  ASSUME LoopInv,
         InputStops \/ InputReturns \/ Keepalive \/ KeepaliveDies \/ Watchdog \/ UNCHANGED vars
  PROVE  LoopInv'
<1> USE DEF InputStops, InputReturns, Keepalive, KeepaliveDies, Watchdog, vars, linkVars, endVars
<1>1. UNCHANGED <<asked, source, opened, pc, how, handler, active, keepalive_died, code, link>>
  OBVIOUS
<1>2. keepalive' = keepalive \/ (keepalive = "alive" /\ keepalive' = "dead" /\ pc \notin {"close", "stop", "exited"})
  OBVIOUS
<1> HIDE DEF InputStops, InputReturns, Keepalive, KeepaliveDies, Watchdog, vars, linkVars, endVars
<1> USE DEF LoopInv
<1>3. ReturnsClean'
  BY <1>1, Zenon DEF ReturnsClean, HalfOpened
<1>4. LoopType' /\ Undecided' /\ ReleasedOnExit'
  BY <1>1 DEF LoopType, Undecided, ReleasedOnExit
<1>5. Opening'
  BY <1>1 DEF Opening
<1>6. Kept' /\ ExitCodeTells'
  BY <1>1, <1>2 DEF LoopType, Kept, ExitCodeTells
<1> QED
  BY <1>3, <1>4, <1>5, <1>6

\* One step per action; Interrupt is also what Terminate does once there is a handler.
LEMMA LoopInvNext == LoopInv /\ [Next]_vars => LoopInv'
<1> SUFFICES ASSUME LoopInv, [Next]_vars PROVE LoopInv'
  OBVIOUS
<1> USE DEF LoopInv, LoopType, Stages, Before, Undecided, Opening, Kept, ReturnsClean,
        ReleasedOnExit, ExitCodeTells, linkVars, endVars, Running, InRun
<1>1. CASE List BY <1>1 DEF List, Return
<1>2. CASE OpenTrigger BY <1>2, LinkOpened DEF OpenTrigger
<1>3. CASE OpenSource BY <1>3 DEF OpenSource
<1>4. CASE OpenSourceFails BY <1>4 DEF OpenSourceFails, LinkStopped, Return, HalfOpened
<1>5. CASE Load BY <1>5 DEF Load
<1>6. CASE LoadFails BY <1>6 DEF LoadFails, LinkStopped, Return
<1>7. CASE InstallHandler BY <1>7 DEF InstallHandler
<1>8. CASE Flush BY <1>8 DEF Flush
<1>9. CASE RecvFrame("hit") \/ RecvFrame("miss") BY <1>9 DEF RecvFrame
<1>10. CASE RecvNothing BY <1>10 DEF RecvNothing
<1>11. CASE RecvStale BY <1>11 DEF RecvStale, Update
<1>12. CASE Infer BY <1>12 DEF Infer, Update
<1>13. CASE Present BY <1>13 DEF Present
<1>14. CASE Quit BY <1>14 DEF Quit
<1>15. CASE Raise BY <1>15 DEF Raise
<1>16. CASE Sample BY <1>16 DEF Sample
<1>17. CASE CloseSource BY <1>17 DEF CloseSource
<1>18. CASE StopTrigger BY <1>18 DEF StopTrigger, TriggerStopped, LinkStopped
<1>19. CASE Interrupt BY <1>19 DEF Interrupt
<1>20. CASE Terminate BY <1>19, <1>20 DEF Terminate
<1>21. CASE Kill BY <1>21 DEF Kill
<1>22. CASE InputStops \/ InputReturns \/ Keepalive \/ KeepaliveDies \/ Watchdog \/ UNCHANGED vars
  BY <1>22, WorldKeeps
<1> QED
  BY <1>1, <1>2, <1>3, <1>4, <1>5, <1>6, <1>7, <1>8, <1>9, <1>10, <1>11, <1>12, <1>13, <1>14, <1>15,
     <1>16, <1>17, <1>18, <1>19, <1>20, <1>21, <1>22
     DEF Next, Work, Fail

LEMMA LoopInvAlways == Spec => []LoopInv
BY LoopInvInit, LoopInvNext, PTL DEF Spec

-----------------------------------------------------------------------------
\* However main returns, it has closed the trigger, and the source if its open() succeeded
\* (__main__.py:260-351, 389-405); only the device of a camera whose own open() raised may
\* be left.
THEOREM ReturnsAlwaysClean == Spec => []ReturnsClean
<1>1. LoopInv => ReturnsClean
  BY DEF LoopInv
<1> QED BY LoopInvAlways, <1>1, PTL

\* Wherever an exception or a signal hits, the state handed to the trigger last is the
\* release (loop.py:34-35), short of a kill and of a second signal in the finally block.
THEOREM ReleasedOnEveryExit == Spec => []ReleasedOnExit
<1>1. LoopInv => ReleasedOnExit
  BY DEF LoopInv
<1> QED BY LoopInvAlways, <1>1, PTL

\* The exit code is 1 exactly if the link lost its keepalive (__main__.py:386-405).
THEOREM ExitCodeAlwaysTells == Spec => []ExitCodeTells
<1>1. LoopInv => ExitCodeTells
  BY DEF LoopInv
<1> QED BY LoopInvAlways, <1>1, PTL

-----------------------------------------------------------------------------
\* What OpenSource opens, for every text.
LEMMA DefaultedAsAsked ==
  ASSUME NEW t \in Texts, parse_source(t) # Unknown,
         NEW s, s = Defaulted(parse_source(t))
  PROVE  /\ t.scheme \in {s.kind, ""}
         /\ s.kind = "camera" => t.options # "bad"
         /\ t.name # "" => s.name = t.name
         /\ t.port # "" => s.port = t.port /\ t.port # "bad"
         /\ ~ t.bare /\ s.kind = "camera" => t.name # ""
<1> USE DEF Texts, Unknown, parse_source, Defaulted, DEFAULT_KIND, udp_port
<1>1. CASE t.scheme = ""
  BY <1>1
<1>2. CASE t.scheme \in {"udp", "camera"} /\ t.bare
  BY <1>2
<1>3. CASE t.scheme = "udp" /\ ~ t.bare
  BY <1>3
<1>4. CASE t.scheme = "camera" /\ ~ t.bare
  BY <1>4
<1>5. CASE t.scheme = "other"
  BY <1>5
<1> QED
  BY <1>1, <1>2, <1>3, <1>4, <1>5

\* Nothing in the choice of the source is guessed (sources/__init__.py:149-268,
\* __main__.py:265-287): the text that was asked stays, and OpenSource alone opens one.
THEOREM SourceAlwaysAsAsked == Spec => []SourceAsAsked
<1>1. Init => asked \in Texts /\ SourceAsAsked
  BY DEF Init, SourceAsAsked
<1>2. ASSUME asked \in Texts /\ SourceAsAsked, [Next]_vars
      PROVE  (asked \in Texts /\ SourceAsAsked)'
  <2>1. CASE OpenSource
    BY <1>2, <2>1, DefaultedAsAsked DEF OpenSource, SourceAsAsked
  <2>2. CASE UNCHANGED <<asked, source>>
    BY <1>2, <2>2 DEF SourceAsAsked
  <2>3. OpenSource \/ UNCHANGED <<asked, source>>
    BY <1>2 DEF Next, Work, Fail, vars, List, OpenTrigger, OpenSourceFails, Load, LoadFails,
       InstallHandler, Flush, RecvFrame, RecvNothing, RecvStale, Infer, Present, Quit, Raise,
       Sample, CloseSource, StopTrigger, Interrupt, Terminate, Kill, InputStops, InputReturns,
       Keepalive, KeepaliveDies, Watchdog
  <2> QED BY <2>1, <2>2, <2>3
<1> QED BY <1>1, <1>2, PTL DEF Spec
===============================================================================
