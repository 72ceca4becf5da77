---------------------------- MODULE PiProxyProofs ------------------------------
(***************************************************************************)
(* Theorems about the trigger watchdog of the Pi for every timeout, every  *)
(* number of HTTP handlers and every set of keys.                          *)
(*                                                                         *)
(* The watchdog polls; between the poll that is due and the release it     *)
(* takes three steps in which updates can come.  What makes its bound      *)
(* inductive is that an age beyond the timeout is only ever met by a       *)
(* watchdog that is past its sleep.                                        *)
(***************************************************************************)
EXTENDS MCPiProxy, TLAPS

-----------------------------------------------------------------------------
(* The inductive invariant *)

\* An update has been applied and is about to feed the watchdog.
Feeding == \E a \in Appliers : applyPc[a] = "feed"

Held == trigger # {} /\ Supervised

\* The part of the types the argument needs.
WatchType ==
  /\ age \in 0 .. Timeout + 2 \cup {Never}
  /\ applyPc \in [Appliers -> {"idle", "set", "feed", "nudge", "gone"}]
  /\ wdPc \in {"sleep", "due", "snapshot", "release", "nudge", "done", "gone"}

\* The watchdog ends only with its stop event or with the process.
WatchAlive ==
  /\ wdPc = "done" => "watchdog" \in stopped
  /\ wdPc = "gone" => mainPc = "exited"

\* A trigger that is held has been fed, and a watchdog that sleeps has time left.
InTime ==
  Held /\ ~ Feeding =>
    /\ age <= Timeout + 1
    /\ age = Timeout + 1 => wdPc \in {"due", "snapshot", "release"}

IInv == WatchType /\ WatchAlive /\ InTime

-----------------------------------------------------------------------------
(* What the steps do to the watchdog's view *)

LEMMA AgeIsNat == WatchType => /\ age \in Nat /\ Timeout \in Nat /\ Never \in Nat
                               /\ Never = Timeout + 3
BY TimeoutAssumption DEF WatchType, Never

\* An applier that neither was nor will be feeding leaves Feeding alone.
LEMMA FeedingKept ==
  ASSUME WatchType, NEW a \in Appliers, NEW v \in {"idle", "set", "nudge"},
         applyPc[a] # "feed", applyPc' = [applyPc EXCEPT ![a] = v]
  PROVE  /\ applyPc' \in [Appliers -> {"idle", "set", "feed", "nudge", "gone"}]
         /\ Feeding' <=> Feeding
<1>1. \A b \in Appliers : applyPc'[b] = IF b = a THEN v ELSE applyPc[b]
  BY DEF WatchType
<1>2. applyPc' \in [Appliers -> {"idle", "set", "feed", "nudge", "gone"}]
  BY DEF WatchType
<1>3. \A b \in Appliers : applyPc'[b] = "feed" <=> applyPc[b] = "feed"
  BY <1>1
<1> QED BY <1>2, <1>3 DEF Feeding

\* A step that is of no interest to the watchdog: it neither touches the trigger nor its
\* age, and supervision is only ever given up.
Quiet ==
  /\ trigger' = trigger /\ age' = age
  /\ stopped \subseteq stopped'
  /\ mainPc = "exited" => mainPc' = "exited"
  /\ Feeding' <=> Feeding
  /\ applyPc' \in [Appliers -> {"idle", "set", "feed", "nudge", "gone"}]

QuietApply(a) == ApplyBegin(a) \/ ApplyNudge(a)

LEMMA QuietApplyIsQuiet ==
  ASSUME WatchType, NEW a \in Appliers, QuietApply(a)
  PROVE  Quiet /\ wdPc' = wdPc
<1>1. \E v \in {"idle", "set", "nudge"} :
        applyPc[a] # "feed" /\ applyPc' = [applyPc EXCEPT ![a] = v]
  BY DEF QuietApply, ApplyBegin, ApplyNudge
<1>2. /\ applyPc' \in [Appliers -> {"idle", "set", "feed", "nudge", "gone"}]
      /\ Feeding' <=> Feeding
  BY <1>1, FeedingKept
<1>3. /\ trigger' = trigger /\ age' = age /\ stopped' = stopped /\ mainPc' = mainPc
      /\ wdPc' = wdPc
  BY DEF QuietApply, ApplyBegin, ApplyNudge, keyVars
<1> QED BY <1>2, <1>3 DEF Quiet

LEMMA PostKeyIsQuiet ==
  ASSUME WatchType, NEW h \in Handlers, PostKey(h)
  PROVE  Quiet /\ wdPc' = wdPc
<1>1. h \in Appliers /\ applyPc[h] # "feed" /\ applyPc' = [applyPc EXCEPT ![h] = "nudge"]
  BY DEF PostKey, Appliers
<1>2. /\ applyPc' \in [Appliers -> {"idle", "set", "feed", "nudge", "gone"}]
      /\ Feeding' <=> Feeding
  BY <1>1, FeedingKept
<1>3. trigger' = trigger
  BY DEF PostKey, press_physical, release_physical
<1>4. age' = age /\ stopped' = stopped /\ mainPc' = mainPc /\ wdPc' = wdPc
  BY DEF PostKey
<1> QED BY <1>2, <1>3, <1>4 DEF Quiet

LEMMA ThreadsAreQuiet ==
  ASSUME WatchType, Keyboard \/ EmitterLoop \/ EmitterDies \/ UNCHANGED vars
  PROVE  Quiet /\ wdPc' = wdPc
<1>1. CASE Keyboard
  <2>1. trigger' = trigger
    BY <1>1 DEF Keyboard, KeyboardRead, KeyboardEvent, KeyboardNudge, KeyboardIgnore, keyVars,
                press_physical, release_physical, set_modifier_bit, clear_physical
  <2>2. UNCHANGED <<applyPc, wdPc, age, stopped, mainPc>>
    BY <1>1 DEF Keyboard, KeyboardRead, KeyboardEvent, KeyboardNudge, KeyboardIgnore
  <2> QED BY <2>1, <2>2 DEF Quiet, Feeding, WatchType
<1>2. CASE EmitterLoop \/ EmitterDies
  <2>1. UNCHANGED <<trigger, applyPc, wdPc, age, stopped, mainPc>>
    BY <1>2 DEF EmitterLoop, EmitterHead, EmitterWake, EmitterClear, EmitterBuild, EmitterSend,
                EmitterDies, keyVars
  <2> QED BY <2>1 DEF Quiet, Feeding, WatchType
<1>3. CASE UNCHANGED vars
  BY <1>3 DEF vars, keyVars, threadVars, Quiet, Feeding, WatchType
<1> QED BY <1>1, <1>2, <1>3

QuietMain ==
  Signal \/ NoticeDeadEmitter \/ StopComponent \/ Ungrab \/ StopEmitter \/ JoinEmitter \/ CloseSink

LEMMA MainIsQuiet ==
  ASSUME WatchType, QuietMain
  PROVE  Quiet /\ wdPc' = wdPc
<1>1. UNCHANGED <<trigger, applyPc, wdPc, age>>
  BY DEF QuietMain, Signal, NoticeDeadEmitter, StopComponent, Ungrab, StopEmitter, JoinEmitter,
         CloseSink, keyVars
<1>2. mainPc # "exited"
  BY DEF QuietMain, Signal, NoticeDeadEmitter, StopComponent, Ungrab, StopEmitter, JoinEmitter,
         CloseSink, Goto
<1>3. stopped \subseteq stopped'
  BY DEF QuietMain, Signal, NoticeDeadEmitter, StopComponent, Ungrab, StopEmitter, JoinEmitter,
         CloseSink
<1> QED BY <1>1, <1>2, <1>3 DEF Quiet, Feeding, WatchType

QuietWatchdog == WatchdogPoll \/ WatchdogSnapshot \/ WatchdogNudge

LEMMA WatchdogIsQuiet ==
  ASSUME WatchType, QuietWatchdog
  PROVE  Quiet
<1>1. UNCHANGED <<trigger, applyPc, age, stopped, mainPc>>
  BY DEF QuietWatchdog, WatchdogPoll, WatchdogSnapshot, WatchdogNudge, keyVars
<1> QED BY <1>1 DEF Quiet, Feeding, WatchType

\* A quiet step that leaves the watchdog's own state alone keeps the invariant.
LEMMA QuietKeeps ==
  ASSUME IInv, Quiet, wdPc' = wdPc
  PROVE  IInv'
<1>1. WatchType' /\ WatchAlive'
  BY DEF IInv, Quiet, WatchType, WatchAlive, Never
<1>2. Held' => Held
  BY DEF Quiet, Held, Supervised
<1>3. InTime'
  BY <1>2 DEF IInv, Quiet, InTime
<1> QED BY <1>1, <1>3 DEF IInv

-----------------------------------------------------------------------------
(* The invariant *)

LEMMA InitInv == ProxyInit => IInv
<1> SUFFICES ASSUME ProxyInit PROVE IInv
  OBVIOUS
<1>1. WatchType /\ WatchAlive
  BY DEF ProxyInit, WatchType, WatchAlive
<1>2. trigger = {}
  BY DEF ProxyInit, KeyInit
<1> QED BY <1>1, <1>2 DEF IInv, InTime, Held

LEMMA ApplySetInv ==
  ASSUME IInv, NEW a \in Appliers, NEW active \in BOOLEAN, ApplySet(a, active)
  PROVE  IInv' /\ Feeding'
<1>1. /\ applyPc' \in [Appliers -> {"idle", "set", "feed", "nudge", "gone"}]
      /\ applyPc'[a] = "feed"
  BY DEF ApplySet, IInv, WatchType
<1>2. UNCHANGED <<wdPc, age, stopped, mainPc>>
  BY DEF ApplySet
<1>3. Feeding'
  BY <1>1 DEF Feeding
<1>4. WatchType' /\ WatchAlive'
  BY <1>1, <1>2 DEF IInv, WatchType, WatchAlive, Never
<1> QED BY <1>3, <1>4 DEF IInv, InTime

LEMMA ApplyFeedInv ==
  ASSUME IInv, NEW a \in Appliers, ApplyFeed(a)
  PROVE  IInv' /\ age' = 0
<1>1. applyPc' \in [Appliers -> {"idle", "set", "feed", "nudge", "gone"}]
  BY DEF ApplyFeed, IInv, WatchType
<1>2. age' = 0 /\ UNCHANGED <<wdPc, stopped, mainPc>>
  BY DEF ApplyFeed
<1>3. Timeout \in Nat
  BY TimeoutAssumption
<1>4. WatchType' /\ WatchAlive'
  BY <1>1, <1>2, <1>3 DEF IInv, WatchType, WatchAlive
<1>5. InTime'
  BY <1>2, <1>3 DEF InTime
<1> QED BY <1>2, <1>4, <1>5 DEF IInv

LEMMA WatchdogInv == ASSUME IInv, Watchdog PROVE IInv'
<1>0. WatchType /\ WatchAlive /\ InTime /\ age \in Nat /\ Timeout \in Nat /\ Never = Timeout + 3
  BY AgeIsNat DEF IInv
<1>1. CASE WatchdogRelease
  <2>1. trigger' = {} /\ UNCHANGED <<applyPc, age, stopped, mainPc>> /\ wdPc' = "nudge"
    BY <1>1 DEF WatchdogRelease, set_trigger
  <2> QED BY <1>0, <2>1 DEF IInv, WatchType, WatchAlive, InTime, Held, Never
<1>2. CASE QuietWatchdog
  <2>1. Quiet
    BY <1>0, <1>2, WatchdogIsQuiet
  <2>2. Held' => Held
    BY <2>1 DEF Quiet, Held, Supervised
  <2>3. stopped' = stopped /\ mainPc' = mainPc
    BY <1>2 DEF QuietWatchdog, WatchdogPoll, WatchdogSnapshot, WatchdogNudge
  <2>4. WatchType' /\ WatchAlive'
    BY <1>0, <1>2, <2>1, <2>3 DEF QuietWatchdog, WatchdogPoll, WatchdogSnapshot, WatchdogNudge,
                             Quiet, WatchType, WatchAlive, Never
  <2>5. ASSUME Held', ~ Feeding'
        PROVE  age' <= Timeout + 1 /\ (age' = Timeout + 1 => wdPc' \in {"due", "snapshot", "release"})
    <3>1. Held /\ ~ Feeding /\ age' = age
      BY <2>1, <2>2, <2>5 DEF Quiet
    <3>2. age <= Timeout + 1 /\ (age = Timeout + 1 => wdPc \in {"due", "snapshot", "release"})
      BY <1>0, <3>1 DEF InTime
    <3>3. CASE WatchdogPoll
      <4>1. "watchdog" \notin stopped
        BY <3>1 DEF Held, Supervised
      <4>2. age = Timeout + 1 => wdPc' = "snapshot"
        BY <1>0, <3>3, <4>1 DEF WatchdogPoll
      <4> QED BY <3>1, <3>2, <4>2
    <3>4. CASE WatchdogSnapshot
      <4>1. wdPc' = "release"
        BY <3>1, <3>4 DEF WatchdogSnapshot, Held
      <4> QED BY <3>1, <3>2, <4>1
    <3>5. CASE WatchdogNudge
      <4>1. age # Timeout + 1
        BY <3>2, <3>5 DEF WatchdogNudge
      <4> QED BY <3>1, <3>2, <4>1
    <3> QED BY <1>2, <3>3, <3>4, <3>5 DEF QuietWatchdog
  <2> QED BY <2>4, <2>5 DEF IInv, InTime
<1> QED BY <1>1, <1>2 DEF Watchdog, QuietWatchdog

\* A poll period can pass only while the watchdog has time left.
LEMMA TickInv ==
  ASSUME IInv, Tick
  PROVE  /\ IInv'
         /\ Held' => Held /\ ~ Feeding /\ ~ Feeding' /\ age <= Timeout /\ age' = age + 1
<1>0. WatchType /\ WatchAlive /\ InTime /\ age \in Nat /\ Timeout \in Nat /\ Never = Timeout + 3
  BY AgeIsNat DEF IInv
<1>1. UNCHANGED <<trigger, applyPc, stopped>> /\ ~ Feeding
  BY DEF Tick, keyVars, Feeding
<1>2. mainPc = "exited" => mainPc' = "exited"
  BY DEF Tick
<1>3. ~ Feeding' /\ (Held' => Held)
  BY <1>1, <1>2 DEF Feeding, Held, Supervised
<1>4. WatchType' /\ WatchAlive'
  <2>1. age' \in 0 .. Timeout + 2 \cup {Never}
    BY <1>0 DEF Tick, WatchType
  <2>2. wdPc' \in {"due", "done"} /\ (wdPc' = "done" => wdPc = "done")
    BY DEF Tick
  <2> QED BY <1>0, <1>1, <2>1, <2>2 DEF WatchType, WatchAlive, Never
<1>5. ASSUME Held' PROVE age <= Timeout /\ age' = age + 1 /\ wdPc' = "due"
  <2>1. wdPc = "sleep"
    BY <1>0, <1>3, <1>5 DEF Tick, WatchAlive, Held, Supervised
  <2>2. age <= Timeout
    BY <1>0, <1>1, <1>3, <1>5, <2>1 DEF InTime
  <2>3. age' = age + 1 /\ wdPc' = "due"
    BY <1>0, <2>1, <2>2 DEF Tick
  <2> QED BY <2>2, <2>3
<1>6. InTime'
  BY <1>0, <1>5 DEF InTime
<1> QED BY <1>1, <1>3, <1>4, <1>5, <1>6 DEF IInv

LEMMA ReturnInv == ASSUME IInv, Return PROVE IInv' /\ ~ Held'
<1>1. mainPc' = "exited" /\ wdPc' = "gone" /\ age' = age
  BY DEF Return, Goto
<1>2. applyPc' \in [Appliers -> {"idle", "set", "feed", "nudge", "gone"}]
  BY DEF Return
<1>3. WatchType' /\ WatchAlive' /\ ~ Held'
  BY <1>1, <1>2 DEF IInv, WatchType, WatchAlive, Held, Supervised, Never
<1> QED BY <1>3 DEF IInv, InTime

\* Every other step is quiet.
LEMMA OtherSteps ==
  ASSUME WatchType, [ProxyNext]_vars,
         \A a \in Appliers : ~ ApplyFeed(a) /\ \A active \in BOOLEAN : ~ ApplySet(a, active),
         ~ WatchdogRelease, ~ Tick, ~ Return
  PROVE  Quiet /\ (wdPc' = wdPc \/ QuietWatchdog)
<1>1. CASE Keyboard \/ EmitterLoop \/ EmitterDies \/ UNCHANGED vars
  BY <1>1, ThreadsAreQuiet
<1>2. CASE Watchdog
  BY <1>2, WatchdogIsQuiet DEF Watchdog, QuietWatchdog
<1>3. ASSUME NEW a \in Appliers, Apply(a) PROVE Quiet /\ wdPc' = wdPc
  BY <1>3, QuietApplyIsQuiet DEF Apply, QuietApply
<1>4. ASSUME NEW h \in Handlers, PostKey(h) PROVE Quiet /\ wdPc' = wdPc
  BY <1>4, PostKeyIsQuiet
<1>5. CASE Signal \/ Main
  BY <1>5, MainIsQuiet DEF Main, QuietMain
<1> QED BY <1>1, <1>2, <1>3, <1>4, <1>5 DEF ProxyNext

LEMMA NextInv == IInv /\ [ProxyNext]_vars => IInv'
<1> SUFFICES ASSUME IInv, [ProxyNext]_vars PROVE IInv'
  OBVIOUS
<1>1. ASSUME NEW a \in Appliers, NEW active \in BOOLEAN, ApplySet(a, active) PROVE IInv'
  BY <1>1, ApplySetInv
<1>2. ASSUME NEW a \in Appliers, ApplyFeed(a) PROVE IInv'
  BY <1>2, ApplyFeedInv
<1>3. CASE Watchdog
  BY <1>3, WatchdogInv
<1>4. CASE Tick
  BY <1>4, TickInv
<1>5. CASE Return
  BY <1>5, ReturnInv
<1>6. ASSUME \A a \in Appliers : ~ ApplyFeed(a) /\ \A active \in BOOLEAN : ~ ApplySet(a, active),
             ~ Watchdog, ~ Tick, ~ Return
      PROVE  IInv'
  <2>1. Quiet /\ wdPc' = wdPc
    BY <1>6, OtherSteps DEF IInv, Watchdog, QuietWatchdog
  <2> QED BY <2>1, QuietKeeps
<1> QED BY <1>1, <1>2, <1>3, <1>4, <1>5, <1>6

LEMMA Invariance == ProxySpec => []IInv
<1>1. ProxyInit => IInv
  BY InitInv
<1>2. IInv /\ [ProxyNext]_vars => IInv'
  BY NextInv
<1> QED BY <1>1, <1>2, PTL DEF ProxySpec

\* With nothing held the report is the all-zero one.
LEMMA EmptyReport ==
  ASSUME order = << >>, trigger = {}, physical = {}, modifiers = {}
  PROVE  build = ReleaseAll
<1>1. \A S : Ordered(<< >>, S) = << >>
  <2> SUFFICES ASSUME NEW S PROVE Ordered(<< >>, S) = << >>
    OBVIOUS
  <2> DEFINE Step(f, n) == IF n = 0 THEN << >>
                           ELSE IF << >>[n] \in S THEN Append(f[n - 1], << >>[n]) ELSE f[n - 1]
             Keeps(f) == f = [n \in 0 .. Len(<< >>) |-> Step(f, n)]
             kept == CHOOSE f : Keeps(f)
             none == [n \in 0 .. Len(<< >>) |-> << >>]
  <2>1. Len(<< >>) = 0
    OBVIOUS
  <2>2. Keeps(none)
    BY <2>1
  <2>3. Keeps(kept)
    BY <2>2
  <2>4. Ordered(<< >>, S) = kept[Len(<< >>)]
    BY DEF Ordered
  <2>5. ASSUME NEW f, Keeps(f) PROVE f[0] = << >>
    BY <2>1, <2>5
  <2> HIDE DEF kept
  <2> QED BY <2>1, <2>3, <2>4, <2>5
<1>2. Take(<< >>, MAX_KEYS) = << >>
  BY SlotsAssumption DEF Take
<1>3. DOMAIN << >> = {}
  OBVIOUS
<1>4. Slots(<< >>, {}) = << >>
  BY <1>1, <1>2, <1>3 DEF Slots
<1> QED BY <1>1, <1>4 DEF build, ReleaseAll, held

-----------------------------------------------------------------------------
(* Theorems *)

\* The trigger is never held for more than a poll beyond the timeout without an update,
\* whatever the number of threads that update it (sinks.py:357-370, api.py:57-60).
THEOREM TriggerAlwaysSupervised == ProxySpec => []TriggerSupervised
<1>1. IInv => TriggerSupervised
  <2> SUFFICES ASSUME IInv, Held, ~ Feeding PROVE age # Never /\ age <= Timeout + 1
    BY DEF TriggerSupervised, Held, Supervised, Feeding
  <2>1. age \in Nat /\ Timeout \in Nat /\ Never = Timeout + 3
    BY AgeIsNat DEF IInv
  <2>2. age <= Timeout + 1
    BY DEF IInv, InTime
  <2> QED BY <2>1, <2>2
<1> QED BY <1>1, Invariance, PTL

\* The emitter never sleeps on a report that is out of date, for any number of threads that
\* change the state and nudge (sinks.py:301-308): the property is inductive as it stands.
THEOREM WakeupNeverLost == ProxySpec => []NoLostWakeup
<1>1. ProxyInit => NoLostWakeup
  <2> SUFFICES ASSUME ProxyInit PROVE report = build \/ emPc \notin {"send", "head", "wait"}
    BY DEF NoLostWakeup
  <2>1. order = << >> /\ trigger = {} /\ physical = {} /\ modifiers = {}
    BY DEF ProxyInit, KeyInit
  <2>2. build = ReleaseAll
    BY <2>1, EmptyReport
  <2> QED BY <2>2 DEF ProxyInit
<1>2. NoLostWakeup /\ WatchType /\ [ProxyNext]_vars => NoLostWakeup'
  <2> SUFFICES ASSUME NoLostWakeup, WatchType, [ProxyNext]_vars PROVE NoLostWakeup'
    OBVIOUS
  <2>a. ASSUME UNCHANGED keyVars PROVE build' = build
    BY <2>a DEF keyVars, build, held
  <2>b. ASSUME wake' \/ NudgePending' \/ emPc' \notin {"send", "head", "wait"} PROVE NoLostWakeup'
    BY <2>b DEF NoLostWakeup
  <2>c. ASSUME UNCHANGED keyVars, UNCHANGED <<emPc, wake, report>>, NudgePending => NudgePending'
        PROVE  NoLostWakeup'
    BY <2>a, <2>c DEF NoLostWakeup
  <2>1. CASE KeyboardRead \/ KeyboardIgnore
    BY <2>1, <2>c DEF KeyboardRead, KeyboardIgnore, NudgePending
  <2>2. CASE KeyboardEvent
    BY <2>2, <2>b DEF KeyboardEvent, NudgePending
  <2>3. CASE KeyboardNudge
    BY <2>3, <2>b DEF KeyboardNudge
  <2>4. ASSUME NEW a \in Appliers, ApplyBegin(a) PROVE NoLostWakeup'
    <3>1. \A b \in Appliers : applyPc[b] \in {"feed", "nudge"} => applyPc'[b] \in {"feed", "nudge"}
      BY <2>4 DEF ApplyBegin, WatchType
    <3>2. NudgePending => NudgePending'
      BY <2>4, <3>1 DEF ApplyBegin, NudgePending
    <3> QED BY <2>4, <3>2, <2>c DEF ApplyBegin
  <2>5. ASSUME NEW a \in Appliers, applyPc'[a] \in {"feed", "nudge"} PROVE NoLostWakeup'
    BY <2>5, <2>b DEF NudgePending
  <2>6. ASSUME NEW a \in Appliers,
               ApplyFeed(a) \/ PostKey(a) \/ \E active \in BOOLEAN : ApplySet(a, active)
        PROVE  NoLostWakeup'
    <3>1. applyPc'[a] \in {"feed", "nudge"}
      BY <2>6 DEF ApplyFeed, PostKey, ApplySet, WatchType
    <3> QED BY <3>1, <2>5
  <2>7. ASSUME NEW a \in Appliers, ApplyNudge(a) PROVE NoLostWakeup'
    BY <2>7, <2>b DEF ApplyNudge
  <2>8. CASE EmitterHead \/ EmitterWake
    <3>1. UNCHANGED keyVars /\ UNCHANGED <<wake, report>> /\ emPc \in {"send", "head", "wait"}
      BY <2>8 DEF EmitterHead, EmitterWake
    <3>2. NudgePending' <=> NudgePending
      BY <2>8 DEF EmitterHead, EmitterWake, NudgePending
    <3> QED BY <2>a, <3>1, <3>2 DEF NoLostWakeup
  <2>9. CASE EmitterClear
    BY <2>9, <2>b DEF EmitterClear
  <2>10. CASE EmitterBuild
    BY <2>10, <2>a DEF EmitterBuild, NoLostWakeup
  <2>11. ASSUME NEW delivered \in BOOLEAN, EmitterSend(delivered) PROVE NoLostWakeup'
    <3>1. UNCHANGED keyVars /\ UNCHANGED <<wake, report>> /\ emPc \in {"send", "head", "wait"}
      BY <2>11 DEF EmitterSend
    <3>2. NudgePending' <=> NudgePending
      BY <2>11 DEF EmitterSend, NudgePending
    <3> QED BY <2>a, <3>1, <3>2 DEF NoLostWakeup
  <2>12. CASE EmitterDies
    BY <2>12, <2>b DEF EmitterDies
  <2>13. CASE WatchdogPoll \/ WatchdogSnapshot
    BY <2>13, <2>c DEF WatchdogPoll, WatchdogSnapshot, NudgePending
  <2>14. CASE WatchdogRelease
    BY <2>14, <2>b DEF WatchdogRelease, NudgePending
  <2>15. CASE WatchdogNudge
    BY <2>15, <2>b DEF WatchdogNudge
  <2>16. CASE Tick
    BY <2>16, <2>c DEF Tick, NudgePending
  <2>17. CASE Signal \/ NoticeDeadEmitter \/ StopComponent \/ Ungrab \/ JoinEmitter \/ CloseSink
    BY <2>17, <2>c DEF Signal, NoticeDeadEmitter, StopComponent, Ungrab, JoinEmitter, CloseSink,
                       NudgePending
  <2>18. CASE StopEmitter
    BY <2>18, <2>b DEF StopEmitter
  <2>19. CASE Return
    BY <2>19, <2>b DEF Return
  <2>20. CASE UNCHANGED vars
    BY <2>20, <2>c DEF vars, threadVars, NudgePending
  <2>21. \A h \in Handlers : h \in Appliers
    BY DEF Appliers
  <2> QED BY <2>1, <2>2, <2>3, <2>4, <2>6, <2>7, <2>8, <2>9, <2>10, <2>11, <2>12, <2>13, <2>14,
             <2>15, <2>16, <2>17, <2>18, <2>19, <2>20, <2>21
          DEF ProxyNext, Keyboard, EmitterLoop, Watchdog, Apply, Main
<1>3. IInv => WatchType
  BY DEF IInv
<1> QED BY <1>1, <1>2, <1>3, Invariance, PTL DEF ProxySpec

\* The Pi implements FarEnd, as the ESP32 does: no thread but one that applies an update
\* presses the trigger key, and silence releases it.
THEOREM ProxyImplementsFarEnd == ProxySpec => ProxyEndSpec
<1> DEFINE Age == IF Feeding THEN 0 ELSE IF age = Never THEN Timeout + 2 ELSE age
<1> USE DEF ProxyEnd!vars, ProxyEnd!Hear, ProxyEnd!Release, ProxyEnd!Hold
<1>0. Timeout \in Nat
  BY TimeoutAssumption
<1>1. IInv => Age \in 0 .. Timeout + 2
  BY <1>0, AgeIsNat DEF IInv, WatchType
<1>2. ProxyInit => ProxyEnd!Init
  <2> SUFFICES ASSUME ProxyInit PROVE ProxyEnd!Init
    OBVIOUS
  <2>1. Age \in 0 .. Timeout + 2
    BY <1>1, InitInv
  <2>2. trigger = {}
    BY DEF ProxyInit, KeyInit
  <2>3. Timeout + 1 + 1 = Timeout + 2
    BY <1>0
  <2> QED BY <2>1, <2>2, <2>3 DEF ProxyEnd!Init, Feeding
<1>3. IInv /\ IInv' /\ [ProxyNext]_vars => [ProxyEnd!Next]_(ProxyEnd!vars)
  <2> SUFFICES ASSUME IInv, IInv', [ProxyNext]_vars
               PROVE  [ProxyEnd!Next]_(ProxyEnd!vars)
    OBVIOUS
  <2>0. Age \in 0 .. Timeout + 2 /\ Age' \in 0 .. Timeout + 2
    <3>1. age' \in 0 .. Timeout + 2 \cup {Never} /\ Never' = Never /\ Never = Timeout + 3
      BY <1>0 DEF IInv, WatchType, Never
    <3>2. Age' = IF Feeding' THEN 0 ELSE IF age' = Never THEN Timeout + 2 ELSE age'
      BY <3>1
    <3>3. Age' \in 0 .. Timeout + 2
      BY <1>0, <3>1, <3>2
    <3> QED BY <1>1, <3>3
  <2> HIDE DEF Age
  <2>a. ASSUME ~ Held' PROVE [ProxyEnd!Next]_(ProxyEnd!vars)
    <3>1. Age' \in 0 .. (Timeout + 1) + 1
      BY <1>0, <2>0
    <3>2. (trigger # {} /\ Supervised)' = FALSE
      BY <2>a DEF Held
    <3>3. ProxyEnd!Release
      BY <3>1, <3>2 DEF Age, Feeding
    <3> QED BY <3>3 DEF ProxyEnd!Next
  <2>b. ASSUME Age' = 0 PROVE [ProxyEnd!Next]_(ProxyEnd!vars)
    <3>1. ProxyEnd!Hear
      BY <2>b DEF Age, Feeding
    <3> QED BY <3>1 DEF ProxyEnd!Next
  <2>1. ASSUME NEW a \in Appliers, NEW active \in BOOLEAN, ApplySet(a, active)
        PROVE  [ProxyEnd!Next]_(ProxyEnd!vars)
    BY <2>1, <2>b, ApplySetInv DEF Age
  <2>2. ASSUME NEW a \in Appliers, ApplyFeed(a) PROVE [ProxyEnd!Next]_(ProxyEnd!vars)
    <3>1. age' = 0
      BY <2>2, ApplyFeedInv
    <3>2. Never' # 0
      BY <1>0 DEF Never
    <3>3. Age' = 0
      BY <3>1, <3>2 DEF Age
    <3> QED BY <2>b, <3>3
  <2>3. CASE WatchdogRelease
    BY <2>3, <2>a DEF WatchdogRelease, set_trigger, Held
  <2>4. CASE Tick
    <3>1. CASE Held'
      <4>1. Held /\ ~ Feeding /\ ~ Feeding' /\ age <= Timeout /\ age' = age + 1
        BY <2>4, <3>1, TickInv
      <4>2. age \in Nat /\ Never = Timeout + 3 /\ Never' = Timeout + 3
        BY AgeIsNat DEF IInv, Never
      <4>3. Age = age /\ Age' = age'
        BY <1>0, <4>1, <4>2 DEF Age
      <4>4. Age < Timeout + 1 /\ Age' = Age + 1
        BY <1>0, <4>1, <4>2, <4>3
      <4>5. (trigger # {} /\ Supervised) /\ (trigger # {} /\ Supervised)' = TRUE
        BY <3>1, <4>1 DEF Held
      <4>6. ProxyEnd!Hold
        BY <4>4, <4>5 DEF Age, Feeding
      <4> QED BY <4>6 DEF ProxyEnd!Next
    <3>2. CASE ~ Held'
      BY <3>2, <2>a
    <3> QED BY <3>1, <3>2
  <2>5. CASE Return
    BY <2>5, <2>a, ReturnInv
  <2>6. CASE /\ \A a \in Appliers : ~ ApplyFeed(a) /\ \A active \in BOOLEAN : ~ ApplySet(a, active)
             /\ ~ WatchdogRelease /\ ~ Tick /\ ~ Return
    <3>1. Quiet
      BY <2>6, OtherSteps DEF IInv
    <3>2. Held' => Held
      BY <3>1 DEF Quiet, Held, Supervised
    <3>3. Age' = Age
      BY <3>1 DEF Quiet, Age, Never
    <3>4. CASE Held'
      BY <3>2, <3>3, <3>4 DEF Held, Age, Feeding
    <3>5. CASE ~ Held'
      BY <3>5, <2>a
    <3> QED BY <3>4, <3>5
  <2> QED BY <2>1, <2>2, <2>3, <2>4, <2>5, <2>6
<1> QED BY <1>2, <1>3, Invariance, PTL DEF ProxySpec, ProxyEndSpec, ProxyEnd!Spec
===============================================================================
