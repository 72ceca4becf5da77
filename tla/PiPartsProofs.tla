----------------------------- MODULE PiPartsProofs -----------------------------
(***************************************************************************)
(* However often the process of the Pi's agent is refused, killed,         *)
(* signalled and started again: a main that had a sink and returns has let *)
(* go.                                                                     *)
(***************************************************************************)
EXTENDS MCPiParts, TLAPS

Stages == {"sink", "udp", "threads", "supervise", "join", "close", "return", "gone"}

LifeType ==
  /\ kind \in {"serial", "hidg"} /\ stage \in Stages
  /\ emitter \in {"none", "idle", "send", "dead"}
  /\ how \in {"none", "refused", "returned", "killed"}
  /\ sound \in BOOLEAN /\ held \in BOOLEAN /\ taken \in BOOLEAN /\ sent \in BOOLEAN
  /\ attached \in BOOLEAN /\ key \in BOOLEAN /\ raced \in BOOLEAN

\* The emitter is there from the start of the threads to the end; nothing is written before,
\* nor by an agent that cannot start.
WritesLater ==
  /\ stage \in {"sink", "udp"} => ~ sent
  /\ stage \in {"sink", "udp", "gone"} <=> emitter = "none"
  /\ ~ sound => stage \in {"sink", "gone"} /\ ~ sent /\ ~ key

\* Once main closes the sink the emitter builds no other report.
Ending == stage \in {"close", "return"} => emitter \in {"send", "dead"}

\* A PC without the gadget has no key of it down.
Gadget == kind = "hidg" /\ ~ attached => ~ key

Released == ~ sent /\ (kind = "hidg" => ~ key)
AfterClose ==
  /\ stage = "return" /\ ~ raced => emitter = "dead" /\ Released
  /\ stage # "gone" => how = "none"

LifeInv == LifeType /\ WritesLater /\ Ending /\ Gadget /\ AfterClose /\ LetGo

-----------------------------------------------------------------------------
\* A first start has written nothing.
LEMMA LifeInvInit == LifeInit => LifeInv
BY DEF LifeInit, LifeInv, LifeType, Stages, WritesLater, Ending, Gadget, Released, AfterClose, LetGo

\* One step per action.  Put and Leave are behind most of them.
LEMMA LifeInvNext == LifeInv /\ [LifeNext]_lifeVars => LifeInv'
<1> SUFFICES ASSUME LifeInv, [LifeNext]_lifeVars PROVE LifeInv'
  OBVIOUS
<1> USE DEF LifeInv, LifeType, Stages, WritesLater, Ending, Gadget, Released, AfterClose, LetGo, Leave, Put, mainVars
<1>1. CASE Misconfigured BY <1>1 DEF Misconfigured
<1>2. CASE BuildSinkFails BY <1>2 DEF BuildSinkFails
<1>3. CASE BuildSink BY <1>3 DEF BuildSink
<1>4. CASE BindFails BY <1>4 DEF BindFails
<1>5. CASE StartThreads BY <1>5 DEF StartThreads
<1>6. CASE InstallHandlers BY <1>6 DEF InstallHandlers
<1>7. CASE NoticeDeadEmitter BY <1>7 DEF NoticeDeadEmitter
<1>8. CASE Join BY <1>8 DEF Join
<1>9. CASE CloseSink BY <1>9 DEF CloseSink
<1>10. CASE ReturnFromMain BY <1>10 DEF ReturnFromMain
<1>11. CASE Change BY <1>11 DEF Change
<1>12. CASE Build BY <1>12 DEF Build
<1>13. CASE Send BY <1>13 DEF Send
<1>14. CASE EmitterDies BY <1>14 DEF EmitterDies
<1>15. CASE Signal BY <1>15 DEF Signal
<1>16. CASE Kill BY <1>16 DEF Kill
<1>17. CASE Restart BY <1>17 DEF Restart
<1>18. CASE GiveUp BY <1>18 DEF GiveUp
<1>19. CASE Attach BY <1>19 DEF Attach
<1>20. CASE Detach BY <1>20 DEF Detach
<1>21. CASE Silence BY <1>21 DEF Silence
<1>22. CASE UNCHANGED lifeVars BY <1>22 DEF lifeVars
<1> QED
  BY <1>1, <1>2, <1>3, <1>4, <1>5, <1>6, <1>7, <1>8, <1>9, <1>10, <1>11, <1>12, <1>13, <1>14, <1>15,
     <1>16, <1>17, <1>18, <1>19, <1>20, <1>21, <1>22 DEF LifeNext, Main

\* On every way a main that had a sink returns the key has come up, for any number of kills and restarts
\* (__main__.py:69-186).
THEOREM LetGoAlways == LifeSpec => []LetGo
<1>1. LifeInv => LetGo
  BY DEF LifeInv
<1> QED BY LifeInvInit, LifeInvNext, <1>1, PTL DEF LifeSpec

-----------------------------------------------------------------------------
(* SerialSink: the release that main's close() sends comes after whatever    *)
(* the emitter sends.                                                        *)

\* Who holds the lock is in send(); stop() comes before everything main does; close() takes
\* the lock when the emitter has ended its loop or is inside a send that has it.
SinkType ==
  /\ pc \in [Callers -> {"idle", "lock", "in", "join", "close", "closed", "gone"}]
  /\ pc["emitter"] \in {"idle", "lock", "in", "gone"} /\ pc["main"] # "gone"
  /\ \A c \in Callers : lock = c <=> pc[c] = "in"
  /\ stopped \in BOOLEAN /\ (stopped <=> pc["main"] # "idle")
EmitterBehind ==
  /\ pc["main"] = "lock" => pc["emitter"] \in {"in", "idle", "gone"}
  /\ pc["main"] \in {"in", "close", "closed"} => pc["emitter"] \in {"idle", "gone"}
  /\ pc["main"] \in {"close", "closed"} => last = "main"

SinkInv == SinkType /\ EmitterBehind

LEMMA SinkInitHolds == SinkInit => SinkInv
BY SinkAssumption DEF SinkInit, SinkInv, SinkType, EmitterBehind, Callers

LEMMA SinkStepHolds == SinkInv /\ [SinkNext]_sinkVars => SinkInv'
<1> SUFFICES ASSUME SinkInv, [SinkNext]_sinkVars PROVE SinkInv'
  OBVIOUS
<1> USE SinkAssumption DEF SinkInv, SinkType, EmitterBehind, Callers, Return
<1>1. ASSUME NEW c \in Callers, SendStep(c) PROVE SinkInv'
  <2>1. CASE Enter(c) BY <1>1, <2>1 DEF Enter
  <2>2. CASE SendNoHandle(c) BY <1>1, <2>2 DEF SendNoHandle
  <2>3. CASE Open(c) BY <1>1, <2>3 DEF Open
  <2>4. CASE Write(c) BY <1>1, <2>4 DEF Write
  <2>5. CASE WriteFails(c) BY <1>1, <2>5 DEF WriteFails
  <2> QED
    BY <1>1, <2>1, <2>2, <2>3, <2>4, <2>5 DEF SendStep
<1>2. CASE EmitterSend BY <1>2 DEF EmitterSend
<1>3. CASE EmitterEnds BY <1>3 DEF EmitterEnds
<1>4. CASE Stop BY <1>4 DEF Stop
<1>5. CASE CloseJoin BY <1>5 DEF CloseJoin
<1>6. CASE CloseHandle BY <1>6 DEF CloseHandle
<1>7. CASE Pull \/ PutBack \/ Drain \/ Tick
  BY <1>7 DEF Pull, PutBack, Drain, Tick
<1>8. CASE UNCHANGED sinkVars
  BY <1>8 DEF sinkVars
<1> QED
  BY <1>1, <1>2, <1>3, <1>4, <1>5, <1>6, <1>7, <1>8 DEF SinkNext, SinkMain

\* When close() returns, its send of the release was the last to end and the emitter is not
\* inside another, for any ports, buffers, pulls and times.
THEOREM ReleasedAlwaysLast == SinkSpec => []ReleasedLast
<1>1. SinkInit => SinkInv
  BY SinkInitHolds
<1>2. SinkInv /\ [SinkNext]_sinkVars => SinkInv'
  BY SinkStepHolds
<1>3. SinkInv => ReleasedLast
  BY DEF SinkInv, EmitterBehind, ReleasedLast
<1> QED
  BY <1>1, <1>2, <1>3, PTL DEF SinkSpec

-----------------------------------------------------------------------------
(* Keyboard: KeyState's half of the truth and the events not read yet        *)
(* together are what is held on the keyboards.                               *)

\* q speaks of key k, if only of its repetition.
Has(q, k) == \E i \in DOMAIN q : q[i].key = k
Side(p, k) == IF k \in down[p] THEN "down" ELSE "up"

KeyboardType ==
  /\ devices \in SUBSET Paths /\ live \in SUBSET devices
  /\ events \in [Paths -> Seq(Event)] /\ down \in [Paths -> SUBSET Keys]
  /\ physical \in SUBSET Keys /\ heldBy \in [Paths -> SUBSET Keys]
  /\ lingering \in SUBSET Keys /\ missed \in SUBSET Keys

\* The last change that a handle has of a key is what happened to it last.
Consistent == \A p \in live, k \in Keys :
  Changes(events[p], k) => Settles(events[p], k, Side(p, k))

\* One keyboard at a time has to do with a key.
Exclusive == \A p, q \in live, k \in Keys :
  p # q /\ (k \in down[p] \/ Has(events[p], k)) => k \notin down[q] /\ ~ Has(events[q], k)

\* A key that is held is on its way to KeyState or there.
HeldIsKnown == \A p \in live, k \in Keys :
  k \in down[p] /\ k \notin missed => Changes(events[p], k) \/ k \in heldBy[p]

\* A key that KeyState has from a keyboard is held there, or its release is on the way.
KnownIsHeld == \A p \in live, k \in Keys :
  k \in heldBy[p] /\ k \notin missed => k \in down[p] \/ Changes(events[p], k)

\* A key of KeyState is there from one keyboard that is grabbed, or lingers.
Owned ==
  ~ kbStopped =>
    /\ \A p \in Paths, k \in Keys : k \in heldBy[p] =>
         /\ k \in physical /\ k \notin lingering /\ p \in devices
         /\ \A q \in Paths : k \in heldBy[q] => q = p
    /\ \A k \in physical : k \in lingering \/ \E p \in Paths : k \in heldBy[p]

KeyboardInv ==
  KeyboardType /\ Consistent /\ Exclusive /\ HeldIsKnown /\ KnownIsHeld /\ Owned

-----------------------------------------------------------------------------
LEMMA NothingUnread ==
  ASSUME NEW q, q = << >>, NEW k
  PROVE  ~ Has(q, k) /\ ~ Changes(q, k) /\ \A v : ~ Settles(q, k, v)
BY DEF Has, Changes, Settles

\* An event that is a change settles its key, and leaves the others as they were.
LEMMA AppendSettles ==
  ASSUME NEW q \in Seq(Event), NEW e \in Event, NEW k, NEW p, p = Append(q, e)
  PROVE  /\ p \in Seq(Event)
         /\ Has(p, k) <=> Has(q, k) \/ e.key = k
         /\ Changes(p, k) <=> Changes(q, k) \/ (e.key = k /\ e.value # "repeat")
         /\ e.key = k => Settles(p, k, e.value)
         /\ \A v : (e.key # k \/ e.value = "repeat") /\ Settles(q, k, v) => Settles(p, k, v)
<1> DEFINE N == Len(q)
<1>1. /\ N \in Nat /\ p \in Seq(Event) /\ DOMAIN q = 1 .. N /\ DOMAIN p = 1 .. N + 1
      /\ \A i \in 1 .. N : p[i] = q[i]
      /\ p[N + 1] = e
  OBVIOUS
<1> HIDE DEF N
<1>2. N + 1 \in 1 .. N + 1 /\ \A i \in 1 .. N + 1 : i \in 1 .. N \/ i = N + 1
  BY <1>1
<1>3. \A i \in 1 .. N : i \in 1 .. N + 1 /\ ~ (i > N + 1) /\ N + 1 > i
  BY <1>1
<1>4. Has(p, k) <=> Has(q, k) \/ e.key = k
  BY <1>1, <1>2, <1>3 DEF Has
<1>5. Changes(p, k) <=> Changes(q, k) \/ (e.key = k /\ e.value # "repeat")
  BY <1>1, <1>2, <1>3 DEF Changes
<1>6. e.key = k => Settles(p, k, e.value)
  BY <1>1, <1>2, <1>3 DEF Settles
<1>7. ASSUME NEW v, e.key # k \/ e.value = "repeat", Settles(q, k, v) PROVE Settles(p, k, v)
  BY <1>1, <1>2, <1>3, <1>7 DEF Settles
<1> QED
  BY <1>1, <1>4, <1>5, <1>6, <1>7

\* Reading takes the first event away; if that was the last change of its key, it is the one
\* that settled it.
LEMMA TailSettles ==
  ASSUME NEW q \in Seq(Event), q # << >>, NEW k
  PROVE  /\ Tail(q) \in Seq(Event) /\ Head(q) \in Event
         /\ Has(Tail(q), k) => Has(q, k)
         /\ Head(q).key = k => Has(q, k)
         /\ Changes(Tail(q), k) => Changes(q, k)
         /\ Changes(q, k) => Changes(Tail(q), k) \/ (Head(q).key = k /\ Head(q).value # "repeat")
         /\ \A v : Settles(q, k, v) /\ v # "repeat" =>
              IF Changes(Tail(q), k) THEN Settles(Tail(q), k, v)
                                     ELSE Head(q).key = k /\ Head(q).value = v
<1> DEFINE N == Len(q)
           t == Tail(q)
           h == Head(q)
<1>1. /\ N \in Nat /\ N > 0 /\ t \in Seq(Event) /\ h \in Event
      /\ DOMAIN q = 1 .. N /\ DOMAIN t = 1 .. N - 1
      /\ \A i \in 1 .. N - 1 : t[i] = q[i + 1]
      /\ q[1] = h
  OBVIOUS
<1> HIDE DEF N, t, h
<1>2. 1 \in 1 .. N /\ \A i \in 1 .. N : i = 1 \/ (i - 1 \in 1 .. N - 1 /\ t[i - 1] = q[i])
  <2>1. \A i \in 1 .. N : i = 1 \/ (i - 1 \in 1 .. N - 1 /\ (i - 1) + 1 = i)
    BY <1>1
  <2> QED
    BY <1>1, <2>1
<1>3. \A i \in 1 .. N - 1 : i + 1 \in 1 .. N /\ i + 1 > 1
  BY <1>1
<1>4. (Has(t, k) => Has(q, k)) /\ (h.key = k => Has(q, k))
  <2>1. Has(t, k) => Has(q, k)
    BY <1>1, <1>3 DEF Has
  <2>2. 1 \in DOMAIN q /\ q[1].key = h.key
    BY <1>1, <1>2
  <2>3. h.key = k => Has(q, k)
    BY <2>2 DEF Has
  <2> QED
    BY <2>1, <2>3
<1>5. Changes(t, k) => Changes(q, k)
  BY <1>1, <1>3 DEF Changes
<1>6. Changes(q, k) => Changes(t, k) \/ (h.key = k /\ h.value # "repeat")
  BY <1>1, <1>2 DEF Changes
<1>7. ASSUME NEW v, Settles(q, k, v), v # "repeat"
      PROVE  IF Changes(t, k) THEN Settles(t, k, v) ELSE h.key = k /\ h.value = v
  <2>1. PICK i \in 1 .. N : /\ q[i].key = k /\ q[i].value = v
                            /\ \A j \in 1 .. N : j > i /\ q[j].key = k => q[j].value = "repeat"
    BY <1>1, <1>7 DEF Settles
  <2>2. CASE i = 1
    <3>1. ~ Changes(t, k)
      BY <1>1, <1>3, <2>1, <2>2 DEF Changes
    <3> QED
      BY <1>1, <2>1, <2>2, <3>1
  <2>3. CASE i # 1
    <3>1. i - 1 \in 1 .. N - 1 /\ t[i - 1] = q[i]
      BY <1>2, <2>3
    <3>2. Changes(t, k)
      BY <1>1, <1>7, <2>1, <3>1 DEF Changes
    <3>3. \A j \in 1 .. N - 1 : j > i - 1 /\ t[j].key = k => t[j].value = "repeat"
      <4>1. \A j \in 1 .. N - 1 : j > i - 1 => j + 1 > i /\ j + 1 \in 1 .. N
        BY <1>1, <2>1
      <4> QED
        BY <1>1, <2>1, <4>1
    <3>4. Settles(t, k, v)
      BY <1>1, <2>1, <3>1, <3>3 DEF Settles
    <3> QED
      BY <3>2, <3>4
  <2> QED
    BY <2>2, <2>3
<1> QED
  BY <1>1, <1>4, <1>5, <1>6, <1>7 DEF t, h

\* A key settles on one value.
LEMMA SettlesOnce ==
  ASSUME NEW q \in Seq(Event), NEW k, NEW v, v # "repeat", Settles(q, k, v)
  PROVE  /\ Changes(q, k) /\ Has(q, k)
         /\ \A w : Settles(q, k, w) /\ w # "repeat" => w = v
<1>1. Changes(q, k) /\ Has(q, k)
  BY DEF Settles, Changes, Has
<1>2. ASSUME NEW w, Settles(q, k, w), w # "repeat" PROVE w = v
  <2>1. PICK i \in DOMAIN q : /\ q[i].key = k /\ q[i].value = v
                              /\ \A j \in DOMAIN q : j > i /\ q[j].key = k => q[j].value = "repeat"
    BY DEF Settles
  <2>2. PICK m \in DOMAIN q : /\ q[m].key = k /\ q[m].value = w
                              /\ \A j \in DOMAIN q : j > m /\ q[j].key = k => q[j].value = "repeat"
    BY <1>2 DEF Settles
  <2>3. i \in Nat /\ m \in Nat
    OBVIOUS
  <2>4. ~ (i > m) /\ ~ (m > i)
    BY <1>2, <2>1, <2>2
  <2> QED
    BY <2>1, <2>2, <2>3, <2>4
<1> QED
  BY <1>1, <1>2

-----------------------------------------------------------------------------
LEMMA KeyboardInitHolds == KeyboardInit => KeyboardInv
<1> SUFFICES ASSUME KeyboardInit PROVE KeyboardInv
  OBVIOUS
<1>1. << >> \in Seq(Event)
  OBVIOUS
<1> QED
  BY <1>1 DEF KeyboardInit, KeyboardInv, KeyboardType, Consistent, Exclusive, HeldIsKnown, KnownIsHeld, Owned

\* A handle that was just opened has nothing to tell, no key down and gave KeyState none.
LEMMA ScanHolds == ASSUME KeyboardInv, NEW S \in SUBSET Paths, Scan(S) PROVE KeyboardInv'
<1>1. /\ S \subseteq present \ devices /\ devices' = devices \cup S /\ live' = live \cup S
      /\ events' = [p \in Paths |-> IF p \in S THEN << >> ELSE events[p]]
      /\ down' = [p \in Paths |-> IF p \in S THEN {} ELSE down[p]]
      /\ UNCHANGED <<physical, heldBy, lingering, missed, kbStopped>> /\ S \in SUBSET Paths
      /\ ~ kbStopped
  BY DEF Scan, Candidates, KeyboardInv, KeyboardType, traces
<1>2. << >> \in Seq(Event)
  OBVIOUS
<1>3. KeyboardType'
  BY <1>1, <1>2 DEF KeyboardInv, KeyboardType
<1>4. ASSUME NEW q \in live'
      PROVE  /\ q \in Paths
             /\ q \in S => events'[q] = << >> /\ down'[q] = {} /\ q \notin live /\ q \notin devices
             /\ q \notin S => events'[q] = events[q] /\ down'[q] = down[q] /\ q \in live
  BY <1>1, <1>4 DEF KeyboardInv, KeyboardType
<1>5. \A q \in S, k \in Keys : ~ Has(events'[q], k) /\ ~ Changes(events'[q], k)
  BY <1>1, <1>4, NothingUnread
<1>6. \A q \in live' \ S, k \in Keys : Side(q, k)' = Side(q, k)
  BY <1>4 DEF Side
<1>7. Consistent'
  BY <1>4, <1>5, <1>6 DEF KeyboardInv, Consistent
<1>8. Exclusive'
  BY <1>4, <1>5 DEF KeyboardInv, Exclusive
<1>9. HeldIsKnown'
  BY <1>1, <1>4, <1>5 DEF KeyboardInv, HeldIsKnown
<1>10. KnownIsHeld'
  BY <1>1, <1>4 DEF KeyboardInv, KnownIsHeld, Owned
<1>11. Owned'
  BY <1>1 DEF KeyboardInv, Owned
<1> QED
  BY <1>3, <1>7, <1>8, <1>9, <1>10, <1>11 DEF KeyboardInv

\* What is read moves from the queue to KeyState.
LEMMA ReadHolds == ASSUME KeyboardInv, NEW p \in Paths, Read(p) PROVE KeyboardInv'
<1> DEFINE h == Head(events[p])
           t == Tail(events[p])
           told == IF h.value = "repeat" THEN {} ELSE {h.key}
<1>1. /\ p \in live /\ events[p] \in Seq(Event) /\ events[p] # << >> /\ p \in devices
      /\ KeyboardType /\ Consistent /\ Exclusive /\ HeldIsKnown /\ KnownIsHeld /\ Owned
  BY DEF Read, KeyboardInv, KeyboardType
<1>2. /\ physical' = handle(physical, h) /\ events' = [events EXCEPT ![p] = t]
      /\ heldBy' = [q \in Paths |-> (heldBy[q] \ told) \cup (IF q = p /\ h.value = "down" THEN told ELSE {})]
      /\ lingering' = lingering \ told /\ missed' = missed \ told
      /\ UNCHANGED <<devices, live, down, kbStopped>> /\ ~ kbStopped
  BY DEF Read
<1>3. /\ t \in Seq(Event) /\ h \in Event
      /\ \A k : /\ Has(t, k) => Has(events[p], k)
                /\ h.key = k => Has(events[p], k)
                /\ Changes(t, k) => Changes(events[p], k)
                /\ Changes(events[p], k) => Changes(t, k) \/ (h.key = k /\ h.value # "repeat")
                /\ \A v : Settles(events[p], k, v) /\ v # "repeat" =>
                     IF Changes(t, k) THEN Settles(t, k, v) ELSE h.key = k /\ h.value = v
  <2>1. events[p] \in Seq(Event) /\ events[p] # << >>
    BY <1>1
  <2> QED
    BY <2>1, TailSettles, Zenon
<1>4. \A k : h.key = k /\ h.value # "repeat" => Changes(events[p], k)
  BY <1>1, <1>3 DEF Changes
<1> HIDE DEF h, t
<1>5. h.key \in Keys /\ h.value \in {"down", "up", "repeat"}
  BY <1>3 DEF Event, Values
<1>6. events' \in [Paths -> Seq(Event)] /\ \A q \in Paths : events'[q] = IF q = p THEN t ELSE events[q]
  BY <1>1, <1>2, <1>3 DEF KeyboardType
\* A key that the event changes, and every other.
<1>7. ASSUME NEW k, h.key = k, h.value # "repeat"
      PROVE  /\ k \in physical' <=> h.value = "down"
             /\ k \notin lingering' /\ k \notin missed'
             /\ \A q \in Paths : k \in heldBy'[q] <=> q = p /\ h.value = "down"
  BY <1>2, <1>5, <1>7 DEF handle
<1>8. ASSUME NEW k, ~ (h.key = k /\ h.value # "repeat")
      PROVE  /\ k \in physical' <=> k \in physical
             /\ k \in lingering' <=> k \in lingering
             /\ k \in missed' <=> k \in missed
             /\ \A q \in Paths : k \in heldBy'[q] <=> k \in heldBy[q]
  BY <1>2, <1>5, <1>8 DEF handle
<1>9. KeyboardType'
  <2>1. physical' \in SUBSET Keys
    BY <1>1, <1>2, <1>5 DEF KeyboardType, handle
  <2> QED
    BY <1>1, <1>2, <1>5, <1>6, <2>1 DEF KeyboardType
<1> HIDE DEF told
<1>10. \A q \in live : q \in Paths
  BY <1>1 DEF KeyboardType
<1>11. \A q \in live, k \in Keys : Side(q, k)' = Side(q, k) /\ Side(q, k) # "repeat"
  BY <1>2 DEF Side
<1>12. Consistent'
  <2>1. ASSUME NEW q \in live, NEW k \in Keys, Changes(events'[q], k)
        PROVE  Settles(events'[q], k, Side(q, k))
    BY <1>1, <1>3, <1>6, <1>10, <1>11, <2>1 DEF Consistent
  <2> QED
    BY <1>2, <1>11, <2>1 DEF Consistent
<1>13. Exclusive'
  BY <1>1, <1>2, <1>3, <1>6, <1>10 DEF Exclusive
\* If the event was the last change of its key, it says where the key is.
<1>14. ASSUME NEW k \in Keys, h.key = k, h.value # "repeat", ~ Changes(t, k)
       PROVE  h.value = "down" <=> k \in down[p]
  <2>1. Settles(events[p], k, Side(p, k))
    BY <1>1, <1>4, <1>14 DEF Consistent
  <2>2. h.value = Side(p, k)
    BY <1>1, <1>3, <1>11, <1>14, <2>1
  <2> QED
    BY <2>2 DEF Side
<1>15. HeldIsKnown'
  <2>1. ASSUME NEW q \in live, NEW k \in Keys, k \in down[q], k \notin missed', ~ Changes(events'[q], k)
        PROVE  k \in heldBy'[q]
    <3>1. CASE h.key = k /\ h.value # "repeat"
      <4>1. q = p
        BY <1>1, <1>3, <2>1, <3>1 DEF Exclusive
      <4> QED
        BY <1>6, <1>7, <1>14, <2>1, <3>1, <4>1
    <3>2. CASE ~ (h.key = k /\ h.value # "repeat")
      <4>1. k \notin missed /\ ~ Changes(events[q], k)
        BY <1>3, <1>6, <1>8, <1>10, <2>1, <3>2
      <4> QED
        BY <1>1, <1>8, <1>10, <2>1, <3>2, <4>1 DEF HeldIsKnown
    <3> QED
      BY <3>1, <3>2
  <2> QED
    BY <1>2, <2>1 DEF HeldIsKnown
<1>16. KnownIsHeld'
  <2>1. ASSUME NEW q \in live, NEW k \in Keys, k \in heldBy'[q], k \notin missed', ~ Changes(events'[q], k)
        PROVE  k \in down[q]
    <3>1. CASE h.key = k /\ h.value # "repeat"
      <4>1. q = p /\ h.value = "down"
        BY <1>7, <1>10, <2>1, <3>1
      <4> QED
        BY <1>1, <1>6, <1>14, <2>1, <3>1, <4>1
    <3>2. CASE ~ (h.key = k /\ h.value # "repeat")
      <4>1. k \notin missed /\ k \in heldBy[q] /\ ~ Changes(events[q], k)
        BY <1>3, <1>6, <1>8, <1>10, <2>1, <3>2
      <4> QED
        BY <1>1, <2>1, <4>1 DEF KnownIsHeld
    <3> QED
      BY <3>1, <3>2
  <2> QED
    BY <1>2, <2>1 DEF KnownIsHeld
<1>17. Owned'
  <2>1. ASSUME NEW q \in Paths, NEW k \in Keys, k \in heldBy'[q]
        PROVE  /\ k \in physical' /\ k \notin lingering' /\ q \in devices
               /\ \A o \in Paths : k \in heldBy'[o] => o = q
    <3>1. CASE h.key = k /\ h.value # "repeat"
      BY <1>1, <1>7, <2>1, <3>1
    <3>2. CASE ~ (h.key = k /\ h.value # "repeat")
      <4>1. k \in heldBy[q]
        BY <1>8, <2>1, <3>2
      <4> QED
        BY <1>1, <1>2, <1>8, <3>2, <4>1 DEF Owned
    <3> QED
      BY <3>1, <3>2
  <2>2. ASSUME NEW k \in physical' PROVE k \in lingering' \/ \E q \in Paths : k \in heldBy'[q]
    <3>1. CASE h.key = k /\ h.value # "repeat"
      BY <1>1, <1>7, <2>2, <3>1
    <3>2. CASE ~ (h.key = k /\ h.value # "repeat")
      BY <1>1, <1>2, <1>8, <2>2, <3>2 DEF Owned
    <3> QED
      BY <3>1, <3>2
  <2> QED
    BY <1>2, <2>1, <2>2 DEF Owned
<1> QED
  BY <1>9, <1>12, <1>13, <1>15, <1>16, <1>17 DEF KeyboardInv

\* What a key does replaces what was said of it before; a buffer that is full forgets what it
\* had, and the keys that it spoke of are missed.
LEMMA EmitHolds ==
  ASSUME KeyboardInv, NEW p \in Paths, NEW k \in Keys, NEW e \in Event, NEW hold \in SUBSET Keys,
         Emit(p, e, hold), e.key = k,
         \/ e.value = "repeat" /\ hold = down[p] /\ k \in down[p]
         \/ e.value = "down" /\ hold = down[p] \cup {k} /\ Unused(p, k)
         \/ e.value = "up" /\ hold = down[p] \ {k} /\ Unused(p, k)
  PROVE  KeyboardInv'
<1> DEFINE full == Len(events[p]) = BUFFER
           N == IF full THEN <<e>> ELSE Append(events[p], e)
<1>1. /\ p \in live /\ events[p] \in Seq(Event)
      /\ KeyboardType /\ Consistent /\ Exclusive /\ HeldIsKnown /\ KnownIsHeld /\ Owned
  BY DEF Emit, KeyboardInv, KeyboardType
<1>2. /\ events' = [events EXCEPT ![p] = N] /\ down' = [down EXCEPT ![p] = hold]
      /\ missed' = missed \cup {j \in Keys : full /\ Changes(events[p], j)}
      /\ UNCHANGED <<devices, live, physical, heldBy, lingering, kbStopped>>
  <2>1. UNCHANGED <<devices, live, physical, heldBy, lingering, kbStopped>> /\ down' = [down EXCEPT ![p] = hold]
    BY DEF Emit
  <2>2. events' = [events EXCEPT ![p] = N] /\ missed' = missed \cup {j \in Keys : full /\ Changes(events[p], j)}
    BY Zenon DEF Emit
  <2> QED
    BY <2>1, <2>2, Zenon
<1>3. << >> \in Seq(Event) /\ <<e>> = Append(<< >>, e)
  OBVIOUS
<1>4. /\ N \in Seq(Event)
      /\ \A j : /\ Has(N, j) => Has(events[p], j) \/ j = k
                /\ Changes(N, j) => (Changes(events[p], j) /\ ~ full) \/ (j = k /\ e.value # "repeat")
                /\ Settles(N, k, e.value)
                /\ ~ full /\ Changes(events[p], j) => Changes(N, j)
                /\ ~ full /\ (j # k \/ e.value = "repeat") => \A v : Settles(events[p], j, v) => Settles(N, j, v)
  <2>1. CASE full
    BY <1>3, <2>1, NothingUnread, AppendSettles
  <2>2. CASE ~ full
    BY <1>1, <2>2, AppendSettles
  <2> QED
    BY <2>1, <2>2
<1>5. e.value # "repeat" => Changes(N, k)
  BY <1>4 DEF Settles, Changes
<1>6. \A j \in Keys : /\ j \notin missed' => j \notin missed
                      /\ full /\ Changes(events[p], j) => j \in missed'
  BY <1>2
<1> HIDE DEF full, N
<1>7. /\ events' \in [Paths -> Seq(Event)] /\ down' \in [Paths -> SUBSET Keys]
      /\ \A q \in Paths : events'[q] = (IF q = p THEN N ELSE events[q])
                          /\ down'[q] = (IF q = p THEN hold ELSE down[q])
  BY <1>1, <1>2, <1>4 DEF KeyboardType
<1>8. KeyboardType'
  BY <1>1, <1>2, <1>7 DEF KeyboardType
<1>9. \A q \in live : q \in Paths
  BY <1>1 DEF KeyboardType
<1>10. Consistent'
  <2>1. ASSUME NEW q \in live, NEW j \in Keys, Changes(events'[q], j)
        PROVE  Settles(events'[q], j, Side(q, j)')
    <3>1. CASE q # p
      <4>1. events'[q] = events[q] /\ Side(q, j)' = Side(q, j)
        BY <1>7, <1>9, <3>1 DEF Side
      <4> QED
        BY <1>1, <2>1, <4>1 DEF Consistent
    <3>2. CASE q = p /\ j = k /\ e.value # "repeat"
      <4>1. Side(q, j)' = e.value
        BY <1>7, <3>2 DEF Side
      <4> QED
        BY <1>4, <1>7, <3>2, <4>1
    <3>3. CASE q = p /\ (j # k \/ e.value = "repeat")
      <4>1. Side(q, j)' = Side(q, j)
        BY <1>7, <3>3 DEF Side
      <4>2. ~ full /\ Changes(events[p], j)
        BY <1>4, <1>7, <2>1, <3>3
      <4>3. Settles(events[p], j, Side(p, j))
        BY <1>1, <4>2 DEF Consistent
      <4> QED
        BY <1>4, <1>7, <3>3, <4>1, <4>2, <4>3
    <3> QED
      BY <3>1, <3>2, <3>3
  <2> QED
    BY <1>2, <2>1 DEF Consistent
<1>11. \A q \in live \ {p} : k \notin down[q] /\ ~ Has(events[q], k)
  <2>1. CASE e.value = "repeat"
    BY <1>1, <2>1 DEF Exclusive
  <2>2. CASE e.value # "repeat"
    BY <2>2 DEF Unused, Has
  <2> QED
    BY <2>1, <2>2
<1>12. Exclusive'
  <2>1. \A q \in live, j \in Keys :
          (j \in down'[q] => j \in down[q] \/ (q = p /\ j = k))
          /\ (Has(events'[q], j) => Has(events[q], j) \/ (q = p /\ j = k))
    BY <1>4, <1>7, <1>9
  <2> QED
    BY <1>1, <1>2, <1>11, <2>1 DEF Exclusive
<1>13. ASSUME NEW q \in live, NEW j \in Keys, j \notin missed', ~ Changes(events'[q], j)
       PROVE  j \notin missed /\ ~ Changes(events[q], j) /\ (j \in down'[q] <=> j \in down[q])
  <2>1. CASE q # p
    BY <1>6, <1>7, <1>9, <1>13, <2>1
  <2>2. CASE q = p
    <3>1. ~ (j = k /\ e.value # "repeat")
      BY <1>5, <1>7, <1>13, <2>2
    <3>2. ~ Changes(events[p], j)
      BY <1>4, <1>6, <1>7, <1>13, <2>2
    <3> QED
      BY <1>6, <1>7, <1>13, <2>2, <3>1, <3>2
  <2> QED
    BY <2>1, <2>2
<1>14. HeldIsKnown'
  BY <1>1, <1>2, <1>13 DEF HeldIsKnown
<1>15. KnownIsHeld'
  BY <1>1, <1>2, <1>13 DEF KnownIsHeld
<1>16. Owned'
  BY <1>1, <1>2 DEF Owned
<1> QED
  BY <1>8, <1>10, <1>12, <1>14, <1>15, <1>16 DEF KeyboardInv

\* What a keyboard gave KeyState lingers when it goes, unless it was the last.
LEMMA DropHolds == ASSUME KeyboardInv, NEW p \in Paths, ReadFails(p) PROVE KeyboardInv'
<1>1. /\ p \notin live /\ p \in devices /\ devices' = devices \ {p} /\ live' = live /\ down' = down
      /\ physical' = (IF devices' = {} THEN {} ELSE physical)
      /\ missed' = (IF devices' = {} THEN {} ELSE missed)
      /\ heldBy' = [heldBy EXCEPT ![p] = {}]
      /\ lingering' = (IF devices' = {} THEN {} ELSE lingering \cup heldBy[p])
      /\ kbStopped' = kbStopped /\ ~ kbStopped /\ events' = [events EXCEPT ![p] = << >>]
  BY DEF ReadFails, drop
<1>2. live' \in SUBSET devices' /\ << >> \in Seq(Event)
  BY <1>1 DEF KeyboardInv, KeyboardType
<1>3. KeyboardType'
  BY <1>1, <1>2 DEF KeyboardInv, KeyboardType
<1>4. \A q \in live : events'[q] = events[q] /\ heldBy'[q] = heldBy[q]
  BY <1>1 DEF KeyboardInv, KeyboardType
<1>5. Consistent'
  BY <1>1, <1>4 DEF KeyboardInv, Consistent, Side
<1>6. Exclusive'
  BY <1>1, <1>4 DEF KeyboardInv, Exclusive
<1>7. HeldIsKnown'
  BY <1>1, <1>2, <1>4 DEF KeyboardInv, HeldIsKnown
<1>8. KnownIsHeld'
  BY <1>1, <1>2, <1>4 DEF KeyboardInv, KnownIsHeld
<1>9. Owned'
  <2>1. Owned /\ KeyboardType
    BY DEF KeyboardInv
  <2>2. \A q \in Paths : heldBy'[q] = IF q = p THEN {} ELSE heldBy[q]
    BY <1>1, <2>1 DEF KeyboardType
  <2>3. CASE devices' = {}
    <3>1. \A q \in Paths, k \in Keys : k \notin heldBy'[q]
      BY <1>1, <2>1, <2>2, <2>3 DEF Owned
    <3> QED
      BY <1>1, <2>3, <3>1 DEF Owned
  <2>4. CASE devices' # {}
    BY <1>1, <2>1, <2>2, <2>4 DEF Owned, KeyboardType
  <2> QED
    BY <2>3, <2>4
<1> QED
  BY <1>3, <1>5, <1>6, <1>7, <1>8, <1>9 DEF KeyboardInv

\* One step per action; the actions of a key are Emit.
LEMMA KeyboardStepHolds == KeyboardInv /\ [KeyboardNext]_kbVars => KeyboardInv'
<1> SUFFICES ASSUME KeyboardInv, [KeyboardNext]_kbVars PROVE KeyboardInv'
  OBVIOUS
<1>1. ASSUME NEW S \in SUBSET Paths, Scan(S) PROVE KeyboardInv'
  BY <1>1, ScanHolds
<1>2. ASSUME NEW p \in Paths, Read(p) PROVE KeyboardInv'
  BY <1>2, ReadHolds
<1>3. ASSUME NEW p \in Paths, ReadFails(p) PROVE KeyboardInv'
  BY <1>3, DropHolds
<1>4. ASSUME NEW p \in Paths, Unplug(p) PROVE KeyboardInv'
  <2>1. /\ live' = live \ {p} /\ down' = [down EXCEPT ![p] = {}]
        /\ UNCHANGED <<devices, events, physical, heldBy, lingering, missed, kbStopped>>
    BY <1>4 DEF Unplug, traces
  <2>2. KeyboardType' /\ \A q \in live' : q \in live /\ down'[q] = down[q]
    BY <2>1 DEF KeyboardInv, KeyboardType
  <2>3. Consistent'
    BY <2>1, <2>2 DEF KeyboardInv, Consistent, Side
  <2>4. Exclusive'
    BY <2>1, <2>2 DEF KeyboardInv, Exclusive
  <2>5. HeldIsKnown'
    BY <2>1, <2>2 DEF KeyboardInv, HeldIsKnown
  <2>6. KnownIsHeld'
    BY <2>1, <2>2 DEF KeyboardInv, KnownIsHeld
  <2>7. Owned'
    BY <2>1 DEF KeyboardInv, Owned
  <2> QED
    BY <2>2, <2>3, <2>4, <2>5, <2>6, <2>7 DEF KeyboardInv
<1>5. ASSUME NEW p \in Paths, NEW k \in Keys, Press(p, k) \/ Repeat(p, k) \/ Release(p, k) PROVE KeyboardInv'
  <2>1. down[p] \in SUBSET Keys
    BY DEF KeyboardInv, KeyboardType
  <2>2. \A v \in Values : [key |-> k, value |-> v] \in Event
    BY DEF Event
  <2>3. CASE Press(p, k)
    BY <2>1, <2>2, <2>3, EmitHolds DEF Press, Values
  <2>4. CASE Repeat(p, k)
    BY <2>1, <2>2, <2>4, EmitHolds DEF Repeat, Values
  <2>5. CASE Release(p, k)
    BY <2>1, <2>2, <2>5, EmitHolds DEF Release, Values
  <2> QED
    BY <1>5, <2>3, <2>4, <2>5
<1>6. CASE KeyboardStop
  <2>1. /\ devices' = {} /\ live' = {} /\ events' = [p \in Paths |-> << >>]
        /\ kbStopped' = TRUE /\ UNCHANGED <<down, physical, heldBy, lingering, missed>>
    BY <1>6 DEF KeyboardStop, traces
  <2>2. << >> \in Seq(Event)
    OBVIOUS
  <2>3. KeyboardType'
    BY <2>1, <2>2 DEF KeyboardInv, KeyboardType
  <2>4. Consistent' /\ Exclusive' /\ HeldIsKnown' /\ KnownIsHeld' /\ Owned'
    BY <2>1 DEF Consistent, Exclusive, HeldIsKnown, KnownIsHeld, Owned
  <2> QED
    BY <2>3, <2>4 DEF KeyboardInv
<1>7. CASE UNCHANGED kbVars \/ \E p \in Paths : Plug(p)
  <2>1. UNCHANGED <<devices, live, events, down, physical, heldBy, lingering, missed, kbStopped>>
    BY <1>7 DEF kbVars, traces, Plug
  <2> QED
    BY <2>1 DEF KeyboardInv, KeyboardType, Consistent, Exclusive, HeldIsKnown, KnownIsHeld, Owned, Side
<1> QED
  BY <1>1, <1>2, <1>3, <1>4, <1>5, <1>6, <1>7 DEF KeyboardNext

\* What is unread settles its key; of another, KeyState has what a keyboard gave it.
LEMMA InvGivesMirrors == KeyboardInv => Mirrors
<1> SUFFICES ASSUME KeyboardInv, ~ kbStopped, devices = live PROVE Mirrors
  BY DEF Mirrors
<1> DEFINE pressed(k) == \E p \in devices : Settles(events[p], k, "down")
           told == {k \in Keys : IF k \in Unread THEN pressed(k) ELSE k \in physical \ lingering}
<1>1. KeyboardType /\ Consistent /\ Exclusive /\ HeldIsKnown /\ KnownIsHeld /\ Owned
  BY DEF KeyboardInv
<1>2. \A p \in live : p \in Paths /\ events[p] \in Seq(Event) /\ down[p] \in SUBSET Keys
  BY <1>1 DEF KeyboardType
<1> SUFFICES ASSUME NEW k \in Keys, k \notin missed \/ k \in Unread PROVE k \in told <=> k \in Held
  BY DEF Mirrors
<1>3. k \in Held <=> \E p \in live : k \in down[p]
  BY DEF Held
<1>4. k \in Unread <=> \E p \in live : Changes(events[p], k)
  BY DEF Unread
<1>5. k \in told <=> IF k \in Unread THEN pressed(k) ELSE k \in physical /\ k \notin lingering
  OBVIOUS
<1> HIDE DEF told
<1>6. CASE k \in Unread
  <2>1. PICK p \in live : Changes(events[p], k)
    BY <1>4, <1>6
  <2>2. Settles(events[p], k, Side(p, k)) /\ Side(p, k) # "repeat"
    BY <1>1, <2>1 DEF Consistent, Side
  <2>3. \A q \in live : q # p => k \notin down[q] /\ ~ Has(events[q], k)
    <3>1. Has(events[p], k)
      BY <2>1 DEF Changes, Has
    <3> QED
      BY <1>1, <3>1 DEF Exclusive
  <2>4. \A q \in live : Settles(events[q], k, "down") => q = p /\ Side(p, k) = "down"
    BY <1>2, <2>2, <2>3, SettlesOnce
  <2>5. k \in down[p] <=> Side(p, k) = "down"
    BY DEF Side
  <2>6. k \in Held <=> Side(p, k) = "down"
    BY <1>3, <2>3, <2>5
  <2>7. pressed(k) <=> Side(p, k) = "down"
    BY <2>2, <2>4
  <2> QED
    BY <1>5, <1>6, <2>6, <2>7
<1>7. CASE k \notin Unread
  <2>1. \A p \in live : k \in down[p] <=> k \in heldBy[p]
    BY <1>1, <1>4, <1>7 DEF HeldIsKnown, KnownIsHeld
  <2>2. k \in physical /\ k \notin lingering <=> \E p \in live : k \in heldBy[p]
    BY <1>1, <1>2 DEF Owned
  <2> QED
    BY <1>3, <1>5, <1>7, <2>1, <2>2
<1> QED
  BY <1>6, <1>7

\* Once the unread events are applied KeyState is what is held on the keyboards, key by key
\* and with the exceptions that Mirrors names, for any number of keyboards, keys and events,
\* and any size of the kernel's buffer.
THEOREM AlwaysMirrors == KeyboardSpec => []Mirrors
<1>1. KeyboardInit => KeyboardInv
  BY KeyboardInitHolds
<1>2. KeyboardInv /\ [KeyboardNext]_kbVars => KeyboardInv'
  BY KeyboardStepHolds
<1>3. KeyboardInv => Mirrors
  BY InvGivesMirrors
<1> QED
  BY <1>1, <1>2, <1>3, PTL DEF KeyboardSpec

-----------------------------------------------------------------------------
(* The parts together *)

\* A behaviour of any part is one of all three, of which two rest.
LEMMA PartsRun == FairSpec => KeyboardSpec /\ SinkSpec /\ LifeSpec
<1>1. Init => KeyboardInit /\ SinkInit /\ LifeInit
  BY DEF Init
<1>2. [Next]_vars => [KeyboardNext]_kbVars /\ [SinkNext]_sinkVars /\ [LifeNext]_lifeVars
  BY DEF Next, vars, OfKeyboard, OfSink, OfLife
<1> QED BY <1>1, <1>2, PTL DEF FairSpec, KeyboardSpec, SinkSpec, LifeSpec
===============================================================================
