--------------------------- MODULE PerceptionProofs ---------------------------
(***************************************************************************)
(* The excess that LatencyStats reports is exact for every window, every   *)
(* delay and every offset of the clocks.                                   *)
(***************************************************************************)
EXTENDS MCMac, TLAPS

\* Where the last append leaves the entries: d of them have gone.
Evicted(q) == IF Len(q) < window THEN 0 ELSE 1
Pushed(p, q, x) ==
  /\ Len(p) <= window /\ Len(p) = Len(q) + 1 - Evicted(q)
  /\ \A i \in 1 .. Len(p) - 1 : i + Evicted(q) \in 1 .. Len(q) /\ p[i] = q[i + Evicted(q)]
  /\ p[Len(p)] = x

\* The window holds the transit of each frame in it.
StatsType ==
  /\ foreign \in BOOLEAN
  /\ frames \in Seq(Frames) /\ transit \in Seq(Int)
  /\ Len(frames) <= window /\ Len(transit) <= window
  /\ IF foreign THEN Len(transit) = Len(frames) ELSE transit = << >>
Follows == \A i \in 1 .. Len(transit) : transit[i] = Transit(frames[i])

\* What is left of the window has a least entry, however much of it goes.
Minima(q) == \A k \in 1 .. Len(q) : \E m \in k .. Len(q) : \A j \in k .. Len(q) : q[m] <= q[j]
MinimaExist == Minima(transit)

QueueIs ==
  foreign /\ frames # << >> => queue_ms = transit[Len(transit)] - Least(Values(transit))

StatsInv == StatsType /\ Follows /\ MinimaExist /\ QueueIs

-----------------------------------------------------------------------------
\* The least element of a set of integers is the one that is below the others.
LEMMA LeastIs ==
  ASSUME NEW S \in SUBSET Int, NEW x \in S, \A y \in S : x <= y
  PROVE  Least(S) = x
<1>1. \A z \in S : (\A y \in S : z <= y) => z = x
  BY SMT
<1>2. PICK z \in S : z = Least(S) /\ \A y \in S : z <= y
  BY Zenon DEF Least
<1> QED
  BY <1>1, <1>2

\* deque.append keeps the bound, shifts what was there and puts the new entry last.
LEMMA PushIs ==
  ASSUME NEW T, NEW q \in Seq(T), NEW x \in T, Len(q) <= window
  PROVE  Push(q, x) \in Seq(T) /\ Pushed(Push(q, x), q, x)
<1>1. window \in Nat /\ window > 0
  BY StatsAssumption
<1>2. CASE Len(q) < window
  <2>1. Push(q, x) = Append(q, x) /\ Evicted(q) = 0
    BY <1>2 DEF Push, Evicted
  <2> QED
    BY <1>1, <1>2, <2>1 DEF Pushed
<1>3. CASE ~ (Len(q) < window)
  <2>1. Push(q, x) = Append(Tail(q), x) /\ Evicted(q) = 1
    BY <1>3 DEF Push, Evicted
  <2>2. Len(q) > 0 /\ q # << >>
    BY <1>1, <1>3
  <2>3. Tail(q) \in Seq(T) /\ Len(Tail(q)) = Len(q) - 1
        /\ \A i \in 1 .. Len(q) - 1 : Tail(q)[i] = q[i + 1]
    BY <2>2
  <2>4. /\ Append(Tail(q), x) \in Seq(T) /\ Len(Append(Tail(q), x)) = Len(q)
        /\ \A i \in 1 .. Len(q) - 1 : Append(Tail(q), x)[i] = Tail(q)[i]
        /\ Append(Tail(q), x)[Len(q)] = x
    BY <2>2, <2>3
  <2> QED
    BY <1>1, <1>3, <2>1, <2>2, <2>3, <2>4 DEF Pushed
<1> QED
  BY <1>2, <1>3

\* Spans of a frame are integers, and so is what the clocks make of them.
LEMMA FrameInts ==
  ASSUME NEW f \in Frames
  PROVE  f.upstream \in Int /\ f.hop \in Int /\ f.mac \in Int /\ f.offset \in Int /\ Transit(f) \in Int
<1>1. f.upstream \in Spans /\ f.hop \in Spans /\ f.mac \in Spans /\ f.offset \in Offsets
  BY DEF Frames
<1>2. f.upstream \in Int /\ f.hop \in Int /\ f.mac \in Int /\ f.offset \in Int
  <2>1. \A s \in Spans : s \in Int
    BY StatsAssumption
  <2>2. \A o \in Offsets : o \in Int
    BY StatsAssumption
  <2> QED
    BY <1>1, <2>1, <2>2, Zenon
<1> QED
  BY <1>2 DEF Transit

\* Appending an integer to a window whose suffixes have a least entry gives another one.
LEMMA PushKeepsMinima ==
  ASSUME NEW q \in Seq(Int), NEW x \in Int, Len(q) <= window,
         Minima(q), NEW p, p = Push(q, x)
  PROVE  Minima(p)
<1> DEFINE d == Evicted(q)
           N == Len(p)
           L == Len(q)
<1>1. p \in Seq(Int) /\ Pushed(p, q, x)
  BY PushIs, Zenon
<1>2. /\ L \in Nat /\ N \in Nat /\ d \in {0, 1} /\ N = L + 1 - d
      /\ q \in [1 .. L -> Int] /\ p \in [1 .. N -> Int]
      /\ \A i \in 1 .. N - 1 : i + d \in 1 .. L /\ p[i] = q[i + d]
  BY <1>1 DEF Pushed, Evicted
<1> HIDE DEF d, N, L
<1>3. ASSUME NEW k \in 1 .. N PROVE \E m \in k .. N : \A j \in k .. N : p[m] <= p[j]
  <2>1. CASE k = N
    <3>1. N \in k .. N /\ \A j \in k .. N : j = N
      BY <1>2, <2>1
    <3>2. p[N] <= p[N]
      BY <1>2
    <3> QED
      BY <3>1, <3>2, Zenon
  <2>2. CASE k # N
    <3>1. k \in 1 .. N - 1 /\ k + d \in 1 .. L
      BY <1>2, <2>2
    <3>2. PICK m \in k + d .. L : \A j \in k + d .. L : q[m] <= q[j]
      BY <3>1, Zenon DEF Minima, L
    <3>3. m - d \in k .. N - 1 /\ m - d \in 1 .. N - 1 /\ m \in 1 .. L
      BY <1>2, <3>1, <3>2
    <3>4. p[m - d] = q[m]
      <4>1. (m - d) + d = m
        BY <1>2, <3>2
      <4> QED
        BY <1>2, <3>3, <4>1, Zenon
    <3>5. ASSUME NEW j \in k .. N - 1 PROVE p[m - d] <= p[j]
      <4>1. j + d \in k + d .. L /\ j \in 1 .. N - 1
        BY <1>2, <3>1, <3>5
      <4>2. p[j] = q[j + d]
        BY <1>2, <4>1, Zenon
      <4> QED
        BY <3>2, <3>4, <4>1, <4>2, Zenon
    <3>6. p[m - d] \in Int /\ p[N] \in Int /\ \A j \in k .. N - 1 : p[j] \in Int
      <4>1. m - d \in 1 .. N /\ N \in 1 .. N /\ \A j \in k .. N - 1 : j \in 1 .. N
        BY <1>2, <3>1, <3>3
      <4>2. \A i \in 1 .. N : p[i] \in Int
        BY <1>2
      <4> QED
        BY <4>1, <4>2, Zenon
    <3>7. /\ \A j \in k .. N : j \in k .. N - 1 \/ j = N
          /\ m - d \in k .. N /\ N \in k .. N
      BY <1>2, <3>1, <3>3
    <3>8. CASE p[m - d] <= p[N]
      BY <3>5, <3>7, <3>8, Zenon
    <3>9. CASE p[N] <= p[m - d]
      <4>1. ASSUME NEW j \in k .. N - 1 PROVE p[N] <= p[j]
        <5>1. p[m - d] <= p[j] /\ p[j] \in Int
          BY <3>5, <3>6, <4>1, Zenon
        <5> QED
          BY <3>6, <3>9, <5>1
      <4>2. p[N] <= p[N]
        BY <3>6
      <4> QED
        BY <3>7, <4>1, <4>2, Zenon
    <3> QED
      BY <3>6, <3>8, <3>9
  <2> QED
    BY <2>1, <2>2
<1> QED
  BY <1>3 DEF Minima, N

-----------------------------------------------------------------------------
LEMMA InitHolds == StatsInit => StatsInv
<1> SUFFICES ASSUME StatsInit PROVE StatsInv
  OBVIOUS
<1>1. window \in Nat
  BY StatsAssumption
<1> QED
  BY <1>1 DEF StatsInit, StatsInv, StatsType, Follows, MinimaExist, Minima, QueueIs

\* An append to both windows keeps them in step.
LEMMA ForeignHolds ==
  ASSUME StatsInv, NEW f \in Frames, ObserveForeign(f), foreign' = foreign, frames' = Push(frames, f)
  PROVE  StatsInv'
<1> USE DEF StatsInv
<1>1. /\ foreign /\ foreign' /\ transit' = Push(transit, Transit(f)) /\ Transit(f) \in Int
      /\ queue_ms' = Transit(f) - Least(Values(transit'))
  BY FrameInts DEF ObserveForeign, Excess
<1>2. /\ frames \in Seq(Frames) /\ transit \in Seq(Int) /\ Len(transit) = Len(frames)
      /\ Len(frames) <= window /\ Len(transit) <= window
  BY <1>1 DEF StatsType
<1> DEFINE d == Evicted(transit)
           N == Len(transit')
<1>3. /\ transit' \in Seq(Int) /\ N <= window /\ N = Len(transit) + 1 - d /\ N \in Nat /\ d \in {0, 1}
      /\ \A i \in 1 .. N - 1 : i + d \in 1 .. Len(transit) /\ transit'[i] = transit[i + d]
      /\ transit'[N] = Transit(f)
  <2>1. d \in {0, 1}
    BY DEF Evicted
  <2>2. transit' \in Seq(Int) /\ Pushed(transit', transit, Transit(f))
    BY <1>1, <1>2, PushIs, Zenon
  <2> QED
    BY <2>1, <2>2 DEF Pushed
<1>4. /\ frames' \in Seq(Frames) /\ Len(frames') = N
      /\ \A i \in 1 .. N - 1 : frames'[i] = frames[i + d]
      /\ frames'[N] = f
  <2>1. Evicted(frames) = d
    BY <1>2 DEF Evicted
  <2>2. frames' \in Seq(Frames) /\ Pushed(frames', frames, f)
    BY <1>2, PushIs, Zenon
  <2> HIDE DEF d
  <2>3. Len(frames') = N
    BY <1>2, <1>3, <2>1, <2>2 DEF Pushed
  <2> QED
    BY <2>1, <2>2, <2>3, Zenon DEF Pushed
<1>5. StatsType'
  BY <1>1, <1>3, <1>4 DEF StatsType
<1> HIDE DEF d, N
<1>6. \A i \in 1 .. N : transit'[i] = Transit(frames'[i])
  <2>1. ASSUME NEW i \in 1 .. N PROVE transit'[i] = Transit(frames'[i])
    <3>1. CASE i = N
      BY <1>3, <1>4, <3>1
    <3>2. CASE i # N
      <4>1. i \in 1 .. N - 1
        BY <1>3, <3>2
      <4>2. i + d \in 1 .. Len(transit) /\ transit'[i] = transit[i + d] /\ frames'[i] = frames[i + d]
        BY <1>3, <1>4, <4>1, Zenon
      <4>3. transit[i + d] = Transit(frames[i + d])
        BY <4>2, Zenon DEF Follows
      <4> QED
        BY <4>2, <4>3, Zenon
    <3> QED
      BY <3>1, <3>2
  <2> QED
    BY <2>1
<1>7. Follows'
  BY <1>6 DEF Follows, N, Transit
<1>8. MinimaExist'
  BY <1>1, <1>2, PushKeepsMinima DEF MinimaExist
<1>9. QueueIs'
  BY <1>1, <1>3 DEF QueueIs, N, Values
<1> QED
  BY <1>5, <1>7, <1>8, <1>9

LEMMA StepHolds == StatsInv /\ [StatsNext]_statsVars => StatsInv'
<1> SUFFICES ASSUME StatsInv, [StatsNext]_statsVars PROVE StatsInv'
  OBVIOUS
<1>1. CASE UNCHANGED statsVars
  BY <1>1 DEF statsVars, StatsInv, StatsType, Follows, MinimaExist, Minima, QueueIs, Transit, Values
<1>2. ASSUME NEW f \in Frames, Observe(f) PROVE StatsInv'
  <2>1. frames' = Push(frames, f) /\ foreign' = foreign
    BY <1>2 DEF Observe
  <2>2. CASE ObserveLocal(f)
    <3>1. ~ foreign /\ ~ foreign' /\ transit' = << >>
      BY <2>1, <2>2 DEF ObserveLocal, StatsInv, StatsType
    <3>2. frames' \in Seq(Frames) /\ Len(frames') <= window
      <4>1. frames \in Seq(Frames) /\ Len(frames) <= window
        BY DEF StatsInv, StatsType
      <4>2. frames' \in Seq(Frames) /\ Pushed(frames', frames, f)
        BY <2>1, <4>1, PushIs, Zenon
      <4> QED
        BY <4>2 DEF Pushed
    <3>3. Len(transit') <= window /\ transit' \in Seq(Int)
      BY <3>1, StatsAssumption
    <3>4. StatsType'
      BY <2>1, <3>1, <3>2, <3>3 DEF StatsType, StatsInv
    <3>5. Follows' /\ MinimaExist' /\ QueueIs'
      BY <3>1 DEF Follows, MinimaExist, Minima, QueueIs
    <3> QED
      BY <3>4, <3>5 DEF StatsInv
  <2>3. CASE ObserveForeign(f)
    BY <2>1, <2>3, ForeignHolds
  <2> QED
    BY <1>2, <2>2, <2>3 DEF Observe
<1> QED
  BY <1>1, <1>2 DEF StatsNext

-----------------------------------------------------------------------------
\* The transit of a frame is its delay and the offset, and the least of one is the least of
\* the other when the offset does not move.
LEMMA InvGivesExact == StatsInv => ExcessExact
<1> SUFFICES ASSUME StatsInv, foreign, frames # << >>
             PROVE  /\ Steady => queue_ms = Delay(Last) - Least({Delay(frames[i]) : i \in DOMAIN frames})
                    /\ \A i \in DOMAIN frames :
                         Delay(Last) - Delay(frames[i]) + Last.offset - frames[i].offset <= queue_ms
                    /\ \E i \in DOMAIN frames :
                         queue_ms = Delay(Last) - Delay(frames[i]) + Last.offset - frames[i].offset
  BY DEF ExcessExact
<1> DEFINE N == Len(frames)
           D(i) == Delay(frames[i])
           O(i) == frames[i].offset
<1>1. /\ frames \in Seq(Frames) /\ transit \in Seq(Int) /\ Len(transit) = N /\ N \in Nat \ {0}
      /\ DOMAIN frames = 1 .. N /\ DOMAIN transit = 1 .. N
  BY DEF StatsInv, StatsType
<1>2. \A i \in 1 .. N : D(i) \in Int /\ O(i) \in Int /\ transit[i] = D(i) + O(i)
  <2>1. ASSUME NEW i \in 1 .. N PROVE D(i) \in Int /\ O(i) \in Int /\ transit[i] = D(i) + O(i)
    <3>1. frames[i] \in Frames
      BY <1>1
    <3>2. transit[i] = Transit(frames[i])
      BY <1>1 DEF StatsInv, Follows
    <3> QED
      BY <3>1, <3>2, FrameInts DEF Transit, Delay
  <2> QED
    BY <2>1
<1>3. PICK m \in 1 .. N : \A j \in 1 .. N : transit[m] <= transit[j]
  <2>1. 1 \in 1 .. Len(transit)
    BY <1>1
  <2> QED
    BY <1>1, <2>1, Zenon DEF StatsInv, MinimaExist, Minima
<1>4. Least(Values(transit)) = transit[m]
  <2>1. /\ Values(transit) \in SUBSET Int /\ transit[m] \in Values(transit)
        /\ \A y \in Values(transit) : transit[m] <= y
    BY <1>1, <1>3 DEF Values
  <2> QED
    BY <2>1, LeastIs
<1>5. queue_ms = transit[N] - transit[m]
  BY <1>1, <1>4 DEF StatsInv, QueueIs
<1>6. Last = frames[N] /\ N \in 1 .. N
  BY <1>1 DEF Last
<1> HIDE DEF N
<1>7. \A i \in 1 .. N : D(N) - D(i) + O(N) - O(i) <= queue_ms
  <2> HIDE DEF D, O
  <2> QED
    BY <1>2, <1>3, <1>5, <1>6
<1>8. queue_ms = D(N) - D(m) + O(N) - O(m)
  <2> HIDE DEF D, O
  <2> QED
    BY <1>2, <1>3, <1>5, <1>6
<1>9. ASSUME Steady PROVE queue_ms = D(N) - Least({Delay(frames[i]) : i \in DOMAIN frames})
  <2>1. \A i, j \in 1 .. N : O(i) = O(j)
    BY <1>1, <1>9 DEF Steady
  <2>2. \A j \in 1 .. N : D(m) <= D(j)
    <3> HIDE DEF D, O
    <3> QED
      BY <1>2, <1>3, <2>1
  <2>3. queue_ms = D(N) - D(m)
    <3> HIDE DEF D, O
    <3> QED
      BY <1>2, <1>6, <1>8, <2>1
  <2>4. Least({D(i) : i \in 1 .. N}) = D(m)
    <3> HIDE DEF D
    <3>1. {D(i) : i \in 1 .. N} \in SUBSET Int /\ D(m) \in {D(i) : i \in 1 .. N}
          /\ \A y \in {D(i) : i \in 1 .. N} : D(m) <= y
      BY <1>2, <2>2
    <3> QED
      BY <3>1, LeastIs
  <2> QED
    BY <1>1, <2>3, <2>4
<1> QED
  BY <1>1, <1>6, <1>7, <1>8, <1>9

\* What observe reports is the excess of a frame's delay over the best of its window, for
\* every window, every delay and every offset, a moving one included.
THEOREM ExcessAlwaysExact == StatsSpec => []ExcessExact
<1>1. StatsInit => StatsInv
  BY InitHolds
<1>2. StatsInv /\ [StatsNext]_statsVars => StatsInv'
  BY StepHolds
<1>3. StatsInv => ExcessExact
  BY InvGivesExact
<1> QED
  BY <1>1, <1>2, <1>3, PTL DEF StatsSpec

-----------------------------------------------------------------------------
(* EstimateHonest: e2e_ms belongs to the last frame, and e2e keeps pace with *)
(* the frames.                                                               *)

E2eIs ==
  /\ e2e \in Seq(Int) /\ Len(e2e) = Len(frames)
  /\ frames # << >> => e2e_ms = IF foreign THEN Last.upstream + queue_ms + Last.mac ELSE Last.mac

EstimateInv == StatsInv /\ E2eIs

\* The least entry of a window is one of its entries.
LEMMA LeastOfWindow ==
  ASSUME NEW q \in Seq(Int), Minima(q), q # << >>
  PROVE  \E m \in 1 .. Len(q) : Least(Values(q)) = q[m]
<1>1. Len(q) \in Nat \ {0} /\ DOMAIN q = 1 .. Len(q) /\ 1 \in 1 .. Len(q)
  OBVIOUS
<1>2. PICK m \in 1 .. Len(q) : \A j \in 1 .. Len(q) : q[m] <= q[j]
  BY <1>1, Zenon DEF Minima
<1>3. /\ Values(q) \in SUBSET Int /\ q[m] \in Values(q)
      /\ \A y \in Values(q) : q[m] <= y
  BY <1>1, <1>2 DEF Values
<1> QED
  BY <1>2, <1>3, LeastIs

LEMMA EstimateInit == StatsInit => EstimateInv
<1> SUFFICES ASSUME StatsInit PROVE E2eIs
  BY InitHolds DEF EstimateInv
<1> QED
  BY DEF StatsInit, E2eIs

LEMMA EstimateStep == EstimateInv /\ [StatsNext]_statsVars => EstimateInv'
<1> SUFFICES ASSUME EstimateInv, [StatsNext]_statsVars PROVE EstimateInv'
  OBVIOUS
<1>1. StatsInv /\ StatsInv' /\ E2eIs
  BY StepHolds DEF EstimateInv
<1>2. CASE UNCHANGED statsVars
  BY <1>1, <1>2 DEF statsVars, EstimateInv, E2eIs, Last
<1>3. ASSUME NEW f \in Frames, Observe(f) PROVE E2eIs'
  <2>1. /\ frames' = Push(frames, f) /\ foreign' = foreign /\ e2e' = Push(e2e, e2e_ms')
        /\ ObserveForeign(f) \/ ObserveLocal(f)
    BY <1>3 DEF Observe
  <2>2. /\ frames \in Seq(Frames) /\ Len(frames) <= window /\ frames' \in Seq(Frames)
        /\ foreign \in BOOLEAN /\ window \in Nat /\ window > 0
        /\ e2e \in Seq(Int) /\ Len(e2e) = Len(frames)
    BY <1>1, StatsAssumption DEF StatsInv, StatsType, E2eIs
  <2>3. Pushed(frames', frames, f)
    BY <2>1, <2>2, PushIs, Zenon
  <2>4. Last' = f /\ frames' # << >>
    <3>1. frames'[Len(frames')] = f
      BY <2>3 DEF Pushed
    <3>2. Len(frames') > 0
      BY <2>2, <2>3 DEF Pushed, Evicted
    <3> QED
      BY <2>2, <3>1, <3>2 DEF Last
  <2>5. f.upstream \in Int /\ f.mac \in Int /\ Transit(f) \in Int
    BY FrameInts
  <2>6. e2e_ms' = (IF foreign' THEN f.upstream + queue_ms' + f.mac ELSE f.mac) /\ e2e_ms' \in Int
    <3>1. CASE ObserveLocal(f)
      BY <2>1, <2>5, <3>1 DEF ObserveLocal
    <3>2. CASE ObserveForeign(f)
      <4>1. foreign' /\ Len(transit') = Len(frames') /\ transit' \in Seq(Int) /\ Minima(transit')
        BY <1>1, <2>1, <3>2 DEF ObserveForeign, StatsInv, StatsType, MinimaExist
      <4>2. transit' # << >>
        BY <2>2, <2>4, <4>1
      <4>3. Least(Values(transit')) \in Int
        <5>1. PICK m \in 1 .. Len(transit') : Least(Values(transit')) = transit'[m]
          BY <4>1, <4>2, LeastOfWindow
        <5> QED
          BY <4>1, <5>1
      <4>4. queue_ms' = Transit(f) - Least(Values(transit')) /\ e2e_ms' = f.upstream + queue_ms' + f.mac
        BY <3>2 DEF ObserveForeign, Excess
      <4>5. queue_ms' \in Int
        BY <2>5, <4>3, <4>4
      <4> QED
        BY <2>5, <4>1, <4>4, <4>5
    <3> QED
      BY <2>1, <3>1, <3>2
  <2>7. e2e' \in Seq(Int) /\ Pushed(e2e', e2e, e2e_ms')
    BY <2>1, <2>2, <2>6, PushIs, Zenon
  <2>8. Len(e2e') = Len(frames')
    BY <2>2, <2>3, <2>7 DEF Pushed, Evicted
  <2> QED
    BY <2>4, <2>6, <2>7, <2>8 DEF E2eIs
<1> QED
  BY <1>1, <1>2, <1>3 DEF StatsNext, EstimateInv

\* The missing part of the estimate is the hop of the frame whose transit is the least.
LEMMA InvGivesHonest == EstimateInv => EstimateHonest
<1> SUFFICES ASSUME EstimateInv PROVE EstimateHonest
  OBVIOUS
<1>1. /\ frames \in Seq(Frames) /\ transit \in Seq(Int) /\ foreign \in BOOLEAN
      /\ (IF foreign THEN Len(transit) = Len(frames) ELSE transit = << >>)
      /\ Len(e2e) = Len(frames) /\ e2e \in Seq(Int)
      /\ frames # << >> => e2e_ms = IF foreign THEN Last.upstream + queue_ms + Last.mac ELSE Last.mac
      /\ Minima(transit) /\ Follows /\ QueueIs
  BY DEF EstimateInv, StatsInv, StatsType, E2eIs, MinimaExist
<1>2. ASSUME NEW i \in 1 .. Len(frames)
      PROVE  /\ frames[i] \in Frames /\ frames[i].upstream \in Nat /\ frames[i].hop \in Nat
             /\ frames[i].mac \in Nat /\ frames[i].offset \in Int
  <2>1. frames[i] \in Frames
    BY <1>1
  <2>2. frames[i].upstream \in Spans /\ frames[i].hop \in Spans /\ frames[i].mac \in Spans
    BY <2>1 DEF Frames
  <2> QED
    BY <2>1, <2>2, FrameInts, StatsAssumption
<1>3. ASSUME frames # << >> PROVE Len(frames) \in 1 .. Len(frames) /\ Last = frames[Len(frames)]
  BY <1>1, <1>3 DEF Last
<1>4. frames # << >> /\ ~ foreign => e2e_ms <= Real(Last)
  <2> SUFFICES ASSUME frames # << >>, ~ foreign PROVE e2e_ms <= Real(Last)
    OBVIOUS
  <2>1. Last.upstream \in Nat /\ Last.hop \in Nat /\ Last.mac \in Nat /\ e2e_ms = Last.mac
    BY <1>1, <1>2, <1>3
  <2> QED
    BY <2>1 DEF Real
<1>5. (offset_ms = None) <=> (~ foreign \/ n = 0)
  <2>1. CASE transit = << >>
    BY <1>1, <2>1 DEF offset_ms, n
  <2>2. CASE transit # << >>
    <3>1. PICK m \in 1 .. Len(transit) : Least(Values(transit)) = transit[m]
      BY <1>1, <2>2, LeastOfWindow
    <3>2. offset_ms \in Int
      BY <1>1, <2>2, <3>1 DEF offset_ms
    <3> QED
      BY <1>1, <2>2, <3>2, StatsAssumption DEF n
  <2> QED
    BY <2>1, <2>2
<1>6. ASSUME \A i, j \in DOMAIN frames : frames[i].upstream = frames[j].upstream,
             foreign, frames # << >>, Steady
      PROVE  \E i \in DOMAIN frames : Real(Last) - e2e_ms = frames[i].hop
  <2> DEFINE N == Len(frames)
  <2>1. /\ N \in Nat /\ N \in 1 .. N /\ Last = frames[N] /\ DOMAIN frames = 1 .. N
        /\ Len(transit) = N /\ transit # << >>
    BY <1>1, <1>3, <1>6
  <2>2. PICK m \in 1 .. N : Least(Values(transit)) = transit[m]
    BY <1>1, <2>1, LeastOfWindow
  <2>3. queue_ms = transit[N] - transit[m] /\ e2e_ms = Last.upstream + queue_ms + Last.mac
    BY <1>1, <1>6, <2>1, <2>2 DEF QueueIs
  <2>4. transit[N] = Transit(frames[N]) /\ transit[m] = Transit(frames[m])
    BY <1>1, <2>1, <2>2 DEF Follows
  <2>5. frames[N].upstream = frames[m].upstream /\ frames[N].offset = frames[m].offset
    BY <1>6, <2>1, <2>2 DEF Steady
  <2>6. Real(Last) - e2e_ms = frames[m].hop
    <3> HIDE DEF N
    <3>1. /\ frames[N].upstream \in Nat /\ frames[N].hop \in Nat /\ frames[N].mac \in Nat
          /\ frames[m].upstream \in Nat /\ frames[m].hop \in Nat
          /\ frames[N].offset \in Int /\ frames[m].offset \in Int
      BY <1>2, <2>1, <2>2 DEF N
    <3> QED
      <4>1. /\ transit[N] = frames[N].upstream + frames[N].hop + frames[N].offset
            /\ transit[m] = frames[m].upstream + frames[m].hop + frames[m].offset
            /\ Real(Last) = frames[N].upstream + frames[N].hop + frames[N].mac
            /\ e2e_ms = frames[N].upstream + (transit[N] - transit[m]) + frames[N].mac
        BY <2>1, <2>3, <2>4 DEF Transit, Real
      <4> QED
        BY <2>5, <3>1, <4>1
  <2> QED
    BY <2>1, <2>2, <2>6
<1> QED
  BY <1>4, <1>5, <1>6 DEF EstimateHonest, UnderstatesByHop

\* The understatement of e2e_ms is the hop of one of the window's frames while the agent takes
\* equally long for each, a camera's e2e_ms never exceeds the true span, and offset_ms is there
\* exactly if a foreign clock was read: for every window, span and offset.
THEOREM EstimateAlwaysHonest == StatsSpec => []EstimateHonest
<1>1. StatsInit => EstimateInv
  BY EstimateInit
<1>2. EstimateInv /\ [StatsNext]_statsVars => EstimateInv'
  BY EstimateStep
<1>3. EstimateInv => EstimateHonest
  BY InvGivesHonest
<1> QED
  BY <1>1, <1>2, <1>3, PTL DEF StatsSpec

-----------------------------------------------------------------------------
(* DecisionExact: rounding moves an edge by less than a pixel of the frame, *)
(* for frames and models of any shape.                                      *)

DecisionType ==
  /\ coreml \in BOOLEAN /\ hit \in BOOLEAN
  /\ roi \in (Nat \ {0}) \X (Nat \ {0}) /\ size \in (Nat \ {0}) \X (Nat \ {0})

\* What is shown has an extent and lies within the frame.
Shown == \A o \in objects : \A i \in 1 .. 2 :
  o.from[i] \in Nat /\ o.to[i] \in Nat /\ o.from[i] < o.to[i] /\ o.to[i] <= roi[i]

\* The verdict is that of the objects shown.
HitIs ==
  hit = \E o \in objects : /\ o.label \in classes
                           /\ \A i \in 1 .. 2 : IF coreml THEN CoreMLCovers(o, i) ELSE Covers(o, i)

DecisionInv == DecisionType /\ Shown /\ HitIs

\* A product grows with each of its factors.
LEMMA MulMono ==
  ASSUME NEW a \in Int, NEW b \in Int, NEW c \in Nat, a <= b
  PROVE  a * c <= b * c
<1>1. (b - a) * c >= 0
  BY SMT
<1> QED
  BY <1>1

\* Round is at most half a unit off, and exactly half only when it is even.
LEMMA RoundIs ==
  ASSUME NEW a \in Nat, NEW b \in Nat \ {0}
  PROVE  /\ Round(a, b) \in Nat
         /\ 2 * (Round(a, b) * b) - 2 * a <= b /\ 2 * a - 2 * (Round(a, b) * b) <= b
         /\ 2 * a - 2 * (Round(a, b) * b) = b => Round(a, b) % 2 = 0
<1> DEFINE q == a \div b
           m == a % b
<1>1. q \in Nat /\ m \in Nat /\ m < b /\ a = q * b + m
  BY SMT
<1>2. Round(a, b) = IF 2 * m > b \/ (2 * m = b /\ q % 2 = 1) THEN q + 1 ELSE q
  BY DEF Round
<1> HIDE DEF q, m
<1>3. (q + 1) * b = q * b + b
  BY <1>1
<1>4. q % 2 \in {0, 1} /\ (q % 2 = 1 => (q + 1) % 2 = 0)
  BY <1>1
<1> QED
  BY <1>1, <1>2, <1>3, <1>4

\* Along one axis: r pixels of the frame become s pixels of the input, p and q are the extent
\* with and without rounding, over the same denominator.  The pixel before the centre stays
\* before it and the pixel behind it stays behind it.
LEMMA EdgesKeepTheirSide ==
  ASSUME NEW r \in Nat, NEW c \in Nat, NEW s \in Nat, NEW q \in Nat, NEW den \in Nat, NEW p \in Nat,
         r > 0, den > 0, r = 2 * c \/ r = 2 * c + 1,
         p = s * den, 2 * p - 2 * q <= den, 2 * q - 2 * p <= den,
         2 * q - 2 * p = den => s % 2 = 0,
         3 * q >= r * den
  PROVE  /\ (c - 1) * p < c * q \/ c = 0
         /\ c * q < (c + 1) * p \/ c = 0
<1>1. c > 0 => (c - 1) * p < c * q
  <2> SUFFICES ASSUME c > 0 PROVE (c - 1) * p < c * q
    OBVIOUS
  <2>1. (2 * p - 2 * q) * (c - 1) <= den * (c - 1)
    BY MulMono
  <2>2. (2 * (c - 1)) * den <= r * den
    BY MulMono
  <2>3. r * den > 0
    BY SMT
  <2>4. q > 0
    BY <2>3
  <2>5. (2 * p - 2 * q) * (c - 1) = 2 * ((c - 1) * p) - 2 * ((c - 1) * q)
    BY SMT
  <2>6. (2 * (c - 1)) * den = 2 * (den * (c - 1))
    BY SMT
  <2>7. (c - 1) * q = c * q - q
    BY SMT
  <2> QED
    BY <2>1, <2>2, <2>4, <2>5, <2>6, <2>7
<1>2. ASSUME 3 * (c + 1) + 1 <= 2 * r PROVE c * q < (c + 1) * p
  <2>1. (2 * q - 2 * p) * (c + 1) <= den * (c + 1)
    BY MulMono
  <2>2. (3 * (c + 1) + 1) * den <= (2 * r) * den
    BY <1>2, MulMono
  <2>3. (2 * r) * den = 2 * (r * den)
    BY SMT
  <2>4. (3 * (c + 1) + 1) * den = 3 * (den * (c + 1)) + den
    BY SMT
  <2>5. (2 * q - 2 * p) * (c + 1) = 2 * ((c + 1) * q) - 2 * ((c + 1) * p)
    BY SMT
  <2>6. (c + 1) * q = c * q + q
    BY SMT
  <2> QED
    BY <2>1, <2>2, <2>3, <2>4, <2>5, <2>6
<1>3. CASE r = 2 /\ c = 1
  <2>1. s # 0
    BY <1>3
  <2>2. p >= den
    BY <2>1, MulMono
  <2> QED
    BY <1>1, <1>3, <2>2
<1>4. CASE r = 3 /\ c = 1
  <2>1. s # 0
    BY <1>4
  <2>2. p >= den
    BY <2>1, MulMono
  <2> QED
    BY <1>1, <1>4, <2>2
<1>5. CASE r = 4 /\ c = 2
  <2>1. s # 0
    BY <1>5
  <2>2. CASE s = 1
    <3>1. p = den /\ s % 2 = 1
      BY <2>2
    <3> QED
      BY <1>1, <1>5, <3>1
  <2>3. CASE s >= 2
    <3>1. p >= 2 * den
      BY <2>3, MulMono
    <3> QED
      BY <1>1, <1>5, <3>1
  <2> QED
    BY <2>1, <2>2, <2>3
<1>6. CASE r = 6 /\ c = 3
  <2>1. s >= 2
    <3>1. s # 0 /\ s # 1
      BY <1>6
    <3> QED
      BY <3>1
  <2>2. p >= 2 * den
    BY <2>1, MulMono
  <2> QED
    BY <1>1, <1>6, <2>2
<1>7. c = 0 \/ 3 * (c + 1) + 1 <= 2 * r \/ (r = 2 /\ c = 1) \/ (r = 3 /\ c = 1) \/ (r = 4 /\ c = 2) \/ (r = 6 /\ c = 3)
  OBVIOUS
<1> QED
  BY <1>1, <1>2, <1>3, <1>4, <1>5, <1>6, <1>7

-----------------------------------------------------------------------------
\* scale is a fraction of positive numbers.
LEMMA ScaleIs ==
  ASSUME DecisionType
  PROVE  scale.num \in Nat \ {0} /\ scale.den \in Nat \ {0}
<1>1. size[1] \in Nat \ {0} /\ size[2] \in Nat \ {0} /\ roi[1] \in Nat \ {0} /\ roi[2] \in Nat \ {0}
  BY DEF DecisionType
<1> QED
  BY <1>1 DEF scale

\* The padding cancels out of the edges, and what is left compares products.
LEMMA CoversIs ==
  ASSUME DecisionType, NEW i \in 1 .. 2, NEW o, o.from[i] \in Nat, o.to[i] \in Nat,
         NEW P, P = Scaled(i) * scale.den, NEW Q, Q = roi[i] * scale.num
  PROVE  CoreMLCovers(o, i) <=> o.from[i] * P <= Centre(i) * Q /\ Centre(i) * Q <= o.to[i] * P
<1> DEFINE r == roi[i]
           S == Scaled(i)
           num == scale.num
           den == scale.den
           f == o.from[i]
           t == o.to[i]
           c == Centre(i)
           pad == Padding(i)
<1>1. r \in Nat \ {0} /\ num \in Nat \ {0} /\ den \in Nat \ {0} /\ f \in Nat /\ t \in Nat
  BY ScaleIs DEF DecisionType
<1>2. r * num \in Nat
  BY <1>1
<1>3. S \in Nat
  BY <1>1, <1>2, RoundIs DEF Scaled
<1>4. c \in Nat
  BY <1>1 DEF Centre
<1>5. pad \in Int
  <2>1. size[i] \in Nat
    BY DEF DecisionType
  <2> QED
    BY <1>3, <2>1 DEF Padding
<1>6. CoreMLCovers(o, i) <=>
        /\ (((2 * r * pad + (f + t) * S) - (t - f) * S) - 2 * r * pad) * den <= c * 2 * r * num
        /\ c * 2 * r * num <= (((2 * r * pad + (f + t) * S) + (t - f) * S) - 2 * r * pad) * den
  <2>1. /\ Coordinates(o, i).centre = 2 * r * pad + (f + t) * S
        /\ Coordinates(o, i).extent = (t - f) * S
    BY Zenon DEF Coordinates
  <2>2. CoreMLCovers(o, i) <=>
          /\ Unscaled(Coordinates(o, i).centre - Coordinates(o, i).extent, i) <= c * 2 * r * num
          /\ c * 2 * r * num <= Unscaled(Coordinates(o, i).centre + Coordinates(o, i).extent, i)
    BY Zenon DEF CoreMLCovers
  <2>3. \A e : Unscaled(e, i) = (e - 2 * r * pad) * den
    BY Zenon DEF Unscaled
  <2> HIDE DEF r, S, num, den, f, t, c, pad
  <2>4. /\ Unscaled(Coordinates(o, i).centre - Coordinates(o, i).extent, i)
             = (((2 * r * pad + (f + t) * S) - (t - f) * S) - 2 * r * pad) * den
        /\ Unscaled(Coordinates(o, i).centre + Coordinates(o, i).extent, i)
             = (((2 * r * pad + (f + t) * S) + (t - f) * S) - 2 * r * pad) * den
    BY <2>1, <2>3, Zenon
  <2> QED
    BY <2>2, <2>4, Zenon
<1> HIDE DEF r, S, num, den, f, t, c, pad
<1>7. P = S * den /\ Q = r * num
  BY DEF S, den, r, num
<1>8. (f + t) * S - (t - f) * S = 2 * (f * S) /\ (f + t) * S + (t - f) * S = 2 * (t * S)
  BY <1>1, <1>3
<1>9. f * P = (f * S) * den /\ t * P = (t * S) * den /\ c * Q = c * r * num
  BY <1>1, <1>3, <1>4, <1>7
<1>10. /\ f * S \in Nat /\ t * S \in Nat /\ 2 * r * pad \in Int
       /\ (f + t) * S \in Int /\ (t - f) * S \in Int /\ c * r * num \in Nat
  BY <1>1, <1>3, <1>4, <1>5
<1>11. /\ ((2 * r * pad + (f + t) * S) - (t - f) * S) - 2 * r * pad = 2 * (f * S)
       /\ ((2 * r * pad + (f + t) * S) + (t - f) * S) - 2 * r * pad = 2 * (t * S)
  BY <1>8, <1>10
<1>12. /\ (2 * (f * S)) * den = 2 * ((f * S) * den) /\ (2 * (t * S)) * den = 2 * ((t * S) * den)
       /\ c * 2 * r * num = 2 * (c * r * num)
       /\ (f * S) * den \in Nat /\ (t * S) * den \in Nat
  BY <1>1, <1>4, <1>10
<1>13. CoreMLCovers(o, i) <=> f * P <= c * Q /\ c * Q <= t * P
  BY <1>6, <1>9, <1>10, <1>11, <1>12
<1> QED
  BY <1>13 DEF f, t, c

\* On one axis the verdict is right but for an edge on the centre itself.
LEMMA AxisExact ==
  ASSUME DecisionType, NEW i \in 1 .. 2, NEW o, o.from[i] \in Nat, o.to[i] \in Nat,
         o.from[i] < o.to[i], o.to[i] <= roi[i], 3 * scale.num >= scale.den
  PROVE  /\ CoreMLCovers(o, i) => Covers(o, i)
         /\ o.from[i] < Centre(i) /\ Centre(i) < o.to[i] => CoreMLCovers(o, i)
<1> DEFINE r == roi[i]
           s == Scaled(i)
           num == scale.num
           den == scale.den
           f == o.from[i]
           t == o.to[i]
           c == Centre(i)
           p == s * den
           q == r * num
<1>1. /\ r \in Nat /\ r > 0 /\ num \in Nat /\ den \in Nat /\ den > 0 /\ f \in Nat /\ t \in Nat
      /\ f < t /\ t <= r /\ 3 * num >= den
  BY ScaleIs DEF DecisionType
<1>2. c \in Nat /\ (r = 2 * c \/ r = 2 * c + 1)
  BY <1>1 DEF Centre
<1>3. q \in Nat
  BY <1>1
<1>4. /\ s \in Nat /\ 2 * p - 2 * q <= den /\ 2 * q - 2 * p <= den
      /\ 2 * q - 2 * p = den => s % 2 = 0
  <2>1. s = Round(q, den)
    BY DEF Scaled
  <2> HIDE DEF q, den, s
  <2> QED
    BY <1>1, <1>3, <2>1, RoundIs
<1>5. CoreMLCovers(o, i) <=> f * p <= c * q /\ c * q <= t * p
  BY <1>1, CoversIs
<1>6. p \in Nat
  BY <1>1, <1>4
<1>7. Covers(o, i) <=> f <= c /\ c <= t
  BY DEF Covers
<1> HIDE DEF r, num, f, t, c, q, s, den
<1>8. 3 * q >= r * den
  <2>1. den * r <= (3 * num) * r
    BY <1>1, MulMono
  <2>2. (3 * num) * r = 3 * q /\ den * r = r * den
    BY <1>1 DEF q
  <2> QED
    BY <2>1, <2>2
<1> HIDE DEF p
<1>9. ((c - 1) * p < c * q \/ c = 0) /\ (c * q < (c + 1) * p \/ c = 0)
  <2>1. p = s * den
    BY DEF p
  <2> QED
    BY <1>1, <1>2, <1>3, <1>4, <1>6, <1>8, <2>1, EdgesKeepTheirSide
<1>10. /\ f <= c - 1 => f * p <= (c - 1) * p
       /\ f >= c + 1 => (c + 1) * p <= f * p
       /\ t <= c - 1 => t * p <= (c - 1) * p
       /\ t >= c + 1 => (c + 1) * p <= t * p
  BY <1>1, <1>2, <1>6, MulMono
<1>11. c = 0 => r = 1 /\ f = 0 /\ t = 1 /\ c * q = 0 /\ f * p = 0 /\ t * p = p
  BY <1>1, <1>2, <1>3, <1>6
<1>12. /\ f * p \in Int /\ t * p \in Int /\ c * q \in Int
       /\ (c - 1) * p \in Int /\ (c + 1) * p \in Int
  BY <1>1, <1>2, <1>3, <1>6
<1>13. (f * p <= c * q /\ c * q <= t * p) => f <= c /\ c <= t
  BY <1>1, <1>2, <1>9, <1>10, <1>11, <1>12
<1>14. f < c /\ c < t => f * p <= c * q /\ c * q <= t * p
  BY <1>1, <1>2, <1>9, <1>10, <1>11, <1>12
<1> QED
  BY <1>5, <1>7, <1>13, <1>14 DEF f, t, c

-----------------------------------------------------------------------------
LEMMA DecisionInitHolds == DecisionInit => DecisionInv
<1> SUFFICES ASSUME DecisionInit PROVE DecisionInv
  OBVIOUS
<1>1. DecisionType
  BY DecisionAssumption DEF DecisionInit, DecisionType
<1>2. Shown /\ HitIs
  BY DEF DecisionInit, Shown, HitIs
<1> QED
  BY <1>1, <1>2 DEF DecisionInv

\* What the verdict of an object rests on does not move.
LEMMA CoversStays ==
  ASSUME UNCHANGED <<roi, size>>, NEW o, NEW i
  PROVE  (CoreMLCovers(o, i)' <=> CoreMLCovers(o, i)) /\ (Covers(o, i)' <=> Covers(o, i))
<1>1. roi' = roi /\ size' = size
  OBVIOUS
<1>2. scale' = scale
  BY <1>1, Zenon DEF scale
<1>3. Scaled(i)' = Scaled(i)
  BY <1>1, <1>2, Zenon DEF Scaled
<1>4. Padding(i)' = Padding(i)
  BY <1>1, <1>3, Zenon DEF Padding
<1>5. Centre(i)' = Centre(i)
  BY <1>1, Zenon DEF Centre
<1>6. Coordinates(o, i)' = Coordinates(o, i)
  BY <1>1, <1>3, <1>4, Zenon DEF Coordinates
<1>7. (CoreMLCovers(o, i)' <=> CoreMLCovers(o, i))
  BY <1>1, <1>2, <1>4, <1>5, <1>6, Zenon DEF CoreMLCovers, Unscaled
<1> QED
  BY <1>5, <1>7 DEF Covers

LEMMA DecideHolds ==
  ASSUME DecisionInv, NEW shown, Decide(shown),
         \A o \in shown : \A i \in 1 .. 2 :
           o.from[i] \in Nat /\ o.to[i] \in Nat /\ o.from[i] < o.to[i] /\ o.to[i] <= roi[i]
  PROVE  DecisionInv'
<1>1. roi' = roi /\ size' = size /\ coreml' = coreml /\ objects' = shown /\ hit' = center_is_covered
  BY DEF Decide
<1>2. DecisionType'
  BY <1>1 DEF DecisionInv, DecisionType, center_is_covered
<1>3. Shown'
  BY <1>1 DEF Shown
<1>4. HitIs'
  BY <1>1, CoversStays DEF HitIs, center_is_covered
<1> QED
  BY <1>2, <1>3, <1>4 DEF DecisionInv

LEMMA DecisionStepHolds == DecisionInv /\ [DecisionNext]_decisionVars => DecisionInv'
<1> SUFFICES ASSUME DecisionInv, [DecisionNext]_decisionVars PROVE DecisionInv'
  OBVIOUS
<1>1. CASE UNCHANGED decisionVars
  <2>1. UNCHANGED <<roi, size, coreml, objects, hit>>
    BY <1>1 DEF decisionVars
  <2>2. DecisionType' /\ Shown'
    BY <2>1 DEF DecisionInv, DecisionType, Shown
  <2>3. HitIs'
    BY <2>1, CoversStays DEF DecisionInv, HitIs
  <2> QED
    BY <2>2, <2>3 DEF DecisionInv
<1>2. CASE Decide({})
  BY <1>2, DecideHolds
<1>3. ASSUME NEW o \in Objects, Decide({o}) PROVE DecisionInv'
  <2>1. roi[1] \in Nat \ {0} /\ roi[2] \in Nat \ {0}
    BY DEF DecisionInv, DecisionType
  <2>2. \A i \in 1 .. 2 :
          o.from[i] \in Nat /\ o.to[i] \in Nat /\ o.from[i] < o.to[i] /\ o.to[i] <= roi[i]
    BY <2>1 DEF Objects
  <2> QED
    BY <1>3, <2>2, DecideHolds
<1> QED
  BY <1>1, <1>2, <1>3 DEF DecisionNext

LEMMA InvGivesDecision == DecisionInv => DecisionExact
<1> SUFFICES ASSUME DecisionInv, 3 * scale.num >= scale.den
             PROVE  /\ hit => \E o \in Wanted : Touches(o)
                    /\ (\E o \in Wanted : IF coreml THEN Inside(o) ELSE Touches(o)) => hit
  BY DEF DecisionExact
<1>1. ASSUME NEW o \in objects
      PROVE  /\ (\A i \in 1 .. 2 : CoreMLCovers(o, i)) => Touches(o)
             /\ Inside(o) => \A i \in 1 .. 2 : CoreMLCovers(o, i)
  BY AxisExact DEF DecisionInv, Shown, Touches, Inside
<1>2. hit = \E o \in objects : /\ o.label \in classes
                               /\ \A i \in 1 .. 2 : IF coreml THEN CoreMLCovers(o, i) ELSE Covers(o, i)
  BY DEF DecisionInv, HitIs
<1>3. coreml \in BOOLEAN /\ hit \in BOOLEAN
  BY DEF DecisionInv, DecisionType
<1>4. CASE coreml
  BY <1>1, <1>2, <1>3, <1>4 DEF Wanted
<1>5. CASE ~ coreml
  BY <1>2, <1>3, <1>5 DEF Wanted, Touches
<1> QED
  BY <1>3, <1>4, <1>5

\* The verdict is that of an exact letterbox but for edges on the centre pixel, for frames and
\* models of every width and height as long as the model sees every third pixel.
THEOREM DecisionAlwaysExact == DecisionSpec => []DecisionExact
<1>1. DecisionInit => DecisionInv
  BY DecisionInitHolds
<1>2. DecisionInv /\ [DecisionNext]_decisionVars => DecisionInv'
  BY DecisionStepHolds
<1>3. DecisionInv => DecisionExact
  BY InvGivesDecision
<1> QED
  BY <1>1, <1>2, <1>3, PTL DEF DecisionSpec

-----------------------------------------------------------------------------
(* The parts together *)

\* A behaviour of the run is one of all three parts, of which two rest.
LEMMA PartsRun == MacSpec => Spec /\ StatsSpec /\ DecisionSpec
<1>1. MacInit => Init /\ DecisionInit /\ StatsInit
  BY DEF MacInit
<1>2. [MacNext]_macVars => [Next]_vars /\ [StatsNext]_statsVars /\ [DecisionNext]_decisionVars
  BY DEF MacNext, macVars, OfLoop
<1> QED BY <1>1, <1>2, PTL DEF MacSpec, Spec, StatsSpec, DecisionSpec
===============================================================================
