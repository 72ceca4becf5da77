----------------------------- MODULE LatencyStats ------------------------------
(***************************************************************************)
(* mac-app/macvision/stats.py, LatencyStats, as run calls it (loop.py):    *)
(* transit is the difference of two machines' clocks, and the smallest one *)
(* in a rolling window is taken for the clock offset plus the best hop.    *)
(*                                                                         *)
(* The true spans of a frame are kept beside what the code can see of them:*)
(* upstream is capture to send on Windows, hop is send to recv, mac is     *)
(* recv to drawn.  The Windows clock slews between frames.                 *)
(***************************************************************************)
EXTENDS Integers, Sequences

CONSTANTS
  window,   \* --stats-window
  Spans,    \* what a part of the way may take, in ms
  Offsets,  \* what the clocks may differ by, in ms
  None

ASSUME StatsAssumption ==
  /\ window \in Nat \ {0}
  /\ Spans \subseteq Nat /\ Offsets \subseteq Int /\ None \notin Int

VARIABLES
  foreign,             \* the frames come from another machine, not from a camera
  frames,              \* the frames of the window as they really were
  transit, e2e,        \* LatencyStats._transit, ._e2e
  queue_ms, e2e_ms     \* what observe returned last

statsVars == <<foreign, frames, transit, e2e, queue_ms, e2e_ms>>

Frames == [upstream : Spans, hop : Spans, mac : Spans, offset : Offsets]

Least(S) == CHOOSE x \in S : \A y \in S : x <= y
Values(q) == {q[i] : i \in DOMAIN q}

\* What the clocks of the two machines say of a frame's way from the screen to recv.
Transit(f) == f.upstream + f.hop + f.offset

-----------------------------------------------------------------------------
(* Mutations: each breaks the property named with it. *)

\* ExcessExact: the minimum is taken over the frames before this one.
Excess_Before(q, x) ==
  x - Least(Values(IF Len(q) > 1 THEN SubSeq(q, 1, Len(q) - 1) ELSE q))

\* EstimateHonest: the difference of the clocks is taken at face value.
ObserveForeign_Raw(f) ==
  /\ foreign
  /\ transit' = IF Len(transit) < window THEN Append(transit, Transit(f)) ELSE Append(Tail(transit), Transit(f))
  /\ queue_ms' = Transit(f) - Least(Values(transit'))
  /\ e2e_ms' = Transit(f) + f.mac

-----------------------------------------------------------------------------
\* deque(maxlen=window).append
Push(q, x) == IF Len(q) < window THEN Append(q, x) ELSE Append(Tail(q), x)

\* transit_ms - min(self._transit), after the append
Excess(q, x) == x - Least(Values(q))

\* A source that measures transit and upstream.
ObserveForeign(f) ==
  /\ foreign
  /\ transit' = Push(transit, Transit(f))
  /\ queue_ms' = Excess(transit', Transit(f))
  /\ e2e_ms' = f.upstream + queue_ms' + f.mac

\* A camera: both are None.
ObserveLocal(f) ==
  /\ ~ foreign
  /\ queue_ms' = None /\ e2e_ms' = f.mac
  /\ UNCHANGED transit

Observe(f) ==
  /\ ObserveForeign(f) \/ ObserveLocal(f)
  /\ e2e' = Push(e2e, e2e_ms')
  /\ frames' = Push(frames, f)
  /\ UNCHANGED foreign

\* What status tells of the window: None where nothing was measured.
n == Len(e2e)
offset_ms == IF transit = << >> THEN None ELSE Least(Values(transit))

-----------------------------------------------------------------------------
StatsInit ==
  /\ foreign \in BOOLEAN
  /\ frames = << >> /\ transit = << >> /\ e2e = << >>
  /\ queue_ms = None /\ e2e_ms = None

StatsNext == \E f \in Frames : Observe(f)

StatsSpec == StatsInit /\ [][StatsNext]_statsVars

-----------------------------------------------------------------------------
(* Properties *)

Last == frames[Len(frames)]
Delay(f) == f.upstream + f.hop
Real(f) == f.upstream + f.hop + f.mac

\* The clocks' offset did not move while the window was filled.
Steady == \A i, j \in DOMAIN frames : frames[i].offset = frames[j].offset

\* "exact, and immune to any offset" (stats.py:11): the excess that observe reports is the
\* delay of the frame beyond the best one of the window, whatever the clocks differ by, and a
\* clock that slews moves it by no more than the offset moved within the window.
ExcessExact ==
  foreign /\ frames # << >> =>
    LET off(i) == frames[i].offset
        over(i) == Delay(Last) - Delay(frames[i])
    IN  /\ Steady => queue_ms = Delay(Last) - Least({Delay(frames[i]) : i \in DOMAIN frames})
        /\ \A i \in DOMAIN frames : over(i) + Last.offset - off(i) <= queue_ms
        /\ \E i \in DOMAIN frames : queue_ms = over(i) + Last.offset - off(i)

\* "It understates true glass-to-glass by exactly the irreducible one-way network hop"
\* (docs/PROTOCOL.md, e2e; stats.py:66-68): the hop of one of the window's frames.
UnderstatesByHop ==
  foreign /\ frames # << >> /\ Steady =>
    \E i \in DOMAIN frames : Real(Last) - e2e_ms = frames[i].hop

\* What is left of it: so it is while the agent takes equally long for every frame, a camera's
\* e2e is a lower bound, and offset_ms is there exactly if a foreign clock was read.
EstimateHonest ==
  /\ frames # << >> /\ ~ foreign => e2e_ms <= Real(Last)
  /\ (\A i, j \in DOMAIN frames : frames[i].upstream = frames[j].upstream) => UnderstatesByHop
  /\ (offset_ms = None) <=> (~ foreign \/ n = 0)
===============================================================================
