------------------------------- MODULE Decision --------------------------------
(***************************************************************************)
(* From a frame to a verdict: mac-app/macvision/detector_coreml.py and     *)
(* detector.py around their models, rule.py, and run (loop.py).  A CoreML  *)
(* model has an input of its own size: the frame is scaled into it with    *)
(* padding, and its boxes are brought back to the pixels of the frame.     *)
(*                                                                         *)
(* The model finds what is there, edge for edge; floating point is left    *)
(* out.  Fractions are kept as numerators over a denominator that is the   *)
(* same on both sides.                                                     *)
(***************************************************************************)
EXTENDS Integers

CONSTANTS
  Sides,     \* widths and heights of a frame
  Sizes,     \* input sizes of a model, <<width, height>>
  Labels,    \* what a model can name
  classes    \* --classes

ASSUME DecisionAssumption ==
  /\ Sides \subseteq Nat \ {0} /\ Sizes \subseteq (Nat \ {0}) \X (Nat \ {0})
  /\ classes \subseteq Labels

VARIABLES
  coreml,    \* --weights names a .mlpackage
  roi, size, \* the frame, and the input of the model
  objects,   \* what the last frame shows
  hit        \* the verdict of run on it

decisionVars == <<coreml, roi, size, objects, hit>>

-----------------------------------------------------------------------------
\* Python's round of a / b: a tie goes to the even number.
Round(a, b) ==
  LET q == a \div b
      r == 2 * (a % b)
  IN  IF r > b \/ (r = b /\ q % 2 = 1) THEN q + 1 ELSE q

\* self._scale as a fraction
scale ==
  IF size[1] * roi[2] <= size[2] * roi[1] THEN [num |-> size[1], den |-> roi[1]]
                                          ELSE [num |-> size[2], den |-> roi[2]]

\* self._nw, self._nh and self._px, self._py
Scaled(i) == Round(roi[i] * scale.num, scale.den)
Padding(i) == (size[i] - Scaled(i)) \div 2

\* Where the edges of an object are in the input, as the model reports them: the centre and
\* the extent along axis i, in 2 * roi[i]-ths of a pixel of the input.
Coordinates(o, i) ==
  [centre |-> 2 * roi[i] * Padding(i) + (o.from[i] + o.to[i]) * Scaled(i),
   extent |-> (o.to[i] - o.from[i]) * Scaled(i)]

\* DecisionExact, mutated: the scale is undone before the padding.
Unscaled_First(edge, i) == edge * scale.den - 2 * roi[i] * Padding(i) * scale.num

\* An edge back in the frame, in (2 * roi[i] * scale.num)-ths of a pixel: drop the padding,
\* then the scale.
Unscaled(edge, i) == (edge - 2 * roi[i] * Padding(i)) * scale.den

\* roi_center
Centre(i) == roi[i] \div 2

-----------------------------------------------------------------------------
\* boxes_xyxy of the CoreML result, and one axis of the rule.
CoreMLCovers(o, i) ==
  LET c == Coordinates(o, i)
      point == Centre(i) * 2 * roi[i] * scale.num
  IN  Unscaled(c.centre - c.extent, i) <= point /\ point <= Unscaled(c.centre + c.extent, i)

\* boxes_xyxy of an Ultralytics result is in the frame's pixels.
Covers(o, i) == o.from[i] <= Centre(i) /\ Centre(i) <= o.to[i]

\* The class filter, wherever the backend has it, then center_is_covered.
center_is_covered ==
  \E o \in objects' : /\ o.label \in classes
                      /\ \A i \in 1 .. 2 : IF coreml THEN CoreMLCovers(o, i) ELSE Covers(o, i)

Decide(shown) ==
  /\ objects' = shown
  /\ hit' = center_is_covered
  /\ UNCHANGED <<coreml, roi, size>>

\* Objects with an extent that reach across the frame one way: the rule treats the two
\* axes alike, so one of them can be varied at a time.
Objects ==
  LET Edges(i) == {e \in (0 .. roi[i]) \X (0 .. roi[i]) : e[1] < e[2]}
      Across(i) == <<0, roi[i]>>
      Object(x, y, l) == [from |-> <<x[1], y[1]>>, to |-> <<x[2], y[2]>>, label |-> l]
  IN  {Object(x, Across(2), l) : x \in Edges(1), l \in Labels}
        \cup {Object(Across(1), y, l) : y \in Edges(2), l \in Labels}

-----------------------------------------------------------------------------
DecisionInit ==
  /\ coreml \in BOOLEAN
  /\ roi \in Sides \X Sides /\ size \in Sizes
  /\ objects = {} /\ hit = FALSE

DecisionNext == Decide({}) \/ \E o \in Objects : Decide({o})

DecisionSpec == DecisionInit /\ [][DecisionNext]_decisionVars

-----------------------------------------------------------------------------
(* Properties *)

Wanted == {o \in objects : o.label \in classes}
Touches(o) == \A i \in 1 .. 2 : Covers(o, i)
Inside(o) == \A i \in 1 .. 2 : o.from[i] < Centre(i) /\ Centre(i) < o.to[i]

\* "getting this backwards is the silent-coordinate-bug" (detector_coreml.py:218-220):
\* whatever the shapes of frame and model, rounding the letterbox moves no edge across the
\* centre pixel as long as the model sees every third pixel; an edge on the centre pixel
\* itself may count or not (rule.py:37-38 counts it, and so does the other backend).
DecisionExact ==
  3 * scale.num >= scale.den =>
    /\ hit => \E o \in Wanted : Touches(o)
    /\ (\E o \in Wanted : IF coreml THEN Inside(o) ELSE Touches(o)) => hit
===============================================================================
