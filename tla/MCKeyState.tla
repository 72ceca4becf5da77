------------------------------ MODULE MCKeyState ------------------------------
(* Instances of KeyState for TLC, and its refinement of KeyMerge. *)
EXTENDS KeyState

\* The report KeyState builds keeps the promise of the abstract merge, step by step.
Merge == INSTANCE KeyMerge WITH Keys <- AllUsages, down <- reported
MergeSpec == Merge!Spec
===============================================================================
