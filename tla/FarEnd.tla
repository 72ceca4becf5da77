-------------------------------- MODULE FarEnd ---------------------------------
(***************************************************************************)
(* What whoever ends the trigger link promises, whichever board it is      *)
(* (docs/TRIGGER.md, "Watchdog"): the key goes down only because the Mac   *)
(* was heard, and it does not outlive the Mac's silence by more than       *)
(* Limit.  age is the time since the Mac was heard; it means nothing while *)
(* the key is up.                                                          *)
(***************************************************************************)
EXTENDS Naturals

CONSTANT Limit

VARIABLES key, age

vars == <<key, age>>

Hear == key' \in BOOLEAN /\ age' = 0

Release == key' = FALSE /\ age' \in 0 .. Limit + 1

Hold == key /\ key' = TRUE /\ age < Limit /\ age' = age + 1

Init == key = FALSE /\ age \in 0 .. Limit + 1

Next == Hear \/ Release \/ Hold

Spec == Init /\ [][Next]_vars
===============================================================================
