---------------------------- MODULE MCTriggerLink ------------------------------
(* Instances of TriggerLink for TLC, and its refinement of FarEnd. *)
EXTENDS TriggerLink

\* The wire is what FarEnd promises of a key, step by step: nothing but a byte that was
\* heard raises it, and it does not outlive the silence (esp32-link.ino:38-62).
LinkEnd == INSTANCE FarEnd WITH
  Limit <- WATCHDOG + 1, key <- pin,
  age <- IF silent > WATCHDOG + 2 THEN WATCHDOG + 2 ELSE silent
LinkSpec == LinkEnd!Spec
===============================================================================
