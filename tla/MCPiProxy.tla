------------------------------ MODULE MCPiProxy --------------------------------
(* Instances of PiProxy for TLC, and its refinement of FarEnd. *)
EXTENDS PiProxy

\* The Pi, like the ESP32, is a far end of the trigger link: whatever the watchdog, the
\* receiver and the HTTP handlers do to each other, only an update presses the trigger key
\* and silence releases it (sinks.py:332-370, TRIGGER.md:58-60), until the shutdown stops
\* the watchdog.  An update counts as heard when it is applied; feed comes after.
Supervised == "watchdog" \notin stopped /\ mainPc # "exited"
ProxyEnd == INSTANCE FarEnd WITH
  Limit <- Timeout + 1,
  key <- trigger # {} /\ Supervised,
  age <- IF \E a \in Appliers : applyPc[a] = "feed" THEN 0
         ELSE IF age = Never THEN Timeout + 2 ELSE age
ProxyEndSpec == ProxyEnd!Spec
===============================================================================
