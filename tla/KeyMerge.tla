------------------------------- MODULE KeyMerge -------------------------------
(***************************************************************************)
(* What a merge of two key sources into a report of MAX_KEYS slots has to  *)
(* promise, whatever bookkeeping it uses (the module docstring and the     *)
(* comments of pi-agent/piproxy/report.py).  down is the set of keys the   *)
(* host is told are held.                                                  *)
(***************************************************************************)
EXTENDS Naturals, FiniteSets

CONSTANTS Keys, MAX_KEYS

VARIABLES physical, trigger, down

vars == <<physical, trigger, down>>

\* Nothing is invented, the trigger always gets through, and as long as everything
\* fits, everything is down.
Faithful(phys, trig, rep) ==
  /\ rep \subseteq phys \cup trig
  /\ trig \subseteq rep
  /\ Cardinality(phys \cup trig) <= MAX_KEYS => rep = phys \cup trig

\* A key that is down and stays held stays down: only a trigger key that was not
\* there before may take a slot away from a held key.
NoFlicker ==
  trigger' \subseteq trigger =>
    down \cap (physical' \cup trigger') \subseteq down'

Init ==
  /\ physical \subseteq Keys
  /\ trigger \subseteq Keys
  /\ down \subseteq Keys
  /\ Faithful(physical, trigger, down)

Next ==
  /\ physical' \subseteq Keys
  /\ trigger' \subseteq Keys
  /\ Faithful(physical', trigger', down')
  /\ NoFlicker

Spec == Init /\ [][Next]_vars
===============================================================================
