------------------------------- MODULE KeyState -------------------------------
(***************************************************************************)
(* pi-agent/piproxy/report.py: the merge of the physical keyboard and the  *)
(* vision trigger into one boot-keyboard report.                           *)
(*                                                                         *)
(* Every method of the class holds its one lock for the whole body (build  *)
(* copies what it needs under the lock and works on the copies), so each   *)
(* method is one atomic action here.  Usages are abstract values: nothing  *)
(* in the merge depends on their numbers.  The modifier byte is the set of *)
(* bits that are up in it; the padding with zero slots is left out.        *)
(***************************************************************************)
EXTENDS Naturals, FiniteSets, SequencesExt

CONSTANTS
  Usages,        \* usages the keyboard (or POST /key) can press
  TriggerUsage,  \* the one usage the vision trigger presses (--trigger-key)
  ModifierBits,  \* the bits of the modifier byte
  MAX_KEYS,      \* key slots in a boot report; 6 in the code
  MaxOrder       \* bound of the model on the length of order

ASSUME SlotsAssumption == MAX_KEYS \in Nat \ {0}

VARIABLES
  physical,   \* _physical: usages held on the real keyboard
  modifiers,  \* _modifiers
  trigger,    \* _trigger: usages held by the vision trigger
  order       \* _order: insertion order, which assigns the slots

keyVars == <<physical, modifiers, trigger, order>>

AllUsages == Usages \cup {TriggerUsage}

\* Every caller passes set_trigger either [trigger_usage] or [].
TriggerSets == {{}, {TriggerUsage}}

held == physical \cup trigger

-----------------------------------------------------------------------------
(* Pure helpers *)

\* [u for u in s if u in S].  A recursive function, so that it can be proved about.
Ordered(s, S) ==
  LET kept[n \in 0 .. Len(s)] ==
        IF n = 0 THEN << >>
        ELSE IF s[n] \in S THEN Append(kept[n - 1], s[n]) ELSE kept[n - 1]
  IN kept[Len(s)]

Take(s, n) == IF Len(s) <= n THEN s ELSE SubSeq(s, 1, n)

\* Mutation: a trigger key that does not fit is cut off like any other.
\* Breaks TriggerNeverLost.
Slots_NoEviction(ordered, trig) == Take(ordered, MAX_KEYS)

\* The key slots of a report: the first MAX_KEYS held entries of order, then a
\* trigger key that did not fit overwrites slots from the last one backwards.
Slots(ordered, trig) ==
  LET keys    == Take(ordered, MAX_KEYS)
      missing == Ordered(ordered, trig \ ToSet(keys))
      Evicted(i) == MAX_KEYS + 1 - i
  IN [i \in DOMAIN keys |->
        IF Evicted(i) <= Len(missing) THEN missing[Evicted(i)] ELSE keys[i]]

build == [modifiers |-> modifiers, keys |-> Slots(Ordered(order, held), trigger)]

reported == ToSet(build.keys)

-----------------------------------------------------------------------------
(* Mutations of the methods: each breaks the properties named with it. *)

\* HeldInOrder: the lost keyboard takes the trigger's entry with it.
clear_physical_All ==
  /\ physical' = {}
  /\ modifiers' = {}
  /\ order' = << >>
  /\ UNCHANGED trigger

\* MergeSpec: the trigger is appended to order on every update, active or not.
set_trigger_Reappends(new) ==
  /\ trigger' = new
  /\ order' = IF new # {} THEN Append(order, TriggerUsage) ELSE order
  /\ Len(order') <= MaxOrder
  /\ UNCHANGED <<physical, modifiers>>

-----------------------------------------------------------------------------
(* The methods *)

press_physical(u) ==
  /\ IF u \in physical
     THEN UNCHANGED <<physical, order>>
     ELSE /\ Len(order) < MaxOrder
          /\ physical' = physical \cup {u}
          /\ order' = Append(order, u)
  /\ UNCHANGED <<modifiers, trigger>>

release_physical(u) ==
  /\ physical' = physical \ {u}
  /\ order' = IF u \in trigger THEN order ELSE RemoveFirst(order, u)
  /\ UNCHANGED <<modifiers, trigger>>

set_modifier_bit(bit, down) ==
  /\ modifiers' = IF down THEN modifiers \cup {bit} ELSE modifiers \ {bit}
  /\ UNCHANGED <<physical, trigger, order>>

clear_physical ==
  /\ physical' = {}
  /\ modifiers' = {}
  /\ order' = Ordered(order, trigger)
  /\ UNCHANGED trigger

\* The loops over new - _trigger and _trigger - new meet at most TriggerUsage.
set_trigger(new) ==
  /\ trigger' = new
  /\ order' = IF new = trigger \/ TriggerUsage \in physical THEN order
              ELSE IF new # {} THEN Append(order, TriggerUsage)
              ELSE RemoveFirst(order, TriggerUsage)
  /\ Len(order') <= MaxOrder
  /\ UNCHANGED <<physical, modifiers>>

-----------------------------------------------------------------------------
KeyInit ==
  /\ physical = {}
  /\ modifiers = {}
  /\ trigger = {}
  /\ order = << >>

Next ==
  \/ \E u \in Usages : press_physical(u)
  \/ \E u \in Usages : release_physical(u)
  \/ \E bit \in ModifierBits, down \in BOOLEAN : set_modifier_bit(bit, down)
  \/ clear_physical
  \/ \E new \in TriggerSets : set_trigger(new)

Spec == KeyInit /\ [][Next]_keyVars

-----------------------------------------------------------------------------
(* Properties *)

\* The state has the types __init__ gives it; order only ever names known usages.
TypeOK ==
  /\ physical \subseteq Usages
  /\ modifiers \subseteq ModifierBits
  /\ trigger \in TriggerSets
  /\ order \in Seq(AllUsages)

\* Whatever is held has an entry in order, although order is maintained by four
\* methods that each look at only one of the two sources (report.py:48-102).
HeldInOrder == held \subseteq ToSet(order)

\* A report never holds a key down that neither source holds (report.py:12-13),
\* even though order may keep entries of keys that were released.
ReportedAreHeld == reported \subseteq held

\* The trigger key is in the report whenever the trigger is active, however many
\* physical keys compete for the slots (report.py:20-23 and 109-119).
TriggerNeverLost == trigger \subseteq reported

\* "A key is down in the emitted report if either source holds it" (report.py:12-13):
\* exact as long as the held keys fit the report.
MergeExact == Cardinality(held) <= MAX_KEYS => reported = held
===============================================================================
