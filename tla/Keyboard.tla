------------------------------- MODULE Keyboard -------------------------------
(***************************************************************************)
(* pi-agent/piproxy/keyboard.py, class KeyboardReader: grabs the keyboards *)
(* that are present, mirrors their key events into KeyState and notices    *)
(* when one goes away.  KeyState's physical half is a set of keys here.    *)
(* POST /key writes it too (api.py): here nobody types through the API     *)
(* beside the keyboards.  Codes without a HID usage are left out: _handle  *)
(* ignores them.                                                           *)
(***************************************************************************)
EXTENDS Naturals, Sequences

CONSTANTS
  Paths,       \* /dev/input/event* nodes of keyboards
  Keys,
  BUFFER       \* key events the kernel keeps for a handle

ASSUME KeyboardAssumption == BUFFER \in Nat \ {0}

VARIABLES
  present,   \* nodes that exist
  devices,   \* self.devices
  live,      \* those of them whose handle still reads
  events,    \* events of each node's handle not read yet
  down,      \* keys held on each keyboard since it was opened
  physical,  \* what KeyState was told
  heldBy,    \* of these, the keys that the events of each keyboard put there (history)
  lingering, \* those from a keyboard that was dropped while another stayed (history)
  missed,    \* keys of which the kernel forgot a change, until the next is read (history)
  kbStopped  \* stop() has returned

traces == <<heldBy, lingering, missed>>
kbVars == <<present, devices, live, events, down, physical, traces, kbStopped>>

Values == {"down", "up", "repeat"}
Event == [key : Keys, value : Values]

\* q changes key k, and the last change of it is v.
Changes(q, k) == \E i \in DOMAIN q : q[i].key = k /\ q[i].value # "repeat"
Settles(q, k, v) == \E i \in DOMAIN q :
  /\ q[i].key = k /\ q[i].value = v
  /\ \A j \in DOMAIN q : j > i /\ q[j].key = k => q[j].value = "repeat"

-----------------------------------------------------------------------------
(* Mutations: each breaks the property named with it. *)

\* Mirrors: the check for auto-repeat is gone, and what is not a press is a release.
handle_RepeatReleases(held, e) ==
  IF e.value = "down" THEN held \cup {e.key} ELSE held \ {e.key}

\* Attaches: a keyboard that was lost once is never looked for again.
Scan_FirstOnly(S) ==
  /\ ~ kbStopped /\ S # {} /\ S \subseteq present \ devices /\ devices = {}
  /\ devices' = devices \cup S /\ live' = live \cup S
  /\ events' = [p \in Paths |-> IF p \in S THEN << >> ELSE events[p]]
  /\ down' = [p \in Paths |-> IF p \in S THEN {} ELSE down[p]]
  /\ UNCHANGED <<present, physical, traces, kbStopped>>

-----------------------------------------------------------------------------
(* The reader *)

\* _handle
handle(held, e) ==
  CASE e.value = "down" -> held \cup {e.key}
    [] e.value = "up" -> held \ {e.key}
    [] e.value = "repeat" -> held

Candidates == present

\* The scan opens and grabs what is there; any of it may refuse (EBUSY, EACCES).
Scan(S) ==
  /\ ~ kbStopped /\ S # {} /\ S \subseteq Candidates \ devices
  /\ devices' = devices \cup S /\ live' = live \cup S
  /\ events' = [p \in Paths |-> IF p \in S THEN << >> ELSE events[p]]
  /\ down' = [p \in Paths |-> IF p \in S THEN {} ELSE down[p]]
  /\ UNCHANGED <<present, physical, traces, kbStopped>>

Read(p) ==
  /\ ~ kbStopped /\ p \in live /\ events[p] # << >>
  /\ LET e == Head(events[p])
         told == IF e.value = "repeat" THEN {} ELSE {e.key}
     IN  /\ physical' = handle(physical, e)
         /\ heldBy' = [q \in Paths |->
              (heldBy[q] \ told) \cup (IF q = p /\ e.value = "down" THEN told ELSE {})]
         /\ lingering' = lingering \ told /\ missed' = missed \ told
  /\ events' = [events EXCEPT ![p] = Tail(@)]
  /\ UNCHANGED <<present, devices, live, down, kbStopped>>

\* _drop
drop(p) ==
  /\ devices' = devices \ {p}
  /\ events' = [events EXCEPT ![p] = << >>]
  /\ physical' = IF devices' = {} THEN {} ELSE physical
  /\ heldBy' = [heldBy EXCEPT ![p] = {}]
  /\ lingering' = IF devices' = {} THEN {} ELSE lingering \cup heldBy[p]
  /\ missed' = IF devices' = {} THEN {} ELSE missed

\* A read error, also when the node has come back in the meantime.
ReadFails(p) ==
  /\ ~ kbStopped /\ p \in devices \ live
  /\ drop(p)
  /\ UNCHANGED <<present, live, down, kbStopped>>

\* stop(): the thread ends within one select, then every device is given back.
KeyboardStop ==
  /\ ~ kbStopped
  /\ kbStopped' = TRUE
  /\ devices' = {} /\ live' = {}
  /\ events' = [p \in Paths |-> << >>]
  /\ UNCHANGED <<present, down, physical, traces>>

-----------------------------------------------------------------------------
(* The keyboards *)

\* When its buffer is full the kernel forgets what was unread and goes on with the new
\* event; the reader passes over the SYN_DROPPED that tells it so.
Emit(p, e, held) ==
  /\ p \in live
  /\ LET full == Len(events[p]) = BUFFER
     IN  /\ events' = [events EXCEPT ![p] = IF full THEN <<e>> ELSE Append(@, e)]
         /\ missed' = missed \cup {k \in Keys : full /\ Changes(events[p], k)}
  /\ down' = [down EXCEPT ![p] = held]
  /\ UNCHANGED <<present, devices, live, physical, heldBy, lingering, kbStopped>>

\* A key is used on one keyboard at a time.
Unused(p, k) ==
  \A q \in live \ {p} : k \notin down[q] /\ \A i \in DOMAIN events[q] : events[q][i].key # k

Press(p, k) == Unused(p, k) /\ k \notin down[p] /\ Emit(p, [key |-> k, value |-> "down"], down[p] \cup {k})
Repeat(p, k) == k \in down[p] /\ Emit(p, [key |-> k, value |-> "repeat"], down[p])

\* Also of a key that was already down when the keyboard was opened.
Release(p, k) == Unused(p, k) /\ Emit(p, [key |-> k, value |-> "up"], down[p] \ {k})

\* The handle reads ENODEV from now on; what was not read is gone.
Unplug(p) ==
  /\ p \in present
  /\ present' = present \ {p} /\ live' = live \ {p}
  /\ down' = [down EXCEPT ![p] = {}]
  /\ UNCHANGED <<devices, events, physical, traces, kbStopped>>

Plug(p) ==
  /\ p \notin present
  /\ present' = present \cup {p}
  /\ UNCHANGED <<devices, live, events, down, physical, traces, kbStopped>>

-----------------------------------------------------------------------------
KeyboardInit ==
  /\ present \in SUBSET Paths
  /\ devices = {} /\ live = {}
  /\ events = [p \in Paths |-> << >>] /\ down = [p \in Paths |-> {}]
  /\ physical = {} /\ heldBy = [p \in Paths |-> {}] /\ lingering = {} /\ missed = {}
  /\ kbStopped = FALSE

KeyboardNext ==
  \/ \E S \in SUBSET Paths : Scan(S)
  \/ \E p \in Paths : Read(p) \/ ReadFails(p) \/ Unplug(p) \/ Plug(p)
  \/ \E p \in Paths, k \in Keys : Press(p, k) \/ Repeat(p, k) \/ Release(p, k)
  \/ KeyboardStop

KeyboardSpec == KeyboardInit /\ [][KeyboardNext]_kbVars

-----------------------------------------------------------------------------
(* Properties *)

\* The keys held on the keyboards that are grabbed, and those of which a change is unread.
Held == UNION {down[p] : p \in devices}
Unread == {k \in Keys : \E p \in devices : Changes(events[p], k)}

\* "Grabs one or more keyboards and mirrors their key state" (keyboard.py:77): once the
\* unread events are applied, KeyState holds the keys that are held on the keyboards that
\* are there, and no other.  Left out, key by key and until the next press or release of it
\* is read, are the keys that KeyState has from a keyboard that was dropped while another
\* stayed (NoKeyOutlives), and those of which the kernel forgot a change.
Mirrors ==
  ~ kbStopped /\ devices = live =>
    LET told == {k \in Keys : IF k \in Unread THEN \E p \in devices : Settles(events[p], k, "down")
                                            ELSE k \in physical \ lingering}
    IN  \A k \in Keys \ (missed \ Unread) : k \in told <=> k \in Held

\* "drop every physical key first (so nothing stays held on the PC by a keyboard that is no
\* longer there)" (keyboard.py:11-12), "Releasing here is what stops a key surviving its own
\* device" (136): with everything read, KeyState holds no key that is held on no keyboard.
\* The code does so only when the keyboard that went away was the last one (137).
NoKeyOutlives ==
  ~ kbStopped /\ devices = live /\ (\A p \in devices : events[p] = << >>) =>
    physical \subseteq Held \cup missed

\* A keyboard that is there, or is there again, is read again (keyboard.py:172-185).
Attaches == \A p \in Paths : <>[](p \in present /\ ~ kbStopped) => <>[](p \in live)
===============================================================================
