------------------------------ MODULE MCPiParts -------------------------------
(* Three parts of the Pi's agent that PiProxy abstracts from: the keyboard reader with   *)
(* its devices, the serial sink with its port, and the process with its start and end.   *)
(* A behaviour is one of one part; the others stay as they begin.                        *)
EXTENDS Keyboard, SerialSink, PiLife

VARIABLE part

vars == <<part, kbVars, sinkVars, lifeVars>>

Init ==
  /\ part \in {"keyboard", "sink", "life"}
  /\ IF part = "keyboard" THEN KeyboardInit ELSE KeyboardInit /\ present = {}
  /\ SinkInit /\ (part # "sink" => bridge = None /\ foreign = None)
  /\ LifeInit /\ (part # "life" => kind = "serial" /\ sound /\ attached /\ wanted)

OfKeyboard(A) == part = "keyboard" /\ A /\ UNCHANGED <<part, sinkVars, lifeVars>>
OfSink(A) == part = "sink" /\ A /\ UNCHANGED <<part, kbVars, lifeVars>>
OfLife(A) == part = "life" /\ A /\ UNCHANGED <<part, kbVars, sinkVars>>

Next == OfKeyboard(KeyboardNext) \/ OfSink(SinkNext) \/ OfLife(LifeNext)

\* Keyboard: the loop scans again and again, reads what is ready, and a keyboard that stays
\* can be grabbed in the end.  Sink: the emitter runs, time passes, and a node that is there
\* opens in the end.  Process: main and the emitter run, systemd restarts what it has not
\* given up, one start or another gets its sink, and the Pro Micro's watchdog runs.
FairSpec ==
  /\ Init /\ [][Next]_vars
  /\ \A p \in Paths :
       /\ WF_vars(OfKeyboard(Read(p))) /\ WF_vars(OfKeyboard(ReadFails(p)))
       /\ SF_vars(OfKeyboard(\E S \in SUBSET Paths : p \in S /\ Scan(S)))
  /\ WF_vars(OfSink(EmitterSend)) /\ WF_vars(OfSink(SendStep("emitter")))
  /\ SF_vars(OfSink(Open("emitter") /\ ser' # None)) /\ WF_vars(OfSink(Tick))
  /\ WF_vars(OfLife(Main)) /\ SF_vars(OfLife(BuildSink))
  /\ WF_vars(OfLife(Build)) /\ WF_vars(OfLife(Send))
  /\ WF_vars(OfLife(Restart)) /\ WF_vars(OfLife(Silence))
===============================================================================
