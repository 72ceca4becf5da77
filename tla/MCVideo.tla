-------------------------------- MODULE MCVideo --------------------------------
(* macvision with the source that --source chose (sources/__init__.py, build_source): *)
(* the other one is never opened and stays as it is.                                  *)
EXTENDS VideoLink, Camera

VARIABLE source

vars == <<source, videoVars, cameraVars>>

Init ==
  /\ source \in {"udp", "camera"} /\ VideoInit /\ CameraInit
  /\ format = "B8G8R8A8" /\ pc = (IF source = "udp" THEN "head" ELSE "exited")

OfUdp(A) == source = "udp" /\ A /\ UNCHANGED <<source, cameraVars>>
OfCamera(A) == source = "camera" /\ A /\ UNCHANGED <<source, videoVars>>

Next == OfUdp(VideoNext) \/ OfCamera(CameraNext)

\* The agent's process and the frame loop run; nobody has to touch the screen, the desktop
\* or Ctrl-C.  The camera's two threads run and time passes; a read fails as often as it
\* likes, but it ends, and not every reopen raises.
FairSpec ==
  /\ Init /\ [][Next]_vars
  /\ WF_vars(OfUdp(Agent)) /\ WF_vars(OfUdp(Receive)) /\ WF_vars(OfUdp(Overtaken))
  /\ WF_vars(OfCamera(Reader)) /\ SF_vars(OfCamera(Reopen))
  /\ WF_vars(OfCamera(Recv)) /\ WF_vars(OfCamera(Tick))
===============================================================================
