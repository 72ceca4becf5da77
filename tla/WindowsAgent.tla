----------------------------- MODULE WindowsAgent ------------------------------
(***************************************************************************)
(* windows-agent/src: RunNetworkedLoop (main.cpp) around                   *)
(* DesktopCapture::AcquireFrame (capture.cpp) and EncodeFrameToJpeg.  The  *)
(* agent sends a frame when the desktop changes and nothing while it       *)
(* rests; a desktop switch or a change of the pixel format takes its       *)
(* duplication away.  Where its datagrams go is VideoLink's business.      *)
(*                                                                         *)
(* The content of the screen is a version number.  DXGI is external: a     *)
(* new duplication has a frame at once, and DuplicateOutput fails while    *)
(* the desktop on the screen is not the user's.                            *)
(***************************************************************************)
EXTENDS Integers

CONSTANTS
  MaxVersion,   \* bound of the model on changes of the screen
  MaxSwitches,  \* bound of the model on desktop switches and format changes
  Big,          \* versions whose JPEG does not fit in a datagram
  Formats       \* the pixel formats of the surfaces

Supported == {"B8G8R8A8", "R16G16B16A16"}

ASSUME AgentAssumption ==
  /\ {MaxVersion, MaxSwitches} \subseteq Nat
  /\ Big \subseteq 0 .. MaxVersion
  /\ Formats \cap Supported # {}

VARIABLES
  screen, desktop, format, switches,   \* version, "user" or "secure", surface format
  dup, waiting, cursor,                  \* m_duplication valid; what it has to hand over
  pc,                                  \* "head", "acquire", "crop", "encode", "send", "exited"
  frame, frameFormat,                  \* the acquired frame
  staging, m_format,                   \* format of m_stagingTex or "none"; m_format
  mapped,                              \* the staging texture is mapped
  sequence,                            \* of the next datagram
  g_stopRequested, code                \* code: the exit code

NoFrame == MaxVersion + 1

world == <<screen, desktop, format, switches>>
dxgi == <<dup, waiting, cursor>>
texture == <<frame, frameFormat, staging, m_format, mapped>>
process == <<pc, texture, sequence, g_stopRequested, code>>
agentVars == <<world, dxgi, process>>

Throw == pc' = "exited" /\ code' = 1

-----------------------------------------------------------------------------
(* Mutations: each breaks the property named with it. *)

\* FormatMatches: the staging texture is built once.
Crop_Once ==
  /\ pc = "crop" /\ frameFormat \in Supported
  /\ IF staging = "none" THEN staging' = frameFormat /\ m_format' = frameFormat
     ELSE UNCHANGED <<staging, m_format>>
  /\ mapped' = TRUE /\ pc' = "encode"
  /\ UNCHANGED <<world, dxgi, frame, frameFormat, sequence, g_stopRequested, code>>

\* HoldIsRight: an image change that came with a cursor move is taken for one.
AcquireFrame_Cursor ==
  /\ pc = "acquire" /\ dup /\ waiting /\ ~ cursor
  /\ frame' = screen /\ frameFormat' = format
  /\ waiting' = FALSE /\ cursor' = FALSE
  /\ pc' = "crop"
  /\ UNCHANGED <<world, dup, staging, m_format, mapped, sequence, g_stopRequested, code>>

-----------------------------------------------------------------------------
(* The desktop and Windows *)

Change ==
  /\ screen < MaxVersion
  /\ screen' = screen + 1
  /\ waiting' = (dup \/ waiting)
  /\ UNCHANGED <<desktop, format, switches, dup, cursor, pc, texture, sequence, g_stopRequested, code>>

MoveCursor ==
  /\ dup /\ ~ cursor
  /\ cursor' = TRUE
  /\ UNCHANGED <<world, dup, waiting, pc, texture, sequence, g_stopRequested, code>>

\* The duplication is lost together with whatever it had to hand over.
Lose == dup' = FALSE /\ waiting' = FALSE /\ cursor' = FALSE

\* Lock screen or UAC prompt, and back.
SwitchDesktop ==
  /\ switches < MaxSwitches \/ desktop = "secure"
  /\ desktop' \in IF desktop = "user" THEN {"user", "secure"} ELSE {"user"}
  /\ switches' = IF switches < MaxSwitches THEN switches + 1 ELSE switches
  /\ Lose
  /\ UNCHANGED <<screen, format, pc, texture, sequence, g_stopRequested, code>>

\* HDR on or off.
SwitchFormat ==
  /\ switches < MaxSwitches
  /\ switches' = switches + 1
  /\ format' \in Formats
  /\ Lose
  /\ UNCHANGED <<screen, desktop, pc, texture, sequence, g_stopRequested, code>>

OnSigInt ==
  /\ ~ g_stopRequested
  /\ g_stopRequested' = TRUE
  /\ UNCHANGED <<world, dxgi, pc, texture, sequence, code>>

-----------------------------------------------------------------------------
(* AcquireFrame *)

LoopHead ==
  /\ pc = "head"
  /\ pc' = IF g_stopRequested THEN "exited" ELSE "acquire"
  /\ UNCHANGED <<world, dxgi, texture, sequence, g_stopRequested, code>>

AcquireTimeout ==
  /\ pc = "acquire" /\ dup /\ ~ waiting /\ ~ cursor
  /\ pc' = "head"
  /\ UNCHANGED <<world, dxgi, texture, sequence, g_stopRequested, code>>

\* ACCESS_LOST: CreateDuplication, which throws when DuplicateOutput fails.
AcquireLost ==
  /\ pc = "acquire" /\ ~ dup
  /\ IF desktop = "user"
       THEN dup' = TRUE /\ waiting' = TRUE /\ pc' = "head" /\ UNCHANGED <<cursor, code>>
       ELSE Throw /\ UNCHANGED dxgi
  /\ UNCHANGED <<world, texture, sequence, g_stopRequested>>

\* LastPresentTime is 0.
AcquireCursor ==
  /\ pc = "acquire" /\ dup /\ ~ waiting /\ cursor
  /\ cursor' = FALSE
  /\ pc' = "head"
  /\ UNCHANGED <<world, dup, waiting, texture, sequence, g_stopRequested, code>>

AcquireFrame ==
  /\ pc = "acquire" /\ dup /\ waiting
  /\ frame' = screen /\ frameFormat' = format
  /\ waiting' = FALSE /\ cursor' = FALSE
  /\ pc' = "crop"
  /\ UNCHANGED <<world, dup, staging, m_format, mapped, sequence, g_stopRequested, code>>

\* CreateStagingTexture when the format is new, the copy, ReleaseFrame and Map.
Crop ==
  /\ pc = "crop" /\ frameFormat \in Supported
  /\ IF staging = "none" \/ frameFormat # m_format
       THEN staging' = frameFormat /\ m_format' = frameFormat
       ELSE UNCHANGED <<staging, m_format>>
  /\ mapped' = TRUE /\ pc' = "encode"
  /\ UNCHANGED <<world, dxgi, frame, frameFormat, sequence, g_stopRequested, code>>

CropUnsupported ==
  /\ pc = "crop" /\ frameFormat \notin Supported
  /\ Throw
  /\ UNCHANGED <<world, dxgi, texture, sequence, g_stopRequested>>

-----------------------------------------------------------------------------
(* RunNetworkedLoop *)

\* The encoder reads the mapped texture, then it is unmapped.
Encode ==
  /\ pc = "encode"
  /\ mapped' = FALSE
  /\ pc' = IF frame \in Big THEN "head" ELSE "send"
  /\ UNCHANGED <<world, dxgi, frame, frameFormat, staging, m_format, sequence, g_stopRequested, code>>

\* What send() returns is not looked at: a datagram that did not leave is one that was lost.
Send ==
  /\ pc = "send"
  /\ sequence' = sequence + 1
  /\ pc' = "head"
  /\ UNCHANGED <<world, dxgi, texture, g_stopRequested, code>>

-----------------------------------------------------------------------------
\* The constructor of DesktopCapture has created the duplication; or the agent is not there.
AgentInit ==
  /\ screen = 0 /\ desktop = "user" /\ format \in Formats /\ switches = 0
  /\ dup = TRUE /\ waiting = TRUE /\ cursor = FALSE
  /\ pc \in {"head", "exited"} /\ frame = NoFrame /\ frameFormat = "none"
  /\ staging = "none" /\ m_format = "B8G8R8A8" /\ mapped = FALSE
  /\ sequence = 0 /\ g_stopRequested = FALSE /\ code = 0

\* The agent is started again; on any other desktop the constructor throws.
Restart ==
  /\ pc = "exited" /\ desktop = "user"
  /\ dup' = TRUE /\ waiting' = TRUE /\ cursor' = FALSE
  /\ pc' = "head" /\ frame' = NoFrame /\ frameFormat' = "none"
  /\ staging' = "none" /\ m_format' = "B8G8R8A8" /\ mapped' = FALSE
  /\ sequence' = 0 /\ g_stopRequested' = FALSE /\ code' = 0
  /\ UNCHANGED world

Quiet ==
  \/ LoopHead \/ AcquireTimeout \/ AcquireLost \/ AcquireCursor \/ AcquireFrame
  \/ Crop \/ CropUnsupported \/ Encode

Desktop == Change \/ MoveCursor \/ SwitchDesktop \/ SwitchFormat \/ OnSigInt

-----------------------------------------------------------------------------
(* Properties *)

\* The texture is mapped exactly while the encoder reads it, and the encoder reads the
\* pixels in the format they are in, whenever HDR is toggled: a mismatch "silently copies
\* nothing" (capture.cpp:170-175, 238-245).
FormatMatches ==
  /\ mapped <=> pc = "encode"
  /\ mapped => m_format = frameFormat /\ staging = frameFormat
===============================================================================
