-------------------------------- MODULE Camera --------------------------------
(***************************************************************************)
(* mac-app/macvision/sources/camera.py, class CameraSource: a reader       *)
(* thread keeps the newest frame in a one-place buffer, recv() takes it or *)
(* declares the camera stale, and a handle that fails too often is traded  *)
(* for a new one.  Cropping and the geometry probe of open() are left out. *)
(***************************************************************************)
EXTENDS Naturals, FiniteSets

CONSTANTS
  REOPEN_AFTER_FAILURES,
  STALE,       \* STALE_AFTER_S in ticks
  Handles,     \* capture objects; more than are ever open at once
  MaxFrames    \* bound of the model on frames taken

ASSUME CameraAssumption ==
  /\ REOPEN_AFTER_FAILURES \in Nat \ {0} /\ STALE \in Nat \ {0}
  /\ Cardinality(Handles) >= 2 /\ MaxFrames \in Nat

VARIABLES
  works,        \* the device delivers
  cap, fresh,   \* self._cap; the handle being opened in its place
  opened, dead, \* handles not released; those that will not deliver again
  rdPc,         \* the reader: "read", "pause", "backoff", "swap", "release", "publish", "done"
  consecutive,
  pending, seq, \* _pending is set; _seq
  sinceRecv,    \* _dropped_since_recv
  stop,         \* _stop is set
  gaveUp,       \* the join of close() timed out
  camPc,        \* the frame loop's thread: "warmup", "loop", "recv", "join", "closed"
  waited,       \* ticks in this recv
  silence,      \* ticks since a frame was published
  stale,        \* the last recv declared the camera stale
  taken, reported, flushed   \* frames returned, dropped frames reported, frames flushed

handles == <<cap, fresh, opened, dead>>
reader == <<rdPc, consecutive>>
buffer == <<pending, seq, sinceRecv>>
counts == <<taken, reported, flushed>>
loop == <<camPc, gaveUp, waited, silence, stale, counts>>
cameraVars == <<works, handles, reader, buffer, stop, loop>>

-----------------------------------------------------------------------------
(* Mutations: each breaks the property named with it. *)

\* FramesAccounted: the frame that was never collected is not counted.
Publish_Uncounted ==
  /\ rdPc = "publish" /\ rdPc' = "read"
  /\ pending' = TRUE /\ seq' = seq + 1
  /\ silence' = 0
  /\ UNCHANGED <<works, handles, consecutive, sinceRecv, stop, camPc, gaveUp, waited, stale, counts>>

\* StaleIsSilence: the deadline is kept from one recv to the next.
RecvBegin_OldDeadline ==
  /\ camPc = "loop"
  /\ camPc' = "recv"
  /\ UNCHANGED <<works, handles, reader, buffer, stop, gaveUp, waited, silence, stale, counts>>

\* CameraReleased: the handle that was traded is not released.
ReopenRelease_Keeps ==
  /\ rdPc = "release"
  /\ rdPc' = "read"
  /\ UNCHANGED <<works, handles, consecutive, buffer, stop, loop>>

\* CameraRecovers: a failed read leaves the count as it is.
ReadFails_Uncounted ==
  /\ rdPc = "read" /\ (~ works \/ cap \in dead)
  /\ rdPc' = "pause"
  /\ UNCHANGED <<works, handles, consecutive, buffer, stop, loop>>

-----------------------------------------------------------------------------
(* The device *)

\* A handle that met a dead device is a corpse, also when the device is back.
DeviceFails ==
  /\ works
  /\ works' = FALSE /\ dead' = opened
  /\ UNCHANGED <<cap, fresh, opened, reader, buffer, stop, loop>>

DeviceBack ==
  /\ ~ works
  /\ works' = TRUE
  /\ UNCHANGED <<handles, reader, buffer, stop, loop>>

-----------------------------------------------------------------------------
(* The reader *)

\* while not self._stop.is_set()
ReaderEnds ==
  /\ rdPc \in {"read", "pause", "backoff"} /\ stop
  /\ rdPc' = "done"
  /\ UNCHANGED <<works, handles, consecutive, buffer, stop, loop>>

ReadFrame ==
  /\ rdPc = "read" /\ works /\ cap \notin dead /\ seq < MaxFrames
  /\ consecutive' = 0 /\ rdPc' = "publish"
  /\ UNCHANGED <<works, handles, buffer, stop, loop>>

Publish ==
  /\ rdPc = "publish" /\ rdPc' = "read"
  /\ sinceRecv' = IF pending THEN sinceRecv + 1 ELSE sinceRecv
  /\ pending' = TRUE /\ seq' = seq + 1
  /\ silence' = 0
  /\ UNCHANGED <<works, handles, consecutive, stop, camPc, gaveUp, waited, stale, counts>>

ReadFails ==
  /\ rdPc = "read" /\ (~ works \/ cap \in dead)
  /\ IF consecutive + 1 >= REOPEN_AFTER_FAILURES
       THEN consecutive' = 0 /\ rdPc' = "backoff"
       ELSE consecutive' = consecutive + 1 /\ rdPc' = "pause"
  /\ UNCHANGED <<works, handles, buffer, stop, loop>>

Pause ==
  /\ rdPc = "pause"
  /\ rdPc' = "read"
  /\ UNCHANGED <<works, handles, consecutive, buffer, stop, loop>>

\* _reopen: a new handle is opened and put in place, then the old one is released.
\* VideoCapture constructs an object for a device that is not there too.
Reopen ==
  /\ rdPc = "backoff" /\ ~ stop
  /\ \E h \in Handles \ opened :
       /\ fresh' = h /\ opened' = opened \cup {h}
       /\ dead' = IF works THEN dead ELSE dead \cup {h}
  /\ rdPc' = "swap"
  /\ UNCHANGED <<works, cap, consecutive, buffer, stop, loop>>

\* Setting the size or the rate raises: the new object is dropped, the old handle kept.
ReopenFails ==
  /\ rdPc = "backoff" /\ ~ stop
  /\ rdPc' = "read"
  /\ UNCHANGED <<works, handles, consecutive, buffer, stop, loop>>

ReopenSwap ==
  /\ rdPc = "swap"
  /\ cap' = fresh /\ fresh' = cap
  /\ rdPc' = "release"
  /\ UNCHANGED <<works, opened, dead, consecutive, buffer, stop, loop>>

ReopenRelease ==
  /\ rdPc = "release"
  /\ opened' = opened \ {fresh} /\ dead' = dead \ {fresh}
  /\ rdPc' = "read"
  /\ UNCHANGED <<works, cap, fresh, consecutive, buffer, stop, loop>>

-----------------------------------------------------------------------------
(* The frame loop's thread *)

CameraFlush ==
  /\ camPc = "warmup"
  /\ flushed' = flushed + sinceRecv + (IF pending THEN 1 ELSE 0)
  /\ pending' = FALSE /\ sinceRecv' = 0
  /\ camPc' = "loop"
  /\ UNCHANGED <<works, handles, reader, seq, stop, gaveUp, waited, silence, stale, taken, reported>>

RecvBegin ==
  /\ camPc = "loop"
  /\ camPc' = "recv" /\ waited' = 0
  /\ UNCHANGED <<works, handles, reader, buffer, stop, gaveUp, silence, stale, counts>>

RecvFrame ==
  /\ camPc = "recv" /\ pending
  /\ taken' = taken + 1 /\ reported' = reported + sinceRecv
  /\ pending' = FALSE /\ sinceRecv' = 0
  /\ stale' = FALSE /\ camPc' = "loop"
  /\ UNCHANGED <<works, handles, reader, seq, stop, gaveUp, waited, silence, flushed>>

RecvStale ==
  /\ camPc = "recv" /\ ~ pending /\ waited >= STALE
  /\ stale' = TRUE /\ camPc' = "loop"
  /\ UNCHANGED <<works, handles, reader, buffer, stop, gaveUp, waited, silence, counts>>

\* close(): the thread is joined before the device is released, for half a second, which a
\* read of a camera that hangs or the open of a device can outlast.
CloseSet ==
  /\ camPc \in {"warmup", "loop", "recv"}
  /\ stop' = TRUE /\ camPc' = "join"
  /\ UNCHANGED <<works, handles, reader, buffer, gaveUp, waited, silence, stale, counts>>

CloseRelease ==
  /\ camPc = "join" /\ rdPc \in {"done", "read", "swap"}
  /\ gaveUp' = (rdPc # "done")
  /\ opened' = opened \ {cap} /\ dead' = dead \ {cap}
  /\ camPc' = "closed"
  /\ UNCHANGED <<works, cap, fresh, reader, buffer, stop, waited, silence, stale, counts>>

\* Both the wait of recv and the silence are in ticks; the reader is faster than a tick.
Tick ==
  /\ camPc = "recv" => waited < STALE /\ ~ pending
  /\ rdPc # "publish"
  /\ waited' = IF camPc = "recv" THEN waited + 1 ELSE waited
  /\ silence' = IF silence < STALE THEN silence + 1 ELSE silence
  /\ UNCHANGED <<works, handles, reader, buffer, stop, camPc, gaveUp, stale, counts>>

-----------------------------------------------------------------------------
\* open() has taken frames and started the reader.
CameraInit ==
  /\ works = TRUE
  /\ cap \in Handles /\ fresh = cap /\ opened = {cap} /\ dead = {}
  /\ rdPc = "read" /\ consecutive = 0
  /\ pending = FALSE /\ seq = 0 /\ sinceRecv = 0
  /\ stop = FALSE /\ gaveUp = FALSE /\ camPc = "warmup"
  /\ waited = 0 /\ silence = 0 /\ stale = FALSE
  /\ taken = 0 /\ reported = 0 /\ flushed = 0

Reader ==
  \/ ReaderEnds \/ ReadFrame \/ Publish \/ ReadFails \/ Pause
  \/ Reopen \/ ReopenFails \/ ReopenSwap \/ ReopenRelease

Recv == RecvBegin \/ RecvFrame \/ RecvStale

CameraNext ==
  \/ DeviceFails \/ DeviceBack
  \/ Reader
  \/ CameraFlush \/ Recv \/ CloseSet \/ CloseRelease
  \/ Tick

CameraSpec == CameraInit /\ [][CameraNext]_cameraVars

-----------------------------------------------------------------------------
(* Properties *)

\* Every frame the reader took is with the loop, in the buffer, reported as dropped, still
\* to be reported, or flushed (camera.py:278-289, 293-326).
FramesAccounted ==
  seq = taken + reported + sinceRecv + flushed + (IF pending THEN 1 ELSE 0)

\* A camera is declared stale only after a full period without a frame, however the frame
\* and the deadline meet (camera.py:293-314).
StaleIsSilence == [][RecvStale => silence >= STALE]_cameraVars

\* A handle is released when it is traded, and the last one by close(); only one that was
\* opened after close() gave up waiting can be left (camera.py:205-227, 343-356).
CameraReleased ==
  /\ Cardinality(opened) <= 2
  /\ camPc = "closed" /\ rdPc = "done" => opened = {} \/ (gaveUp /\ opened = {cap})

\* A camera that is back delivers again, although its old handle never will
\* (camera.py:256-268).
CameraRecovers == <>[](works /\ ~ stop) => <>[](cap \notin dead)
===============================================================================
