---------------------------- MODULE FrameUpload -----------------------------
(***************************************************************************)
(* POST /api/v1/frames: the JPEG goes to the file system or to the object  *)
(* store first, the row of asset_frame second (routes/frames.py,           *)
(* services/frame_service.py).                                             *)
(*                                                                         *)
(* The local backend writes "<client_id>.tmp" and renames it.  It does so  *)
(* without an await, so in one process two uploads never interleave there; *)
(* in two processes they do, and both use the same temporary name.  A file *)
(* is an inode: a rename moves it, a process that has it open keeps        *)
(* writing to it under its new name.                                       *)
(***************************************************************************)
EXTENDS Naturals, FiniteSets

CONSTANTS
    Frames,      \* client_ids of the frames of a device
    Invalid,     \* frames the route refuses with a 400 or a 413
    Requests,    \* handler coroutines that may be in progress at once
    Workers,     \* server processes
    Host,        \* [Requests -> Workers]
    Inodes,      \* files that may exist at once
    Backends,    \* values settings.storage_backend may have
    MaxFaults,   \* bound on refusals, failures, timeouts and crashes
    None         \* no request, no file

ASSUME HostAssumption == Host \in [Requests -> Workers]
ASSUME FramesAssumption == Invalid \subseteq Frames
ASSUME InodesAssumption ==
    /\ IsFiniteSet(Frames) /\ IsFiniteSet(Requests) /\ IsFiniteSet(Inodes)
    /\ Cardinality(Inodes) >= 2 * Cardinality(Frames) + Cardinality(Requests)
ASSUME NoneAssumption == None \notin Requests \union Inodes
ASSUME BoundsAssumption == MaxFaults \in Nat /\ Backends \subseteq {"local", "supabase"}

VARIABLES
    backend,     \* settings.storage_backend: the same as long as a process runs
    outbox,      \* frames still held by the device
    awaiting,    \* [Frames -> the request whose reply the device waits for]
    phase,       \* [Requests -> where the handler stands]
    frame,       \* [Requests -> the frame it uploads]
    fd,          \* [Requests -> the file it has open]
    tmp,         \* [Frames -> the file named <client_id>.tmp]
    final,       \* [Frames -> the file or object named <client_id>.jpg]
    partial,     \* files whose content is not complete
    torn,        \* history: those whose writer died before it was done
    rows,        \* client_ids of the rows of asset_frame
    faults

clientVars == <<outbox, awaiting>>
fileVars == <<tmp, final, partial, torn>>
vars == <<backend, clientVars, phase, frame, fd, fileVars, rows, faults>>

Phases == {"idle", "received", "storing", "opened", "written", "stored", "answered"}

Init ==
    /\ backend \in Backends
    /\ outbox = Frames
    /\ awaiting = [f \in Frames |-> None]
    /\ phase = [r \in Requests |-> "idle"]
    /\ frame \in [Requests -> Frames]
    /\ fd = [r \in Requests |-> None]
    /\ tmp = [f \in Frames |-> None]
    /\ final = [f \in Frames |-> None]
    /\ partial = {} /\ torn = {}
    /\ rows = {}
    /\ faults = 0

Fault == faults < MaxFaults /\ faults' = faults + 1
To(r, p) == phase' = [phase EXCEPT ![r] = p]
InUse ==
    {tmp[f] : f \in Frames} \union {final[f] : f \in Frames} \union {fd[r] : r \in Requests}
NewFile == CHOOSE i \in Inodes \ InUse : TRUE
TmpFile(f) == IF tmp[f] # None THEN tmp[f] ELSE NewFile

(***************************************************************************)
(* The device sends a frame, one per request, until a request answers 200. *)
(***************************************************************************)
Send(f, r) ==
    /\ f \in outbox /\ awaiting[f] = None
    /\ phase[r] = "idle"
    /\ awaiting' = [awaiting EXCEPT ![f] = r]
    /\ frame' = [frame EXCEPT ![r] = f]
    /\ To(r, "received")
    /\ UNCHANGED <<backend, outbox, fd, fileVars, rows, faults>>

StopAwaiting(R) ==
    awaiting' = [f \in Frames |-> IF awaiting[f] \in R THEN None ELSE awaiting[f]]

Deliver(r) ==
    /\ phase[r] = "answered"
    /\ outbox' = IF awaiting[frame[r]] = r THEN outbox \ {frame[r]} ELSE outbox
    /\ StopAwaiting({r})
    /\ To(r, "idle")
    /\ UNCHANGED <<backend, frame, fd, fileVars, rows, faults>>

\* The device stops waiting for the reply and will send the frame again.
Timeout(f) ==
    /\ awaiting[f] # None
    /\ Fault
    /\ awaiting' = [awaiting EXCEPT ![f] = None]
    /\ UNCHANGED <<backend, outbox, phase, frame, fd, fileVars, rows>>

\* The request ends without a 200.
EndWithError(r) ==
    /\ To(r, "idle")
    /\ fd' = [fd EXCEPT ![r] = None]
    /\ torn' = torn \union ({fd[r]} \ {None})
    /\ StopAwaiting({r})
    /\ UNCHANGED <<backend, outbox, frame, tmp, final, partial, rows>>

(***************************************************************************)
(* The route: the rate limit first (left open here, module RateLimit), the *)
(* metadata and the JPEG second.                                           *)
(***************************************************************************)
RefuseOverLimit(r) ==
    /\ phase[r] = "received"
    /\ Fault
    /\ EndWithError(r)

RefuseInvalid(r) ==
    /\ phase[r] = "received"
    /\ frame[r] \in Invalid
    /\ EndWithError(r)
    /\ UNCHANGED faults

Accept(r) ==
    /\ phase[r] = "received"
    /\ frame[r] \notin Invalid
    /\ To(r, "storing")
    /\ UNCHANGED <<backend, clientVars, frame, fd, fileVars, rows, faults>>

(***************************************************************************)
(* _store_jpeg_local.  Nothing else of the same process runs in between.   *)
(***************************************************************************)
InFile(q) == phase[q] \in {"opened", "written"}
Alone(r) == \A q \in Requests : q # r /\ Host[q] = Host[r] => ~InFile(q)

\* Mutant of Open: the file is written under its final name.
OpenInPlace(r) ==
    /\ phase[r] = "storing" /\ backend = "local"
    /\ Alone(r)
    /\ tmp' = [tmp EXCEPT ![frame[r]] = TmpFile(frame[r])]
    /\ final' = [final EXCEPT ![frame[r]] = TmpFile(frame[r])]
    /\ fd' = [fd EXCEPT ![r] = TmpFile(frame[r])]
    /\ partial' = partial \union {TmpFile(frame[r])}
    /\ To(r, "opened")
    /\ UNCHANGED <<backend, clientVars, frame, torn, rows, faults>>

\* write_bytes opens the temporary name, truncating the file that has it.
Open(r) ==
    /\ phase[r] = "storing" /\ backend = "local"
    /\ Alone(r)
    /\ tmp' = [tmp EXCEPT ![frame[r]] = TmpFile(frame[r])]
    /\ fd' = [fd EXCEPT ![r] = TmpFile(frame[r])]
    /\ partial' = partial \union {TmpFile(frame[r])}
    /\ To(r, "opened")
    /\ UNCHANGED <<backend, clientVars, frame, final, torn, rows, faults>>

\* ... and writes and closes the file it opened, whatever its name is now.
Write(r) ==
    /\ phase[r] = "opened"
    /\ partial' = partial \ {fd[r]}
    /\ torn' = torn \ {fd[r]}
    /\ fd' = [fd EXCEPT ![r] = None]
    /\ To(r, "written")
    /\ UNCHANGED <<backend, clientVars, frame, tmp, final, rows, faults>>

\* os.replace(temp_path, file_path)
Rename(r) ==
    /\ phase[r] = "written"
    /\ tmp[frame[r]] # None
    /\ final' = [final EXCEPT ![frame[r]] = tmp[frame[r]]]
    /\ tmp' = [tmp EXCEPT ![frame[r]] = None]
    /\ To(r, "stored")
    /\ UNCHANGED <<backend, clientVars, frame, fd, partial, torn, rows, faults>>

\* Another process has renamed the file: FileNotFoundError, a 500.
RenameFails(r) ==
    /\ phase[r] = "written"
    /\ tmp[frame[r]] = None
    /\ EndWithError(r)
    /\ UNCHANGED faults

\* Mutant of StoreObject: a failed upload is not noticed.
StoreObjectUnchecked(r) ==
    /\ phase[r] = "storing" /\ backend = "supabase"
    /\ \/ final' = [final EXCEPT ![frame[r]] = NewFile]
       \/ UNCHANGED final
    /\ To(r, "stored")
    /\ UNCHANGED <<backend, clientVars, frame, fd, tmp, partial, torn, rows, faults>>

\* _store_jpeg_supabase: the object store replaces an object as a whole.
StoreObject(r) ==
    /\ phase[r] = "storing" /\ backend = "supabase"
    /\ final' = [final EXCEPT ![frame[r]] = NewFile]
    /\ To(r, "stored")
    /\ UNCHANGED <<backend, clientVars, frame, fd, tmp, partial, torn, rows, faults>>

-----------------------------------------------------------------------------

\* Mutant of InsertRow: without ON CONFLICT DO NOTHING.
InsertRowOnce(r) ==
    /\ phase[r] = "stored"
    /\ IF frame[r] \in rows
       THEN EndWithError(r)
       ELSE /\ rows' = rows \union {frame[r]}
            /\ To(r, "answered")
            /\ UNCHANGED <<backend, clientVars, frame, fd, fileVars>>
    /\ UNCHANGED faults

\* INSERT ... ON CONFLICT DO NOTHING, then the 200.
InsertRow(r) ==
    /\ phase[r] = "stored"
    /\ rows' = rows \union {frame[r]}
    /\ To(r, "answered")
    /\ UNCHANGED <<backend, clientVars, frame, fd, fileVars, faults>>

\* A step raises (disk, object store, database): nothing is undone.
Fail(r) ==
    /\ phase[r] \in {"storing", "opened", "written", "stored"}
    /\ Fault
    /\ EndWithError(r)

\* A process dies with its requests; files and rows stay as they are.
Crash(w) ==
    LET mine == {r \in Requests : Host[r] = w}
    IN  /\ Fault
        /\ phase' = [r \in Requests |-> IF r \in mine THEN "idle" ELSE phase[r]]
        /\ fd' = [r \in Requests |-> IF r \in mine THEN None ELSE fd[r]]
        /\ torn' = torn \union ({fd[r] : r \in mine} \ {None})
        /\ StopAwaiting(mine)
        /\ UNCHANGED <<backend, outbox, frame, tmp, final, partial, rows>>

Handle(r) ==
    \/ RefuseInvalid(r)
    \/ Accept(r)
    \/ Open(r)
    \/ Write(r)
    \/ Rename(r)
    \/ RenameFails(r)
    \/ StoreObject(r)
    \/ InsertRow(r)
    \/ Deliver(r)

Next ==
    \/ \E f \in Frames, r \in Requests : Send(f, r)
    \/ \E f \in Frames : Timeout(f)
    \/ \E r \in Requests : Handle(r) \/ RefuseOverLimit(r) \/ Fail(r)
    \/ \E w \in Workers : Crash(w)

Spec == Init /\ [][Next]_vars

(***************************************************************************)
(* Handlers go on when they can, and the device comes back to every frame  *)
(* of its outbox (strongly fair, because the slots for requests, a bound   *)
(* of the model, may be taken when it tries).                              *)
(***************************************************************************)
Fairness ==
    /\ \A r \in Requests : WF_vars(Handle(r))
    /\ \A f \in Frames : SF_vars(\E r \in Requests : Send(f, r))

FairSpec == Spec /\ Fairness

-----------------------------------------------------------------------------
\* Every file that is open or named exists once, under one name at most.
TypeOK ==
    /\ backend \in Backends
    /\ outbox \subseteq Frames
    /\ awaiting \in [Frames -> Requests \union {None}]
    /\ phase \in [Requests -> Phases]
    /\ frame \in [Requests -> Frames]
    /\ fd \in [Requests -> Inodes \union {None}]
    /\ tmp \in [Frames -> Inodes \union {None}]
    /\ final \in [Frames -> Inodes \union {None}]
    /\ torn \subseteq Inodes /\ partial \subseteq Inodes
    /\ rows \subseteq Frames
    /\ faults \in 0..MaxFaults
    /\ \A f, g \in Frames : tmp[f] # None => tmp[f] # final[g]

Whole(f) == final[f] # None /\ final[f] \notin partial

\* "Write atomically: write to temp file then rename to avoid partial reads"
\* (frame_service.py:112): a file under its final name is complete.
NoPartialFile == \A f \in Frames : final[f] # None => Whole(f)

\* Whatever fails in between, a row of asset_frame has its complete JPEG, and
\* a frame the device has deleted has both (frame_service.py:54-80).
NoFrameLost ==
    /\ \A f \in rows : Whole(f)
    /\ Frames \subseteq outbox \union rows

\* Every frame the route does not refuse ends with a row and a JPEG and leaves
\* the device, in spite of collisions, lost replies, failures and crashes.  In
\* the end the JPEG is complete, unless a process died while it wrote the file
\* that another one had just completed and was about to rename
\* (frame_service.py:113-115).
FramesGetStored ==
    \A f \in Frames \ Invalid :
        <>[](/\ f \in rows /\ f \notin outbox
             /\ Whole(f) \/ final[f] \in torn)

\* "duplicate client_ids are silently accepted without overwriting the
\* existing file" (frame_service.py:51-52).
NeverOverwritten ==
    [][\A f \in Frames : final[f] # None => final'[f] = final[f]]_vars

\* Like events, frames are stored before the device deletes them.
Promise == INSTANCE ReliableUpload WITH
    Devices <- {None},
    Recorded <- [d \in {None} |-> Frames],
    outbox <- [d \in {None} |-> outbox],
    durable <- {f \in rows : Whole(f)}
ImplementsReliableUpload == Promise!Spec
=============================================================================
