---------------------------- MODULE Persistence -----------------------------
(***************************************************************************)
(* persist::save and persist::load (include/pciefabric/persistence.hpp):   *)
(* how a snapshot becomes a file.  save holds no lock; each of its calls   *)
(* into the file system is an action, and the process may die between any  *)
(* two of them, leaving both files as they are.                            *)
(*                                                                         *)
(* A file is two blocks: the header with the length and CRC-32 of a body,  *)
(* and the body.  A block holds the snapshot it was written from or None.  *)
(* All snapshots have one length, so a rewritten block hides the old one.  *)
(* The build is for Windows: a file that somebody has open can be neither  *)
(* renamed nor removed.  Loss of flushed data (a power failure) is left    *)
(* out.                                                                    *)
(***************************************************************************)
EXTENDS Naturals

CONSTANTS
    Saver,           \* threads that save under one name
    Snapshot,        \* what they save
    None,
    MaxSaves,        \* bound: calls of save
    MaxCrashes       \* bound: deaths of the process

ASSUME PersistenceAssumption ==
    /\ None \notin Snapshot
    /\ None \notin [header: Snapshot \cup {None}, body: Snapshot \cup {None}]
    /\ MaxSaves \in Nat
    /\ MaxCrashes \in Nat

VARIABLES
    file,            \* what is stored under the name itself, or None
    tmp,             \* what is stored under the name with .tmp, or None
    save,            \* how far each thread's call of save is
    saved,           \* history: the snapshot of the last save that succeeded
    lost,            \* history: a save stopped after removing the file, none succeeded since
    overlapping,     \* history: the threads whose call met another one
    mixed,           \* history: the last save that succeeded met another one
    saves,           \* calls of save so far
    crashes          \* deaths so far

files == <<file, tmp, save, saved, lost, overlapping, mixed, saves, crashes>>

Block == Snapshot \cup {None}

Contents == [header: Block, body: Block]

Whole(s) == [header |-> s, body |-> s]

\* Where a call of save can be: before it opens the temporary file, with the
\* file open and empty, with the header written, with the file closed, and with
\* the old file out of the way.
Place == {"idle", "called", "opened", "header", "closed", "removed"}

Call == [at: Place, snapshot: Block]

Idle == [at |-> "idle", snapshot |-> None]

Writing(t) == save[t].at \in {"opened", "header"}

At(t, place) == save[t].at = place

MoveTo(t, place) == save' = [save EXCEPT ![t].at = place]

-----------------------------------------------------------------------------
(* load *)

\* What load answers before it decodes the body.
LoadResult(c) ==
    IF c = None THEN "IO_ERROR"
    ELSE IF c.header = None THEN "TRUNCATED"
    ELSE IF c.body = None THEN "PROTOCOL_OVERFLOW"
    ELSE IF c.body # c.header THEN "PROTOCOL_CHECKSUM"
    ELSE "OK"

-----------------------------------------------------------------------------
(* save *)

Busy == {t \in Saver : ~At(t, "idle")}

StartSave(t, s) ==
    /\ At(t, "idle") /\ saves < MaxSaves
    /\ save' = [save EXCEPT ![t] = [at |-> "called", snapshot |-> s]]
    /\ saves' = saves + 1
    /\ overlapping' = IF Busy = {} THEN {} ELSE Busy \cup {t}
    /\ UNCHANGED <<file, tmp, saved, lost, mixed, crashes>>

\* std::ios::trunc empties a temporary file that is there already.
OpenTmp(t) ==
    /\ At(t, "called")
    /\ tmp' = Whole(None)
    /\ MoveTo(t, "opened")
    /\ UNCHANGED <<file, saved, lost, overlapping, mixed, saves, crashes>>

\* The bytes reach the file from front to back.
WriteHeader(t) ==
    /\ At(t, "opened")
    /\ tmp' = [tmp EXCEPT !.header = save[t].snapshot]
    /\ MoveTo(t, "header")
    /\ UNCHANGED <<file, saved, lost, overlapping, mixed, saves, crashes>>

WriteBody(t) ==
    /\ At(t, "header")
    /\ tmp' = [tmp EXCEPT !.body = save[t].snapshot]
    /\ MoveTo(t, "closed")
    /\ UNCHANGED <<file, saved, lost, overlapping, mixed, saves, crashes>>

\* Nothing happens to a file that does not exist.
RemoveOld(t) ==
    /\ At(t, "closed")
    /\ file' = None
    /\ MoveTo(t, "removed")
    /\ UNCHANGED <<tmp, saved, lost, overlapping, mixed, saves, crashes>>

Rename(t) ==
    /\ At(t, "removed")
    /\ tmp # None /\ \A u \in Saver : ~Writing(u)
    /\ file' = tmp
    /\ tmp' = None
    /\ save' = [save EXCEPT ![t] = Idle]
    /\ saved' = save[t].snapshot
    /\ lost' = FALSE
    /\ mixed' = (t \in overlapping)
    /\ UNCHANGED <<overlapping, saves, crashes>>

MutantWriteUnchecked(t) ==
    /\ Writing(t)
    /\ MoveTo(t, "closed")
    /\ UNCHANGED <<file, tmp, saved, lost, overlapping, mixed, saves, crashes>>

MutantRenameUnchecked(t) ==
    /\ At(t, "removed")
    /\ save' = [save EXCEPT ![t] = Idle]
    /\ saved' = save[t].snapshot
    /\ lost' = FALSE
    /\ mixed' = (t \in overlapping)
    /\ UNCHANGED <<file, tmp, overlapping, saves, crashes>>

\* Any call into the file system can fail; save returns IO_ERROR and undoes nothing.
SaveFails(t) ==
    /\ ~At(t, "idle")
    /\ save' = [save EXCEPT ![t] = Idle]
    /\ lost' = (lost \/ At(t, "removed"))
    /\ UNCHANGED <<file, tmp, saved, overlapping, mixed, saves, crashes>>

\* The process dies with all its threads.
Crash ==
    /\ crashes < MaxCrashes
    /\ crashes' = crashes + 1
    /\ save' = [t \in Saver |-> Idle]
    /\ lost' = (lost \/ \E t \in Saver : At(t, "removed"))
    /\ UNCHANGED <<file, tmp, saved, overlapping, mixed, saves>>

SaveStep(t) ==
    \/ OpenTmp(t) \/ WriteHeader(t) \/ WriteBody(t)
    \/ RemoveOld(t) \/ Rename(t) \/ SaveFails(t)

-----------------------------------------------------------------------------
FilesInit ==
    /\ file = None
    /\ tmp = None
    /\ save = [t \in Saver |-> Idle]
    /\ saved = None
    /\ lost = FALSE
    /\ overlapping = {}
    /\ mixed = FALSE
    /\ saves = 0
    /\ crashes = 0

FilesNext ==
    \/ \E t \in Saver :
          \/ \E s \in Snapshot : StartSave(t, s)
          \/ SaveStep(t)
    \/ Crash

FilesSpec == FilesInit /\ [][FilesNext]_files

-----------------------------------------------------------------------------
(* Properties *)

\* Files hold blocks of snapshots and every thread is somewhere in save.
FilesTypeOK ==
    /\ file \in Contents \cup {None}
    /\ tmp \in Contents \cup {None}
    /\ save \in [Saver -> Call]
    /\ saved \in Block
    /\ lost \in BOOLEAN
    /\ overlapping \subseteq Saver
    /\ mixed \in BOOLEAN
    /\ saves \in 0 .. MaxSaves
    /\ crashes \in 0 .. MaxCrashes

\* What a call of save published that met no other is a whole snapshot, however
\* often a save before it failed, met another or was cut short by the death of
\* the process.
PublishedIsWhole == file # None /\ ~mixed => LoadResult(file) = "OK"

\* The name holds the snapshot of the last successful save, if it met no other,
\* unless a save has removed the file and has yet to rename, or stopped in between.
SavedIsPublished ==
    \/ saved = None
    \/ lost
    \/ mixed
    \/ \E t \in Saver : At(t, "removed")
    \/ file = Whole(saved)

\* "One thread-safe, deterministic runtime": whichever threads save, load never
\* finds a torn file.  save takes no lock and all calls share one .tmp file.
NeverTorn == file # None => LoadResult(file) = "OK"

\* "State is written atomically": between calls of save the last successful
\* one can be loaded.
AtomicSave ==
    saved # None /\ (\A t \in Saver : At(t, "idle")) => LoadResult(file) = "OK"
=============================================================================
