------------------------------ MODULE NtfsFileIO ------------------------------
(***************************************************************************)
(* The byte cursor of file handles (ReadWrite.c) and the size each handle *)
(* caches in its FileInfo: several handles opened on one file of a        *)
(* writable volume, reading, writing and seeking under NtfsFsLock.  Every *)
(* handler runs under the lock, so each is one step.                      *)
(*                                                                         *)
(* The file is abstracted to its size on the media (ni->data_size): the  *)
(* properties are about where a handle's cursor and cached size stand     *)
(* against it, never about the bytes.  A handle names its file by path,   *)
(* so a delete through one handle and a create through another put a new  *)
(* file under the path the old handles still use; fileRef tells the      *)
(* files apart.  An access to the inode of a deleted path (NULL) is the   *)
(* NullInode fault NtfsVolume records, and is not repeated here.          *)
(***************************************************************************)
EXTENDS Integers, Sequences, FiniteSetsExt

CONSTANTS
    Handle,       \* allocation slots of handles opened on the file
    MaxSize,      \* bound on the file size, so that writes stay finite
    BufferSizes,  \* *BufferSize values a caller passes to Read and Write
    Offsets,      \* Position values a caller passes to SetPosition
    MaxFileRef,   \* bound on the files created under the path
    None

ASSUME /\ MaxSize \in Nat /\ BufferSizes \subseteq Nat /\ Offsets \subseteq Nat
       /\ MaxFileRef \in Nat

\* (UINT64) -1, the SetPosition argument meaning end of file; written as
\* -1, which no offset in Offsets (a set of naturals) equals.
EndOfFile == -1

VARIABLES
    dataSize, \* ni->data_size of the file's unnamed $DATA attribute
    present,  \* the path resolves: ntfs_pathname_to_inode is non-NULL
    fileRef,  \* which file the path names: one more per ntfs_create
    hs      \* hs[h]: [pos, size, ro, ref] of the NTFS_IFILE in slot h, or
            \* None: IFile->Position, IFile->FileInfo->FileSize,
            \* IFile->ReadOnly, and the file the path named at open

vars == <<dataSize, present, fileRef, hs>>

IFile == [pos : 0..MaxSize, size : 0..MaxSize, ro : BOOLEAN, ref : 0..MaxFileRef]

TypeOK ==
    /\ dataSize \in 0..MaxSize
    /\ present \in BOOLEAN /\ fileRef \in 0..MaxFileRef
    /\ hs \in [Handle -> IFile \cup {None}]

\* A file just made by ntfs_create: empty, and no handle open on it.
Init == dataSize = 0 /\ present = TRUE /\ fileRef = 0 /\ hs = [h \in Handle |-> None]

-----------------------------------------------------------------------------
(* Actions.                                                                *)

\* NtfsOFileOpen of the file's name, after the checks NtfsVolume models.
\* When the path does not resolve, EFI_NOT_FOUND for a mode without
\* EFI_FILE_MODE_CREATE (read-only modes here), else ntfs_create makes a
\* new, empty file under it.  Then a new IFile with Position 0,
\* ReadOnly = !WriteMode, and a FileInfo filled by NtfsGetDirEntInfo
\* with FileSize = ni->data_size.
Open(h) ==
    /\ hs[h] = None
    /\ \E wm \in BOOLEAN :
         IF present
         THEN /\ hs' = [hs EXCEPT ![h] = [pos |-> 0, size |-> dataSize,
                                          ro |-> ~wm, ref |-> fileRef]]
              /\ UNCHANGED <<dataSize, present, fileRef>>
         ELSE \/ /\ ~wm
                 /\ UNCHANGED vars
              \/ /\ wm /\ fileRef < MaxFileRef
                 /\ dataSize' = 0 /\ present' = TRUE /\ fileRef' = fileRef + 1
                 /\ hs' = [hs EXCEPT ![h] = [pos |-> 0, size |-> 0,
                                             ro |-> FALSE, ref |-> fileRef + 1]]

\* NtfsClose: the handle and its FileInfo are freed.
Close(h) ==
    /\ hs[h] # None
    /\ hs' = [hs EXCEPT ![h] = None]
    /\ UNCHANGED <<dataSize, present, fileRef>>

\* NtfsDelete: EFI_WRITE_PROTECTED for a ReadOnly handle, else ntfs_delete
\* of the path, which may fail (EFI_DEVICE_ERROR); the handle is closed
\* either way.  Deleting a path that no longer resolves is NtfsVolume's
\* NullInode.
Delete(h) ==
    /\ hs[h] # None
    /\ ~hs[h].ro => present
    /\ hs' = [hs EXCEPT ![h] = None]
    /\ \E ok \in BOOLEAN : present' = (present /\ ~(ok /\ ~hs[h].ro))
    /\ UNCHANGED <<dataSize, fileRef>>

\* Mutant: Position advanced by the *BufferSize asked for rather than the
\* count ntfs_attr_data_read returned.
ReadCountRequested(h, bs) == bs

\* ntfs_attr_data_read from Position: the bytes up to the end of $DATA, and
\* none from at or past the end.
ReadCount(h, bs) == Max({0, Min({bs, dataSize - hs[h].pos})})

\* NtfsRead of a file (NtfsIFileAccess, ReadData): DEVICE_ERROR when
\* Position is past the cached FileSize; otherwise the read and Position
\* advances by the count returned.
Read(h) ==
    /\ hs[h] # None
    /\ hs[h].pos <= hs[h].size => present
    /\ \E bs \in BufferSizes :
         hs' = IF hs[h].pos > hs[h].size THEN hs
               ELSE [hs EXCEPT ![h].pos = @ + ReadCount(h, bs)]
    /\ UNCHANGED <<dataSize, present, fileRef>>

\* ntfs_attr_data_write of bs bytes at Position: data_size grows to the
\* end of the write (a gap past the old end is zero-filled); a write of
\* no bytes returns 0 and leaves the attribute alone.
NewDataSize(pos, bs) == IF bs = 0 THEN dataSize ELSE Max({dataSize, pos + bs})

\* Mutant: the cached size advanced by the bytes written instead of being
\* reloaded from ni->data_size.
WriteSizeAdds(h, bs) == hs[h].size + bs

\* After a successful write: FileInfo->FileSize = ni->data_size.
WriteSize(h, bs) == NewDataSize(hs[h].pos, bs)

\* NtfsWrite (NtfsIFileAccess, WriteData): ACCESS_DENIED on a read-only
\* handle; otherwise the write, the FileSize refresh and Position += bs.
Write(h) ==
    /\ hs[h] # None
    /\ ~hs[h].ro => present
    /\ UNCHANGED <<present, fileRef>>
    /\ \E bs \in BufferSizes :
         /\ hs[h].pos + bs <= MaxSize
         /\ IF hs[h].ro
            THEN UNCHANGED vars
            ELSE /\ dataSize' = NewDataSize(hs[h].pos, bs)
                 /\ hs' = [hs EXCEPT ![h].size = WriteSize(h, bs),
                                     ![h].pos = @ + bs]

\* NtfsSetPosition of a file: any offset; (UINT64) -1 means the cached
\* FileInfo->FileSize.
SetPosition(h) ==
    /\ hs[h] # None
    /\ \E p \in Offsets \cup {EndOfFile} :
         hs' = [hs EXCEPT ![h].pos = IF p = EndOfFile THEN hs[h].size ELSE p]
    /\ UNCHANGED <<dataSize, present, fileRef>>

Next == \E h \in Handle : \/ Open(h) \/ Close(h) \/ Delete(h) \/ Read(h)
                          \/ Write(h) \/ SetPosition(h)

Spec == Init /\ [][Next]_vars

-----------------------------------------------------------------------------
(* Properties.                                                             *)

\* Spec 4.4: the FileSize a handle caches is where its reads stop being
\* served (the Position > FileSize check) and where SetPosition(-1) goes.
\* While the path still names the file a handle opened, that file never
\* shrinks and every write through any handle reloads the writer's size
\* from the inode, so the cached size, however stale, never exceeds the
\* real size.  (Once the file is deleted and another created under the
\* path, an old handle's size describes the old file: README, results.)
CachedSizeNeverAhead ==
    \A h \in Handle : hs[h] # None /\ hs[h].ref = fileRef => hs[h].size <= dataSize

====
