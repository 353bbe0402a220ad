----------------------------- MODULE NtfsVolume -----------------------------
(***************************************************************************)
(* The volume / handle lifecycle of NtfsDxe: the global NtfsFsLock, the    *)
(* NTFS_VOLUME reference count and validity flag, the ntfs-3g mount held  *)
(* in Volume->VolInfo, and the NTFS_IFILE handles of every caller.        *)
(*                                                                         *)
(* Every EFI_FILE_PROTOCOL handler runs to completion under NtfsFsLock.   *)
(* The only interleaving is the one NtfsAbandonVolume exists for: the     *)
(* driver's Stop can run re-entrantly while a handler is inside an       *)
(* ntfs-3g / DiskIo call and holds the lock.  A handler that makes such a *)
(* call is therefore one action up to its trailing NtfsCleanupVolume, and *)
(* the Finish action (cleanup + NtfsReleaseLock) completes it.            *)
(*                                                                         *)
(* Memory-safety faults (a NULL or freed pointer dereferenced) are        *)
(* recorded in the history variable fault; execution continues with the  *)
(* outcome of a release build, where a read of page 0 returns garbage and *)
(* FreePool(NULL) is only an ASSERT.                                       *)
(***************************************************************************)
EXTENDS Integers, FiniteSets

CONSTANTS
    Volume,      \* block devices the driver binds an NTFS_VOLUME to
    Handle,      \* pool of NTFS_IFILE allocations; exhaustion = OUT_OF_RESOURCES
    Node,        \* files and directories below the root of every volume
    Dir,         \* the members of Node that are directories
    Root,        \* the root directory
    Parent,      \* Parent[n]: directory holding n (flat tree, depth <= 2)
    InitialNode, \* members of Node present on the media when it is bound
    MaxMounts,   \* bound on live ntfs-3g mounts of one volume
    MaxRefCount, \* bound on Volume->RefCount (Delete leaks references)
    None         \* empty slot / no handler in progress

ASSUME /\ Dir \subseteq Node /\ InitialNode \subseteq Node
       /\ Root \notin Node /\ Parent \in [Node -> Dir \cup {Root}]
       /\ MaxMounts \in Nat \ {0} /\ MaxRefCount \in Nat \ {0}

VARIABLES
    vstate,    \* "unbound" | "installed" | "uninstalled" | "freed"
    valid,     \* Volume->Valid
    roMedia,   \* Volume->ReadOnly (BlockIo->Media->ReadOnly)
    refCount,  \* Volume->RefCount; a value < 0 stands for 2^64 + value (UINTN wrap)
    volInfo,   \* Volume->VolInfo # NULL
    mounts,    \* ntfs-3g volumes mounted for this device and not unmounted
    exists,    \* exists[v]: nodes present on the media of v
    roAttr,    \* roAttr[v]: nodes whose FILE_ATTR_READONLY is set
    hs,        \* hs[h]: the NTFS_IFILE in slot h, or None
    lock,      \* NtfsFsLock: "free" | "op" (a handler) | "stop" (NtfsAbandonVolume)
    pending,   \* the handler holding the lock until its Finish, or None
    written,   \* history: volumes whose media a handler has modified
    fault      \* history: memory-safety faults that have occurred

vars == <<vstate, valid, roMedia, refCount, volInfo, mounts, exists, roAttr,
          hs, lock, pending, written, fault>>

Nodes == Node \cup {Root}
ParentOf(n) == IF n = Root THEN Root ELSE Parent[n]
IFile == [vol : Volume, node : Nodes, ro : BOOLEAN, isRoot : BOOLEAN]
Fault == {"UseAfterFree", "NullFileInfo", "NullInode", "NullVolInfo"}

TypeOK ==
    /\ vstate \in [Volume -> {"unbound", "installed", "uninstalled", "freed"}]
    /\ valid \in [Volume -> BOOLEAN] /\ roMedia \in [Volume -> BOOLEAN]
    /\ refCount \in [Volume -> Int] /\ volInfo \in [Volume -> BOOLEAN]
    /\ mounts \in [Volume -> 0..MaxMounts]
    /\ exists \in [Volume -> SUBSET Nodes] /\ roAttr \in [Volume -> SUBSET Node]
    /\ hs \in [Handle -> IFile \cup {None}]
    /\ lock \in {"free", "op", "stop"}
    /\ pending \in [vol : Volume, cleanup : BOOLEAN] \cup {None}
    /\ written \subseteq Volume /\ fault \subseteq Fault

Init ==
    /\ vstate = [v \in Volume |-> "unbound"]
    /\ valid = [v \in Volume |-> FALSE]
    /\ roMedia = [v \in Volume |-> FALSE]
    /\ refCount = [v \in Volume |-> 0]
    /\ volInfo = [v \in Volume |-> FALSE]
    /\ mounts = [v \in Volume |-> 0]
    /\ exists = [v \in Volume |-> InitialNode \cup {Root}]
    /\ roAttr = [v \in Volume |-> {}]
    /\ hs = [h \in Handle |-> None]
    /\ lock = "free" /\ pending = None
    /\ written = {} /\ fault = {}

-----------------------------------------------------------------------------
(* Helpers translated from Misc.c, Open.c and Flush.c.                     *)

\* NtfsAcquireLock: EfiAcquireLock only ASSERTs that the lock is free; a
\* release build takes a lock left "stop" by NtfsAbandonVolume again.
AcquireLock == lock # "op"

\* NtfsAllocateIFile: the slots an AllocateZeroPool may return.
FreeHandle == {h \in Handle : hs[h] = None}

\* A handle whose FileInfo was allocated: NtfsOpenVolume never allocates
\* one for the root handle, every NtfsOFileOpen handle has one.
HasFileInfo(h) == ~hs[h].isRoot

\* A handler that reads through Volume->VolInfo itself (VolInfo->dev,
\* VolInfo->vol_name) dereferences NULL once a failed remount cleared it.
VolFault(v) == IF volInfo[v] THEN {} ELSE {"NullVolInfo"}

\* ntfs_pathname_to_inode(Volume->VolInfo, NULL, IFile->Path) is non-NULL:
\* ntfs-3g refuses a NULL volume with EINVAL, and a node that is gone
\* does not resolve.
Resolves(h) == volInfo[hs[h].vol] /\ hs[h].node \in exists[hs[h].vol]

\* Mutant: ntfs_umount counted as an unmount whether or not VolInfo holds a
\* mount.
CleanupUnmountAlways(v, rc, isValid, vs) ==
    IF rc = 0 /\ ~isValid
    THEN /\ vstate' = [vstate EXCEPT ![v] = "freed"]
         /\ mounts' = [mounts EXCEPT ![v] = @ - 1]
    ELSE /\ vstate' = [vstate EXCEPT ![v] = vs]
         /\ UNCHANGED mounts

\* NtfsCleanupVolume, given the count and validity it reads: unmount
\* VolInfo (ntfs_umount) and free the volume once drained and invalidated;
\* otherwise the volume is left in state vs.
Cleanup(v, rc, isValid, vs) ==
    IF rc = 0 /\ ~isValid
    THEN /\ vstate' = [vstate EXCEPT ![v] = "freed"]
         /\ mounts' = [mounts EXCEPT ![v] = IF volInfo[v] THEN @ - 1 ELSE @]
    ELSE /\ vstate' = [vstate EXCEPT ![v] = vs]
         /\ UNCHANGED mounts

\* A handler that called into ntfs-3g keeps the lock until Finish.
Hold(v, clean) == /\ lock' = "op"
                  /\ pending' = [vol |-> v, cleanup |-> clean]

\* The handle's volume is still allocated (else see UseFreedVolume).
Live(h) == hs[h] # None /\ vstate[hs[h].vol] # "freed"

-----------------------------------------------------------------------------
(* Driver binding (Init.c).                                                *)

\* NtfsAllocateVolume with a device whose boot sector is NTFS and whose
\* protocol installation succeeds; on failure the volume is freed before
\* it is published, which leaves no trace in this state.
AllocateVolume(v) ==
    /\ vstate[v] = "unbound"
    /\ \E ro \in BOOLEAN : roMedia' = [roMedia EXCEPT ![v] = ro]
    /\ vstate' = [vstate EXCEPT ![v] = "installed"]
    /\ valid' = [valid EXCEPT ![v] = TRUE]
    /\ UNCHANGED <<refCount, volInfo, mounts, exists, roAttr, hs, lock,
                   pending, written, fault>>

\* NtfsAbandonVolume, called by the driver's Stop: uninstall the protocol,
\* try the lock, invalidate; clean up only if the try succeeded.  The lock
\* it took is never released.
AbandonVolume(v) ==
    /\ vstate[v] = "installed"
    /\ valid' = [valid EXCEPT ![v] = FALSE]
    /\ IF lock = "free"
       THEN /\ lock' = "stop"
            /\ Cleanup(v, refCount[v], FALSE, "uninstalled")
       ELSE /\ vstate' = [vstate EXCEPT ![v] = "uninstalled"]
            /\ UNCHANGED <<lock, mounts>>
    /\ UNCHANGED <<roMedia, refCount, volInfo, exists, roAttr, hs, pending,
                   written, fault>>

-----------------------------------------------------------------------------
(* EFI_SIMPLE_FILE_SYSTEM_PROTOCOL.OpenVolume (OpenVolume.c).              *)

\* NtfsMount, ntfsfix and the checks after a repaired mount, by effect:
\* "mounted" (first or repaired mount accepted), "failed" (VolInfo = NULL),
\* "rejected" (repaired mount kept in VolInfo but the volume refused).
MountOutcome == {"mounted", "failed", "rejected"}

\* NtfsOpenVolume: mounts again on every call, overwriting VolInfo, then
\* allocates the root handle, which gets no FileInfo and no RefCount.
OpenVolume(v) ==
    /\ vstate[v] = "installed" /\ AcquireLock
    /\ mounts[v] < MaxMounts
    /\ \E m \in MountOutcome :
         /\ volInfo' = [volInfo EXCEPT ![v] = m # "failed"]
         /\ mounts' = [mounts EXCEPT ![v] = IF m = "failed" THEN @ ELSE @ + 1]
         /\ IF m = "mounted" /\ FreeHandle # {}
            THEN \E h \in FreeHandle :
                   hs' = [hs EXCEPT ![h] = [vol |-> v, node |-> Root,
                                            ro |-> FALSE, isRoot |-> TRUE]]
            ELSE UNCHANGED hs
    /\ Hold(v, TRUE)
    /\ UNCHANGED <<vstate, valid, roMedia, refCount, exists, roAttr, written, fault>>

-----------------------------------------------------------------------------
(* EFI_FILE_PROTOCOL handlers (Open.c, Flush.c, Delete.c, ReadWrite.c,     *)
(* Info.c).                                                                *)

OpenModes == {"R", "RW", "RWC"}

\* Mutant: the WRITE_PROTECTED check of NtfsOFileOpen left out.
WriteProtectedIgnored(v, wm) == FALSE

\* NtfsOFileOpen: a write mode on a read-only volume is WRITE_PROTECTED.
WriteProtected(v, wm) == roMedia[v] /\ wm

\* The names NtfsOFileOpen is given from node cur: ".", "..", the children
\* of cur (present or not), and a name NtfsFileNameIsValid rejects.
Names(cur) == {".", "..", "bad"} \cup {c \in Node : Parent[c] = cur}

\* The inode NtfsOFileOpen resolves name to, or None when the lookup fails.
Lookup(v, cur, name) ==
    CASE ~volInfo[v] -> None
      [] name \in {".", ".."} -> IF cur \in exists[v]
                                 THEN IF name = "." THEN cur ELSE ParentOf(cur)
                                 ELSE None
      [] OTHER -> IF name \in exists[v] THEN name ELSE None

\* NtfsOpen / NtfsOFileOpen: write-protect and name checks, resolution of
\* ".", ".." or a child, creation when asked, the read-only check, the new
\* NTFS_IFILE with its FileInfo, and RefCount++; cleanup always follows.
Open(h) ==
    /\ Live(h) /\ AcquireLock /\ refCount[hs[h].vol] < MaxRefCount
    /\ LET v == hs[h].vol
           cur == hs[h].node
       IN \E mode \in OpenModes, name \in Names(cur), roA, ok \in BOOLEAN :
          LET wm == mode # "R"
              found == Lookup(v, cur, name)
              curNi == volInfo[v] /\ cur \in exists[v]
              create == /\ name \in Node /\ found = None /\ mode = "RWC"
                        /\ curNi /\ ok
              ni == IF create THEN name ELSE found
              ro2 == IF create THEN (roAttr[v] \ {name}) \cup (IF roA THEN {name} ELSE {})
                     ELSE roAttr[v]
              denied == ni \in ro2 /\ ni \notin Dir /\ wm
          IN IF WriteProtected(v, wm) \/ name = "bad"
             THEN UNCHANGED <<exists, roAttr, written, fault, hs, refCount>>
             ELSE /\ fault' = fault \cup (IF name = ".." /\ ~curNi
                                           THEN {"NullInode"} ELSE {})
                  /\ exists' = IF create THEN [exists EXCEPT ![v] = @ \cup {name}]
                               ELSE exists
                  /\ roAttr' = [roAttr EXCEPT ![v] = ro2]
                  /\ written' = IF create THEN written \cup {v} ELSE written
                  /\ IF ni # None /\ ~denied /\ FreeHandle # {}
                     THEN /\ \E nh \in FreeHandle :
                               hs' = [hs EXCEPT ![nh] = [vol |-> v, node |-> ni,
                                                  ro |-> ~wm, isRoot |-> FALSE]]
                          /\ refCount' = [refCount EXCEPT ![v] = @ + 1]
                     ELSE UNCHANGED <<hs, refCount>>
    /\ Hold(hs[h].vol, TRUE)
    /\ UNCHANGED <<vstate, valid, roMedia, volInfo, mounts>>

\* NtfsClose: NtfsIFileClose (frees FileInfo, printed first), RefCount--,
\* cleanup and release; no ntfs-3g call, so one atomic step.
Close(h) ==
    /\ Live(h) /\ AcquireLock
    /\ LET v == hs[h].vol
       IN /\ hs' = [hs EXCEPT ![h] = None]
          /\ refCount' = [refCount EXCEPT ![v] = @ - 1]
          /\ fault' = IF HasFileInfo(h) THEN fault ELSE fault \cup {"NullFileInfo"}
          /\ Cleanup(v, refCount[v] - 1, valid[v], vstate[v])
    /\ lock' = "free"
    /\ UNCHANGED <<valid, roMedia, volInfo, exists, roAttr, pending, written>>

\* NtfsDelete: refuse read-only and root handles (both go to Done before
\* FileInfo is read; NtfsIFileClose only FreePools the root's NULL
\* FileInfo), else ntfs_delete of the handle's path, whose NULL inode
\* ntfs_dir_parent_inode dereferences when the path does not resolve;
\* the handle is always closed, RefCount is left as it was.
Delete(h) ==
    /\ Live(h) /\ AcquireLock
    /\ LET v == hs[h].vol
           n == hs[h].node
           attempt == ~hs[h].ro /\ ~hs[h].isRoot
       IN \E ok \in BOOLEAN :
          LET removed == /\ attempt /\ Resolves(h) /\ ok /\ n # Root
                         /\ ~\E c \in exists[v] \cap Node : Parent[c] = n
          IN /\ exists' = IF removed THEN [exists EXCEPT ![v] = @ \ {n}] ELSE exists
             /\ roAttr' = IF removed THEN [roAttr EXCEPT ![v] = @ \ {n}] ELSE roAttr
             /\ written' = IF removed THEN written \cup {v} ELSE written
             /\ fault' = fault
                   \cup (IF attempt /\ ~Resolves(h) THEN {"NullInode"} ELSE {})
    /\ hs' = [hs EXCEPT ![h] = None]
    /\ Hold(hs[h].vol, TRUE)
    /\ UNCHANGED <<vstate, valid, roMedia, refCount, volInfo, mounts>>

IsDirNode(n) == n \in Dir \cup {Root}

\* NtfsIFileAccess, reached through NtfsRead and NtfsWrite.  Before the
\* lock: a read compares Position with FileInfo->FileSize (the root
\* handle has no FileInfo); a write needs a writable volume and handle and
\* a file.  Under the lock: one directory entry, or one
\* ntfs_attr_data_read / ntfs_attr_data_write on the handle's inode (NULL
\* if the node is gone); NtfsCleanupVolume only when the access failed.
IFileAccess(h) ==
    /\ Live(h) /\ AcquireLock
    /\ LET v == hs[h].vol
           isDir == IsDirNode(hs[h].node)
       IN \E io \in {"read", "write"}, ok \in BOOLEAN :
          LET nullIno == ~isDir /\ ~Resolves(h)
              done == ok /\ ~nullIno
          IN /\ io = "write" => ~roMedia[v] /\ ~hs[h].ro /\ ~isDir
             /\ fault' = fault
                   \cup (IF io = "read" /\ ~HasFileInfo(h) THEN {"NullFileInfo"} ELSE {})
                   \cup (IF nullIno THEN {"NullInode"} ELSE {})
             /\ written' = IF io = "write" /\ done THEN written \cup {v} ELSE written
             /\ Hold(v, ~done)
    /\ UNCHANGED <<vstate, valid, roMedia, refCount, volInfo, mounts, exists,
                   roAttr, hs>>

\* NtfsFlush: write-protect checks before the lock, then ntfs_device_sync,
\* whose UEFI implementation always returns 0; cleanup always follows.
Flush(h) ==
    /\ Live(h) /\ AcquireLock
    /\ ~roMedia[hs[h].vol] /\ ~hs[h].ro
    /\ fault' = fault \cup VolFault(hs[h].vol)
    /\ Hold(hs[h].vol, TRUE)
    /\ UNCHANGED <<vstate, valid, roMedia, refCount, volInfo, mounts, exists,
                   roAttr, hs, written>>

InfoRequest == {"getFile", "getFs", "getLabel", "setFile", "setFs", "setLabel"}

\* NtfsSetOrGetInfo.  getFile copies the cached FileInfo (FileInfoSize
\* bytes: none for the root handle); getFs / getLabel read VolInfo; a set
\* on a read-only volume is WRITE_PROTECTED; setFile refuses the root and a
\* bad buffer, then edits the inode in memory without marking it dirty, so
\* nothing reaches the media; setFs / setLabel call ntfs_volume_rename.
\* Cleanup always follows.
SetOrGetInfo(h) ==
    /\ Live(h) /\ AcquireLock
    /\ LET v == hs[h].vol
       IN \E req \in InfoRequest, res \in {"badBuffer", "failed", "done"} :
          LET blocked == req \in {"setFile", "setFs", "setLabel"} /\ roMedia[v]
              reached == CASE req \in {"getFs", "getLabel"} -> TRUE
                           [] req = "setFile" -> ~blocked /\ ~hs[h].isRoot
                                                  /\ res # "badBuffer"
                           [] req \in {"setFs", "setLabel"} -> ~blocked
                                                  /\ res # "badBuffer"
                           [] OTHER -> FALSE
          IN /\ fault' = fault
                   \cup (IF reached /\ req \in {"getFs", "getLabel"} THEN VolFault(v) ELSE {})
                   \cup (IF reached /\ req = "setFile" /\ ~Resolves(h)
                         THEN {"NullInode"} ELSE {})
             /\ written' = IF /\ reached /\ req \in {"setFs", "setLabel"}
                              /\ res = "done" /\ volInfo[v]
                           THEN written \cup {v} ELSE written
    /\ Hold(hs[h].vol, TRUE)
    /\ UNCHANGED <<vstate, valid, roMedia, refCount, volInfo, mounts, exists,
                   roAttr, hs>>

\* The tail every handler above shares once its ntfs-3g calls return:
\* NtfsCleanupVolume (when the handler calls it) and NtfsReleaseLock.
Finish ==
    /\ pending # None
    /\ IF pending.cleanup
       THEN Cleanup(pending.vol, refCount[pending.vol], valid[pending.vol],
                    vstate[pending.vol])
       ELSE UNCHANGED <<vstate, mounts>>
    /\ lock' = "free" /\ pending' = None
    /\ UNCHANGED <<valid, roMedia, refCount, volInfo, exists, roAttr, hs,
                   written, fault>>

\* Any handler called on a handle whose NTFS_VOLUME has been freed reads
\* IFile->Volume->... from freed pool memory.
UseFreedVolume(h) ==
    /\ hs[h] # None /\ vstate[hs[h].vol] = "freed"
    /\ "UseAfterFree" \notin fault
    /\ fault' = fault \cup {"UseAfterFree"}
    /\ UNCHANGED <<vstate, valid, roMedia, refCount, volInfo, mounts, exists,
                   roAttr, hs, lock, pending, written>>

Next ==
    \/ \E v \in Volume : AllocateVolume(v) \/ OpenVolume(v) \/ AbandonVolume(v)
    \/ \E h \in Handle : \/ Open(h) \/ Close(h) \/ Delete(h) \/ IFileAccess(h)
                        \/ Flush(h) \/ SetOrGetInfo(h) \/ UseFreedVolume(h)
    \/ Finish

\* A handler whose ntfs-3g call has returned always goes on to its tail;
\* callers are never obliged to call anything.
Spec == Init /\ [][Next]_vars /\ WF_vars(Finish)

-----------------------------------------------------------------------------
(* Properties.                                                             *)

\* Write protection: no handler ever modifies the media of a volume whose
\* BlockIo reports read-only media.  The checks are spread over Open.c
\* (WRITE_PROTECTED for a write mode, ReadOnly = !WriteMode), Delete.c
\* (only IFile->ReadOnly and IsRoot), ReadWrite.c and Info.c; Delete relies
\* on Open having made every non-root handle of such a volume read-only.
NoWriteToReadOnlyMedia == \A v \in written : ~roMedia[v]

\* Spec 3: the count is decremented exactly once per close of a handle
\* NtfsOFileOpen counted, by NtfsClose and by NtfsDelete, which also
\* closes the handle.  (The root handle is never counted.)
CloseReleasesReference ==
    [][\A h \in Handle :
         (hs[h] # None /\ ~hs[h].isRoot /\ hs'[h] = None)
            => refCount'[hs[h].vol] = refCount[hs[h].vol] - 1]_vars

\* Spec 5: NtfsFsLock is held only while a handler runs; NtfsAbandonVolume,
\* like every handler, must give back the lock it took.
LockFreeBetweenHandlers == pending = None => lock = "free"

\* Spec 1: the device is mounted exactly once, however often OpenVolume is
\* called.
SingleMount == \A v \in Volume : mounts[v] <= 1

\* Spec 4.1: a volume invalidated while a handler held the lock is cleaned
\* up by that handler, so once no handler runs no volume is left
\* invalidated, drained and still allocated.
DeferredCleanupDone ==
    pending = None =>
        \A v \in Volume : ~(vstate[v] = "uninstalled" /\ refCount[v] = 0)

\* Memory safety (spec 3): no handler dereferences a NULL or freed
\* pointer: the FileInfo the root handle never gets, the inode
\* ntfs_pathname_to_inode returns for a file deleted through another
\* handle, the VolInfo a failed remount leaves behind, or the NTFS_VOLUME
\* freed by a Stop while a handle that RefCount does not count (the root
\* handle of NtfsOpenVolume) still points to it.
MemorySafe == fault = {}

====
