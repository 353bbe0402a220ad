------------------------------ MODULE NtfsInfo ------------------------------
(***************************************************************************)
(* The GetInfo / SetInfo handlers of Info.c, composed with the file       *)
(* handles of NtfsFileIO: several handles on one file of a writable       *)
(* volume read, write and seek, and any of them asks for or changes the   *)
(* file's EFI_FILE_INFO, the volume's EFI_FILE_SYSTEM_INFO or its label.  *)
(* NtfsSetOrGetInfo runs each request under NtfsFsLock, so each is one    *)
(* step.                                                                   *)
(*                                                                         *)
(* The file's inode is abstracted to what NtfsSetFileInfo reads and       *)
(* writes: ni->flags and the creation and data-change times.  The volume  *)
(* is abstracted to VolInfo->vol_name, the CHAR8 string ntfs-3g keeps and *)
(* Ascii2Unicode widens.                                                   *)
(***************************************************************************)
EXTENDS Integers, Sequences, NtfsTime, NtfsPath

CONSTANTS
    Handle, MaxSize, BufferSizes, Offsets, MaxFileRef, None, \* as in NtfsFileIO
    Labels,       \* NUL-terminated CHAR16 labels a caller passes to SetInfo
    SetTimes,     \* EFI_TIME values a caller passes in EFI_FILE_INFO
    SetAttrs,     \* EFI_FILE_INFO.Attribute values, as sets of bits
    InfoSizes     \* *BufferSize values a caller passes to GetInfo

VARIABLES
    dataSize, present, fileRef, hs,  \* the file and its handles, as in NtfsFileIO
    node,          \* [flags, ctime, mtime] of the inode ntfs-3g hands out
    volName,       \* VolInfo->vol_name, a CHAR8 string
    label,         \* history: the label last set with EFI_SUCCESS
    got,           \* history: the name the last successful volume GetInfo
                   \* returned since that set, or None
    setter         \* history: the handle of the last SetInfo of a FileInfo

IO == INSTANCE NtfsFileIO

vars == <<dataSize, present, fileRef, hs, node, volName, label, got, setter>>
ioVars == <<dataSize, present, fileRef, hs>>

\* EFI_FILE_INFO.Attribute bits (FileInfo.h), the same bits as NTFS's
\* FILE_ATTR_READONLY .. FILE_ATTR_ARCHIVE; bit 8 is not a valid one.
EFI_FILE_DIRECTORY == 16
EFI_FILE_ARCHIVE == 32
EFI_FILE_VALID_ATTR == {1, 2, 4, 16, 32}

\* OFFSET_OF the name in EFI_FILE_SYSTEM_INFO and in
\* EFI_FILE_SYSTEM_VOLUME_LABEL.
SIZE_OF_EFI_FILE_SYSTEM_INFO == 36
SIZE_OF_EFI_FILE_SYSTEM_VOLUME_LABEL == 0

\* An all-zero EFI_TIME: "preserve the original time".
ZeroTime == [Year |-> 0, Month |-> 0, Day |-> 0, Hour |-> 0, Minute |-> 0,
             Second |-> 0, Nanosecond |-> 0]

\* ntfs_volume_rename stores the label converted by ntfs_ucstombs, i.e.
\* UTF-8 (ntfs-3g, outside this repository).
Utf8(s) ==
    LET enc(u) == IF u < 128 THEN <<u>>
                  ELSE IF u < 2048 THEN <<192 + u \div 64, 128 + (u % 64)>>
                  ELSE <<224 + u \div 4096, 128 + ((u \div 64) % 64), 128 + (u % 64)>>
    IN FoldLeft(LAMBDA acc, u : acc \o enc(u), <<>>, s)

\* The information types NtfsSetOrGetInfo recognises by GUID.
InfoType == {"FileInfo", "FileSystemInfo", "FileSystemVolumeLabel"}

TypeOK ==
    /\ IO!TypeOK
    /\ node \in [flags : SUBSET Nat, ctime : NtfsStamp, mtime : NtfsStamp]
    /\ volName \in Seq(0..255) /\ label \in Seq(0..65535)
    /\ got \in Seq(0..65535) \cup {None}
    /\ setter \in Handle \cup {None}

\* The inode of a regular file ntfs_create makes for NtfsOFileOpen with no
\* EFI attribute bits (type S_IFREG): an archive (ntfs-3g's choice),
\* stamped at midnight, 2001-01-01 (the clock is not modelled).
NewInode ==
    LET t0 == EfiTime2NtfsTime([ZeroTime EXCEPT !.Year = 2001, !.Month = 1, !.Day = 1])
    IN [flags |-> {EFI_FILE_ARCHIVE}, ctime |-> t0, mtime |-> t0]

\* A volume named "V" whose file is such an archive that also carries two
\* NTFS-only flags, FILE_ATTR_NORMAL (0x80) and FILE_ATTR_NOT_CONTENT_INDEXED
\* (0x2000).
Init ==
    /\ IO!Init
    /\ node = [NewInode EXCEPT !.flags = {EFI_FILE_ARCHIVE, 128, 8192}]
    /\ volName = <<86>> /\ label = <<86>> /\ got = None /\ setter = None

-----------------------------------------------------------------------------
(* Get requests.                                                           *)

\* The name NtfsGetVolumeInfo and NtfsGetVolumeLabelInfo return, and the
\* size StrSize gives it.
VolumeName == Ascii2Unicode(volName)
NameSize == (Len(VolumeName) + 1) * 2

\* NtfsGetFileInfo copies the FileInfo cached at open (NtfsFileIO keeps
\* its FileSize); it changes nothing modelled here.
GetFileInfo(bs) == UNCHANGED got

\* NtfsGetVolumeInfo / NtfsGetVolumeLabelInfo: widen vol_name, and return
\* it after a header of hdr bytes when *BufferSize >= hdr + NameSize; else
\* EFI_BUFFER_TOO_SMALL.  *BufferSize becomes that size in both cases.
GetVolumeName(hdr, bs) == got' = IF bs >= hdr + NameSize THEN VolumeName ELSE got

GetVolumeInfo(bs) == GetVolumeName(SIZE_OF_EFI_FILE_SYSTEM_INFO, bs)
GetVolumeLabelInfo(bs) == GetVolumeName(SIZE_OF_EFI_FILE_SYSTEM_VOLUME_LABEL, bs)

\* NtfsGetInfo: NtfsSetOrGetInfo with IsSet FALSE, by information type,
\* then NtfsCleanupVolume, which leaves a valid volume alone.
GetInfo(h) ==
    /\ hs[h] # None
    /\ \E type \in InfoType, bs \in InfoSizes :
         CASE type = "FileInfo"       -> GetFileInfo(bs)
           [] type = "FileSystemInfo" -> GetVolumeInfo(bs)
           [] OTHER                   -> GetVolumeLabelInfo(bs)
    /\ UNCHANGED <<node, volName, label, setter>>

-----------------------------------------------------------------------------
(* Set requests.                                                           *)

\* Mutant: the label passed to ntfs_volume_rename one unit short.
SetVolumeEntryShort(name) ==
    \E ok \in BOOLEAN :
       IF ok THEN /\ volName' = Utf8(SubSeq(name, 1, Len(name) - 1))
                  /\ label' = name /\ got' = None
       ELSE UNCHANGED <<volName, label, got>>

\* NtfsSetVolumeEntry: ntfs_volume_rename (VolInfo, Name, StrLen (Name));
\* a failure is EFI_DEVICE_ERROR and leaves the name as it was.
SetVolumeEntry(name) ==
    \E ok \in BOOLEAN :
       IF ok THEN /\ volName' = Utf8(name)
                  /\ label' = name /\ got' = None
       ELSE UNCHANGED <<volName, label, got>>

\* NtfsSetVolumeInfo / NtfsSetVolumeLabelInfo: EFI_BAD_BUFFER_SIZE unless
\* BufferSize holds the header and one CHAR16 and, for EFI_FILE_SYSTEM_INFO,
\* Info->Size <= BufferSize; else NtfsSetVolumeEntry of the label after
\* the header.  The caller's buffer is one byte past the header ("short"),
\* header plus StrSize of the label with Info->Size two bytes more
\* ("oversize"), or exactly that with Info->Size right ("exact").
SetVolumeName(type, hdr) ==
    \E buf \in {"short", "oversize", "exact"} :
       IF buf = "short" \/ (type = "FileSystemInfo" /\ buf = "oversize")
       THEN UNCHANGED <<volName, label, got>>
       ELSE \E l \in Labels : SetVolumeEntry(l)

SetVolumeInfo == SetVolumeName("FileSystemInfo", SIZE_OF_EFI_FILE_SYSTEM_INFO)
SetVolumeLabelInfo ==
    SetVolumeName("FileSystemVolumeLabel", SIZE_OF_EFI_FILE_SYSTEM_VOLUME_LABEL)

\* NtfsIsValidTime and EfiTime2NtfsTime of each time a caller may pass.
ValidTime == [t \in SetTimes |-> NtfsIsValidTime(t)]
NtfsTimeOf == [t \in SetTimes |-> EfiTime2NtfsTime(t)]

\* Mutant: the times written whatever IFile->ReadOnly says.
WritesTimesAlways(h) == TRUE

\* `if (!ReadOnly)': only a handle opened for writing sets the times.
WritesTimes(h) == ~hs[h].ro

\* (UINT8) of a flag word, kept as its set of bits: bits 0x100 and above
\* are cut off.
Uint8Bits(flags) == {b \in flags : b < 256}

\* The inode NtfsSetFileInfo leaves behind for CreateTime ct,
\* ModificationTime mt and Attribute attr, in the code's order: a
\* non-zero CreateTime, then ModificationTime, each refused with
\* EFI_INVALID_PARAMETER when NtfsIsValidTime rejects it and written only
\* when the handle is not ReadOnly; then the attribute bits (invalid ones
\* refused, a change of EFI_FILE_DIRECTORY ACCESS_DENIED), which are set
\* whether or not the handle is ReadOnly, as (UINT8) of the new flag word.
\* An error jumps to Done, after the edits already made.
FileInfoEdit(h, ct, mt, attr) ==
    LET ro      == ~WritesTimes(h)
        ctBad   == ct # ZeroTime /\ ~ValidTime[ct]
        mtBad   == mt # ZeroTime /\ ~ValidTime[mt]
        attrBad == attr \ EFI_FILE_VALID_ATTR # {}
        dirFlip == (EFI_FILE_DIRECTORY \in attr) # (EFI_FILE_DIRECTORY \in node.flags)
        ni1 == IF ct # ZeroTime /\ ~ctBad /\ ~ro
               THEN [node EXCEPT !.ctime = NtfsTimeOf[ct]] ELSE node
        ni2 == IF ~ctBad /\ mt # ZeroTime /\ ~mtBad /\ ~ro
               THEN [ni1 EXCEPT !.mtime = NtfsTimeOf[mt]] ELSE ni1
        status == CASE ctBad \/ mtBad \/ attrBad -> "INVALID_PARAMETER"
                    [] dirFlip                   -> "ACCESS_DENIED"
                    [] OTHER                     -> "SUCCESS"
    IN IF status = "SUCCESS"
       THEN [ni2 EXCEPT !.flags = Uint8Bits((@ \ EFI_FILE_VALID_ATTR) \cup attr)]
       ELSE ni2

\* NtfsSetFileInfo on a file handle (never the root, so never
\* ACCESS_DENIED for IsRoot): EFI_BAD_BUFFER_SIZE for a short buffer,
\* else the edit above on the inode ntfs_pathname_to_inode returns.  Done
\* closes the inode, which nothing marked dirty: whether ntfs-3g keeps the
\* edited inode for later lookups is its cache's choice, so the inode is
\* either the edited one or the one before; nothing reaches the media.  A
\* path that no longer resolves is NtfsVolume's NullInode.
SetFileInfo(h) ==
    /\ present
    /\ node' \in {node} \cup {FileInfoEdit(h, ct, mt, attr) :
                               ct \in SetTimes, mt \in SetTimes, attr \in SetAttrs}
    /\ setter' = IF node' # node THEN h ELSE setter
    /\ UNCHANGED <<volName, label, got>>

\* NtfsSetInfo: NtfsSetOrGetInfo with IsSet TRUE on a writable volume (no
\* EFI_WRITE_PROTECTED), by information type, then NtfsCleanupVolume.
SetInfo(h) ==
    /\ hs[h] # None
    /\ \E type \in InfoType :
         CASE type = "FileInfo"       -> SetFileInfo(h)
           [] type = "FileSystemInfo" -> SetVolumeInfo /\ UNCHANGED <<node, setter>>
           [] OTHER                   -> SetVolumeLabelInfo /\ UNCHANGED <<node, setter>>

-----------------------------------------------------------------------------

InfoNext == \E h \in Handle : GetInfo(h) \/ SetInfo(h)

\* A step of NtfsFileIO; when it created a new file under the path, the
\* inode ntfs-3g hands out from then on is that file's.
IONext ==
    /\ IO!Next
    /\ IF fileRef' # fileRef
       THEN node' = NewInode /\ setter' = None
       ELSE UNCHANGED <<node, setter>>
    /\ UNCHANGED <<volName, label, got>>

Next == IONext \/ (InfoNext /\ UNCHANGED ioVars)

Spec == Init /\ [][Next]_vars

-----------------------------------------------------------------------------
(* Properties.                                                             *)

\* Spec 4.4, as in NtfsFileIO: no handle's cached size runs ahead of the
\* file it opened, with info requests interleaved.
CachedSizeNeverAhead == IO!CachedSizeNeverAhead

\* A 7-bit label set through either SetInfo type comes back from either
\* volume GetInfo, across ntfs_volume_rename's UTF-16 to CHAR8 conversion
\* and Ascii2Unicode's widening back, until the next successful set.
LabelRoundTrip ==
    (got # None /\ \A i \in 1..Len(label) : label[i] < 128) => got = label

\* NtfsSetFileInfo never turns a file into a directory or back, and
\* through a ReadOnly handle never changes a time (the attribute bits it
\* may), whatever it is given and wherever it stops.
SetFileInfoWithinRights ==
    [][node' # node /\ setter' # None =>
         /\ (EFI_FILE_DIRECTORY \in node'.flags) = (EFI_FILE_DIRECTORY \in node.flags)
         /\ hs[setter'].ro => node'.ctime = node.ctime /\ node'.mtime = node.mtime]_vars

====
