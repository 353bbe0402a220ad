---------------------------- MODULE NtfsDirectory ----------------------------
(***************************************************************************)
(* The directory projector of NtfsDxe and the directory read that walks   *)
(* it: one directory handle, opened, read record by record, rewound and   *)
(* closed, while other handles delete children of the directory.         *)
(*                                                                         *)
(* Opening the directory runs NtfsGetDirEntInfo with IsCountDirSize, whose *)
(* ntfs_readdir calls NtfsFiller once per index entry: the filler appends *)
(* one child projection (SubFile) to SubFIleHead and adds its record size *)
(* to FileInfo->FileSize.  A read on the handle walks SubFIleHead to the  *)
(* projection whose cumulative offset equals Position and formats it with *)
(* NtfsGetDirEntInfo(SubFile).                                             *)
(*                                                                         *)
(* A directory entry is a record: its name as ntfs_readdir passes it      *)
(* (name_len = Len(name) UTF-16 units), its name type, whether it is a     *)
(* directory, the inode it names, and u8, the length in bytes of the      *)
(* UTF-8 name utils_inode_get_name later builds the path from.            *)
(***************************************************************************)
EXTENDS Integers, Sequences, SequencesExt

CONSTANTS
    Entries,       \* what ntfs_readdir passes to NtfsFiller, in index order
    Present0,      \* inodes present when the model starts
    FillerMayFail, \* NtfsAllocateIFile / ntfs_inode_open in NtfsFiller may fail
    BufferSizes    \* *BufferSize values a caller passes to Read

NameType == {"posix", "win32", "dos", "both"}
Entry == [name : STRING, type : NameType, dir : BOOLEAN, ino : STRING,
          u8 : Nat]

ASSUME /\ Entries \in Seq(Entry) /\ Present0 \subseteq {e.ino : e \in Range(Entries)}
       /\ FillerMayFail \in BOOLEAN /\ BufferSizes \subseteq Nat

\* SIZE_OF_EFI_FILE_INFO: OFFSET_OF (EFI_FILE_INFO, FileName).
SIZE_OF_EFI_FILE_INFO == 80

\* The ESTR table of NtfsFiller.
ESTR == << "$MFT", "$MFTMirr", "$LogFile", "$Volume", "$AttrDef",
           "root directory", "$Bitmap", "$Boot", "$BadClus", "$Secure",
           "$UpCase", "$Extend", ".." >>

VARIABLES
    present,   \* inodes on the media (others are deleted)
    isOpen,    \* the directory handle is open
    list,      \* SubFIleHead: the child projections, in insertion order
    fileSize,  \* FileInfo->FileSize of the directory handle
    position,  \* IFile->Position
    snapshot,  \* history: the names a listing should return, fixed at open
    listed,    \* history: the names the reads returned since the last rewind
    eof,       \* history: the last read returned the end-of-listing sentinel
    fault      \* history: NULL pointers dereferenced

vars == <<present, isOpen, list, fileSize, position, snapshot, listed, eof,
          fault>>

SubFileRec == [name : STRING, dir : BOOLEAN, ino : STRING, size : Nat, u8 : Nat]

TypeOK ==
    /\ present \subseteq {e.ino : e \in Range(Entries)}
    /\ isOpen \in BOOLEAN /\ list \in Seq(SubFileRec)
    /\ fileSize \in Nat /\ position \in 0..fileSize
    /\ snapshot \in Seq(STRING) /\ listed \in Seq(STRING) /\ eof \in BOOLEAN
    /\ fault \subseteq {"NullFileInfo", "NullInode"}

Init ==
    /\ present = Present0 /\ isOpen = FALSE /\ list = <<>>
    /\ fileSize = 0 /\ position = 0
    /\ snapshot = <<>> /\ listed = <<>> /\ eof = FALSE /\ fault = {}

-----------------------------------------------------------------------------
(* NtfsFiller (DirectoryManage.c).                                         *)

\* StrnCmp (name, ESTR[i], name_len) == 0: the first name_len characters
\* agree, and ESTR[i] is at least that long, i.e. name is a prefix of it.
Reserved(name) == \E i \in 1..Len(ESTR) : IsPrefix(name, ESTR[i])

\* Mutant: the FILE_NAME_DOS check of NtfsFiller left out.
SkipKeepsDos(e) == Reserved(e.name)

\* The entries NtfsFiller returns 0 for without projecting them.
Skip(e) == Reserved(e.name) \/ e.type = "dos"

\* The projection NtfsFiller appends: path of the inode, IsDir from
\* dt_type, FileInfoSize = SIZE_OF_EFI_FILE_INFO + (name_len + 1) * 2.
SubFileOf(e) == [name |-> e.name, dir |-> e.dir, ino |-> e.ino,
                 size |-> SIZE_OF_EFI_FILE_INFO + (Len(e.name) + 1) * 2,
                 u8 |-> e.u8]

\* Mutant: the projection linked at the head of SubFIleHead.
FillerAtHead(acc, e) == IF Skip(e) THEN acc ELSE <<SubFileOf(e)>> \o acc

Filler(acc, e) == IF Skip(e) THEN acc ELSE Append(acc, SubFileOf(e))

\* ntfs_readdir of the directory: the entries whose inode is present.
Readdir == SelectSeq(Entries, LAMBDA e : e.ino \in present)

\* Where the enumeration ends: after the last entry, or at the first
\* projected entry whose NtfsAllocateIFile or ntfs_inode_open fails (the
\* filler returns -1 and ntfs_readdir stops).
FillStops ==
    {Len(Readdir) + 1}
      \cup (IF FillerMayFail THEN {i \in 1..Len(Readdir) : ~Skip(Readdir[i])}
            ELSE {})

\* What spec 4.3 says a listing shows: no metafile, no "..", no DOS alias,
\* and not the directory itself.
Visible(e) == e.type # "dos" /\ e.name \notin Range(ESTR) \cup {"."}

NamesOf(s) == [i \in 1..Len(s) |-> s[i].name]

\* Sum of the record sizes of the first k projections.
PrefixSize(k) == FoldLeft(LAMBDA acc, s : acc + s.size, 0, SubSeq(list, 1, k))

-----------------------------------------------------------------------------
(* Reading a projection: NtfsGetDirEntInfo (SubFile, ..., FALSE).          *)

\* Mutant: StrSize taken without the terminating NUL.
ResultSizeNoTerminator(sub) == SIZE_OF_EFI_FILE_INFO + sub.u8 * 2

\* ResultSize: the name comes from the SubFile's path, a UTF-8 string that
\* Ascii2Unicode widens byte by byte, so StrSize is (u8 + 1) * 2.
ResultSize(sub) == SIZE_OF_EFI_FILE_INFO + (sub.u8 + 1) * 2

-----------------------------------------------------------------------------
(* Actions.                                                                *)

\* NtfsOFileOpen of the directory: NtfsAllocateIFile (Position 0, empty
\* SubFIleHead), then NtfsGetDirEntInfo with IsCountDirSize, which sets
\* FileInfo->FileSize to 0 and runs ntfs_readdir with NtfsFiller.
OpenDir ==
    /\ ~isOpen
    /\ \E stop \in FillStops :
         LET l == FoldLeft(Filler, <<>>, SubSeq(Readdir, 1, stop - 1))
         IN /\ list' = l
            /\ fileSize' = FoldLeft(LAMBDA acc, s : acc + s.size, 0, l)
    /\ snapshot' = NamesOf(SelectSeq(Readdir, Visible))
    /\ isOpen' = TRUE /\ position' = 0 /\ listed' = <<>> /\ eof' = FALSE
    /\ UNCHANGED <<present, fault>>

\* Mutant: *BufferSize not cleared at the end of the listing, so the
\* cursor advances by the caller's buffer size.
EndOfListingKeepsSize(bs) ==
    /\ eof' = TRUE /\ position' = position + bs
    /\ UNCHANGED <<listed, fault>>

\* End of listing: *BufferSize = 0, EFI_SUCCESS, Position += 0.
EndOfListing(bs) ==
    /\ eof' = TRUE
    /\ UNCHANGED <<position, listed, fault>>

\* NtfsRead of the directory handle (NtfsIFileAccess, ReadData, IsDir).
ReadDir ==
    /\ isOpen
    /\ position <= fileSize
    /\ \E bs \in BufferSizes :
         LET k == Min({i \in 1..(Len(list) + 1) :
                            i > Len(list) \/ PrefixSize(i - 1) = position})
         IN IF PrefixSize(k - 1) = fileSize
            THEN EndOfListing(bs)
            ELSE LET sub == list[k]
                 IN IF bs < ResultSize(sub)
                    THEN UNCHANGED <<position, listed, eof, fault>>
                    ELSE /\ position' = position + ResultSize(sub)
                         /\ listed' = Append(listed, sub.name)
                         /\ eof' = FALSE
                         /\ fault' = fault
                              \cup (IF sub.ino \notin present THEN {"NullInode"} ELSE {})
                              \cup (IF sub.dir THEN {"NullFileInfo"} ELSE {})
    /\ UNCHANGED <<present, isOpen, list, fileSize, snapshot>>

\* NtfsSetPosition (FHand, 0) on the directory: the only position a
\* directory accepts.
Rewind ==
    /\ isOpen
    /\ position' = 0 /\ listed' = <<>> /\ eof' = FALSE
    /\ UNCHANGED <<present, isOpen, list, fileSize, snapshot, fault>>

\* NtfsClose: NtfsIFileClose frees the projections with the handle.
CloseDir ==
    /\ isOpen
    /\ isOpen' = FALSE /\ list' = <<>> /\ fileSize' = 0 /\ position' = 0
    /\ UNCHANGED <<present, snapshot, listed, eof, fault>>

\* NtfsDelete of a child through another handle: ntfs_delete removes the
\* inode with all its names; the metafiles and "."/".." are never deleted.
DeleteChild ==
    \E e \in Range(Entries) :
       /\ e.ino \in present /\ Visible(e)
       /\ present' = present \ {e.ino}
       /\ UNCHANGED <<isOpen, list, fileSize, position, snapshot, listed, eof,
                      fault>>

Next == OpenDir \/ ReadDir \/ Rewind \/ CloseDir \/ DeleteChild

Spec == Init /\ [][Next]_vars

-----------------------------------------------------------------------------
(* Properties.                                                             *)

\* Spec 8 (listing completeness) and 4.3: the reads of one pass return the
\* visible entries present at open (no metafile, no DOS alias, no "." or
\* ".."), in ntfs_readdir order, each once; once the end sentinel is
\* returned, all of them have been.
ListingFaithful ==
    /\ IsPrefix(listed, snapshot)
    /\ eof => listed = snapshot

\* The refinement mapping onto DirListing: the directory's entries are the
\* visible names ntfs_readdir passes for the present inodes, the listing
\* fixed at open is the names of the projections on SubFIleHead, and the
\* entries returned so far are the projections before the cursor, i.e.
\* the k with PrefixSize(k) = Position.  A cursor inside a record maps to
\* a sequence longer than any listing, which no DirListing step reaches.
VisibleNames(p) ==
    NamesOf(SelectSeq(SelectSeq(Entries, LAMBDA e : e.ino \in p), Visible))

ReturnedNames ==
    IF \E k \in 0..Len(list) : PrefixSize(k) = position
    THEN NamesOf(SubSeq(list, 1, CHOOSE k \in 0..Len(list) : PrefixSize(k) = position))
    ELSE [i \in 1..(Len(list) + 1) |-> "?"]

Listing == INSTANCE DirListing
             WITH Dirents0 <- VisibleNames(Present0), dirents <- VisibleNames(present), open <- isOpen,
                  snap <- NamesOf(list), returned <- ReturnedNames, ended <- eof

\* Spec 3, 4.3 and 8 as one promise: the directory handle implements
\* DirListing.  Opening fixes the visible entries present (NtfsFiller's
\* filters and ntfs_readdir order), each read of SubFIleHead at the cursor
\* returns the next of them, the end sentinel comes exactly after the
\* last, SetPosition(0) restarts, and deletes through other handles leave
\* the projections alone.
ListingRefinement == Listing!Spec

\* Spec 3: a directory cursor is 0 or the cumulative size of a prefix of
\* the projections, i.e. reads never stop inside a record.
PositionAligned == \E k \in 0..Len(list) : position = PrefixSize(k)

\* Spec 3 (memory safety) for directory reads: formatting the entry at the
\* cursor never dereferences a NULL pointer: not the inode
\* ntfs_pathname_to_inode returns for a child deleted through another
\* handle since the open, nor the FileInfo of a child directory's SubFile,
\* which NtfsFiller takes from NtfsAllocateIFile without ever allocating.
DirMemorySafe == fault = {}

====
