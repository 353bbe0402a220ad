------------------------------- MODULE NtfsPath -------------------------------
(***************************************************************************)
(* How NtfsOFileOpen (Open.c) turns the CHAR16 name a caller passes into  *)
(* the CHAR8 path it resolves and keeps in NTFS_IFILE.Path, and how        *)
(* NtfsGetDirEntInfo (DirectoryManage.c) turns that path back into the     *)
(* FileName of EFI_FILE_INFO.  Strings are sequences of code units without *)
(* their terminating NUL: CHAR16 units are 0..65535, CHAR8 units 0..255.   *)
(***************************************************************************)
EXTENDS Integers, SequencesExt, NtfsFileName

CONSTANTS
    PATH_MAX,    \* size of NTFS_IFILE.Path and of NtfsOFileOpen's AsciiPath
    PATH_SEP,    \* the separator create_pathname writes (ntfs-3g's PATH_SEP)
    CharSigned   \* whether the build's CHAR8 (C char) is signed

ASSUME PATH_MAX \in Nat \ {0} /\ PATH_SEP \in 1..255 /\ CharSigned \in BOOLEAN

Backslash == 92   \* L'\\', the separator GetFileNameFromPathW looks for

\* (CHAR8) applied to a CHAR16: the conversion keeps the low byte.
LowByte(u) == u % 256

\* Unicode2Ascii: copy (CHAR8) *UnicodeStr++ until the copied byte is 0.
\* A unit whose low byte is 0 (U+0100, U+0200, ...) ends the copy early.
Unicode2Ascii(s) ==
    LET bytes == [i \in 1..Len(s) |-> LowByte(s[i])]
        nul   == SelectInSeq(bytes, LAMBDA b : b = 0)
    IN IF nul = 0 THEN bytes ELSE SubSeq(bytes, 1, nul - 1)

\* (CHAR16) applied to a CHAR8: a signed char above 0x7F sign-extends.
Widen(b) == IF CharSigned /\ b >= 128 THEN b + 65280 ELSE b

\* Ascii2Unicode: widen every byte up to and including the NUL.
Ascii2Unicode(a) == [i \in 1..Len(a) |-> Widen(a[i])]

\* create_pathname with a non-NULL dir: snprintf "%s%c%s" into bufsize
\* bytes, which keeps at most bufsize - 1 of them before the NUL.
create_pathname(dir, name, bufsize) ==
    LET full == dir \o <<PATH_SEP>> \o name
    IN SubSeq(full, 1, IF Len(full) < bufsize THEN Len(full) ELSE bufsize - 1)

\* Mutant: the tail starts at the backslash itself (Tail++ dropped).
GetFileNameFromPathWKeepSep(p) ==
    SubSeq(p, Max({SelectLastInSeq(p, LAMBDA u : u = Backslash), 1}), Len(p))

\* GetFileNameFromPathW: the text after the last '\\', or the whole path.
GetFileNameFromPathW(p) ==
    SubSeq(p, SelectLastInSeq(p, LAMBDA u : u = Backslash) + 1, Len(p))

-----------------------------------------------------------------------------
(* The two halves of NtfsOFileOpen for a name other than "." and "..".     *)

\* The path NtfsOFileOpen resolves, and copies into the new handle's Path:
\* the validated name narrowed by Unicode2Ascii and appended to the parent
\* handle's Path by create_pathname.
OFileOpenPath(parentPath, fileName) ==
    create_pathname(parentPath,
                    Unicode2Ascii(NtfsFileNameIsValid(fileName).out), PATH_MAX)

\* The name ntfs_create is given when that path does not resolve and the
\* caller asked for EFI_FILE_MODE_CREATE: the tail of the CHAR16 name.
OFileCreateName(fileName) ==
    GetFileNameFromPathW(NtfsFileNameIsValid(fileName).out)

\* The FileName NtfsGetDirEntInfo reports for a handle: its Path widened
\* by Ascii2Unicode, then the text after the last '\\'.
DirEntInfoName(path) == GetFileNameFromPathW(Ascii2Unicode(path))

====
