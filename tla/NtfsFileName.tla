----------------------------- MODULE NtfsFileName -----------------------------
(***************************************************************************)
(* NtfsFileNameIsValid (FileName.c), the check NtfsOFileOpen runs on every *)
(* name before resolving it.  A name is the sequence of its CHAR16 code    *)
(* units, without the terminating NUL (so no unit is 0).  The result is    *)
(* the BOOLEAN it returns and the OutputFileName it leaves.                 *)
(***************************************************************************)
EXTENDS Integers, Sequences, FiniteSetsExt

EFI_FILE_STRING_LENGTH == 255

Blank == 32    \* L' '

\* The units the character loop refuses besides those below 0x20:
\* " * / : < > ? |  (the '\\' line is commented out in the code).
Reserved == {34, 42, 47, 58, 60, 62, 63, 124}

\* Trim leading blanks: the index of the first unit that is not L' '.
FirstNonBlank(s) == Min({i \in 1..(Len(s) + 1) : i > Len(s) \/ s[i] # Blank})

\* Trim trailing blanks: the length left after backing over L' ' units.
LastNonBlank(s) == Max({i \in 0..Len(s) : i = 0 \/ s[i] # Blank})

\* The do-while loop tests the unit at OutputFileName before it tests for
\* the end, so an empty output tests its NUL, which is below 0x20.
IllegalUnit(u) == u < 32 \/ u \in Reserved

NtfsFileNameIsValid(in) ==
    LET copied == SubSeq(in, FirstNonBlank(in), Len(in))
        out    == SubSeq(copied, 1, LastNonBlank(copied))
    IN [out   |-> out,
        valid |-> /\ ~(Len(out) > EFI_FILE_STRING_LENGTH)
                  /\ IF out = <<>> THEN ~IllegalUnit(0)
                     ELSE \A i \in 1..Len(out) : ~IllegalUnit(out[i])]

====
