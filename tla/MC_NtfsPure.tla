------------------------------ MODULE MC_NtfsPure ------------------------------
(***************************************************************************)
(* Checks the time codec and the file name check against reference       *)
(* definitions over bounded inputs.  The state is the input under test:   *)
(* t, an EFI_TIME that walks day by day through windows of years around   *)
(* every kind of leap-year boundary (and second by second through the     *)
(* first day), name, a CHAR16 string from a finite set, and dev, the     *)
(* arguments of one call of the device seek.  Each input is its own      *)
(* state, so the invariants below are checked for every one.              *)
(***************************************************************************)
EXTENDS NtfsTime, NtfsFileName, NtfsPath, NtfsDevice, SequencesExt

\* The years walked: the start of the NTFS epoch, the centuries that are
\* not leap years (1700, 1800, 1900, 2100), the 400-year boundary 2000
\* and 2400, the FAT year 1980, and the last years before the 19-bit day
\* count of NtfsTime2EfiTime wraps (on 3036-06-15).
CheckedYears ==
    (1601..1604) \cup (1697..1701) \cup (1797..1801) \cup (1897..1901)
      \cup (1979..1981) \cup (1997..2001) \cup (2097..2101) \cup (2397..2401)
      \cup (3033..3035)

Midnight(y, m, d, ns) == [Year |-> y, Month |-> m, Day |-> d, Hour |-> 0,
                          Minute |-> 0, Second |-> 0, Nanosecond |-> ns]

\* Sub-100 ns parts that the 100 ns tick rounds away.
NsSamples == {0, 99, 100, 999999999}

TimeStarts ==
    {Midnight(y, 1, 1, 0) : y \in {y \in CheckedYears : y - 1 \notin CheckedYears}}
      \cup {Midnight(BASE_YEAR, 1, 1, ns) : ns \in NsSamples}

\* Names: every string of up to two units over the units the check treats
\* differently, every string of up to three over blank, dot, 'A' and '*',
\* and names at the EFI_FILE_STRING_LENGTH limit with blanks around them.
\* The units include ones the CHAR8 narrowing treats differently: U+00E9
\* (a byte above 0x7F), U+0100 (low byte 0) and U+0141 (low byte 'A').
Units == {31, 32, 46, 65, 92, 233, 256, 321} \cup Reserved
As(k) == [i \in 1..k |-> 65]
Blanks(k) == [i \in 1..k |-> Blank]
Names ==
    SeqOf(Units, 2) \cup SeqOf({32, 46, 65, 42}, 3)
      \cup {As(255), As(256), Blanks(2) \o As(255) \o Blanks(3),
            As(254) \o <<63>>, Blanks(1) \o As(256)}

\* Parent handle paths: the root's "\\", a directory below it, and one
\* so deep that only a one-unit name still fits in PATH_MAX.
ParentPaths ==
    {<<Backslash>>, <<Backslash, PATH_SEP, 65>>,
     <<Backslash>> \o [i \in 1..(PATH_MAX - 4) |-> 65]}

\* Seek inputs: media whose part_length is 0 (a single block), 28 and the
\* largest s64 value, every position seek can have left in Pos (0 at
\* allocation, then only accepted targets), every s64 offset, and the
\* three anchors plus one unknown whence.
Media == {[LastBlock |-> 0, BlockSize |-> 4], [LastBlock |-> 7, BlockSize |-> 4],
          [LastBlock |-> 2 ^ (S64Bits - 1) - 1, BlockSize |-> 1]}
S64Values == (-(2 ^ (S64Bits - 1)))..(2 ^ (S64Bits - 1) - 1)
NoSeek == [pos |-> 0, media |-> [LastBlock |-> 0, BlockSize |-> 0],
           offset |-> 0, whence |-> SEEK_SET]
SeekInputs ==
    UNION {{[pos |-> p, media |-> m, offset |-> o, whence |-> w] :
               p \in 0..PartLength(m), o \in S64Values, w \in 0..3} : m \in Media}

-----------------------------------------------------------------------------
(* Reference definitions: the Gregorian calendar, spec 4.1 / 4.5, and a   *)
(* seek over unbounded integers.                                         *)

RefLeap(y) == IF y % 100 = 0 THEN y % 400 = 0 ELSE y % 4 = 0

RefMonthLength(m, y) ==
    CASE m = 2 -> IF RefLeap(y) THEN 29 ELSE 28
      [] m \in {4, 6, 9, 11} -> 30
      [] OTHER -> 31

\* Days from 1601-01-01: closed-form leap count, then the months.
RefDayNumber(x) ==
    LET p == x.Year - 1
        RECURSIVE Months(_)
        Months(m) == IF m = 0 THEN 0 ELSE RefMonthLength(m, x.Year) + Months(m - 1)
    IN 365 * (x.Year - 1601) + (p \div 4 - p \div 100 + p \div 400) - 388
         + Months(x.Month - 1) + x.Day - 1

RefStamp(x) == [days  |-> RefDayNumber(x),
                secs  |-> (x.Hour * 60 + x.Minute) * 60 + x.Second,
                ticks |-> x.Nanosecond \div 100]

RefValid(x) ==
    /\ x.Year >= 1980 /\ x.Month \in 1..12
    /\ x.Day \in 1..RefMonthLength(x.Month, x.Year)
    /\ x.Hour \in 0..23 /\ x.Minute \in 0..59 /\ x.Second \in 0..59
    /\ x.Nanosecond \in 0..999999999

NextDate(x) ==
    IF x.Day < RefMonthLength(x.Month, x.Year) THEN [x EXCEPT !.Day = @ + 1]
    ELSE IF x.Month < 12 THEN [x EXCEPT !.Month = @ + 1, !.Day = 1]
    ELSE [x EXCEPT !.Year = @ + 1, !.Month = 1, !.Day = 1]

NextSecondOfDay(x) ==
    IF x.Second < 59 THEN [x EXCEPT !.Second = @ + 1]
    ELSE IF x.Minute < 59 THEN [x EXCEPT !.Minute = @ + 1, !.Second = 0]
    ELSE [x EXCEPT !.Hour = @ + 1, !.Minute = 0, !.Second = 0]

\* Spec 4.1: strip leading and trailing spaces.
SpecTrim(s) ==
    LET kept == {i \in 1..Len(s) : s[i] # Blank}
    IN IF kept = {} THEN <<>> ELSE SubSeq(s, Min(kept), Max(kept))

\* lseek over the seekable area 0..LastBlock * BlockSize, computed
\* without any width: the target by whence, taken only inside the area.
RefSeek(d) ==
    LET pl     == d.media.LastBlock * d.media.BlockSize
        target == CASE d.whence = SEEK_SET -> d.offset
                    [] d.whence = SEEK_CUR -> d.pos + d.offset
                    [] OTHER               -> pl + d.offset
    IN IF d.whence \in {SEEK_SET, SEEK_CUR, SEEK_END} /\ 0 <= target /\ target <= pl
         THEN [ret |-> target, pos |-> target]
         ELSE [ret |-> -1, pos |-> d.pos]

-----------------------------------------------------------------------------
VARIABLES t, name, dev

Init ==
    \/ t \in TimeStarts /\ name = <<>> /\ dev = NoSeek
    \/ t = Midnight(BASE_YEAR, 1, 1, 0) /\ name \in Names \ {<<>>} /\ dev = NoSeek
    \/ t = Midnight(BASE_YEAR, 1, 1, 0) /\ name = <<>> /\ dev \in SeekInputs

\* Walk to the next day at midnight, within the checked years.
DayStep ==
    /\ name = <<>> /\ dev = NoSeek /\ t.Hour = 0 /\ t.Minute = 0 /\ t.Second = 0
    /\ t.Nanosecond = 0 /\ NextDate(t).Year \in CheckedYears
    /\ t' = NextDate(t) /\ UNCHANGED <<name, dev>>

\* Walk through every second of the first day of the epoch.
SecondStep ==
    /\ name = <<>> /\ dev = NoSeek /\ t.Year = BASE_YEAR /\ t.Month = 1
    /\ t.Day = 1 /\ t.Nanosecond = 0 /\ ~(t.Hour = 23 /\ t.Minute = 59 /\ t.Second = 59)
    /\ t' = NextSecondOfDay(t) /\ UNCHANGED <<name, dev>>

Next == DayStep \/ SecondStep

Spec == Init /\ [][Next]_<<t, name, dev>>

-----------------------------------------------------------------------------
(* Properties.                                                             *)

\* Type: what NtfsTime2EfiTime hands back to GetInfo callers is a calendar
\* value (months 1..12, days 1..31, a time of day), what EfiTime2NtfsTime
\* stores is a stamp, and NtfsFileNameIsValid returns a verdict.
TypeOK ==
    /\ t \in EfiTime /\ EfiTime2NtfsTime(t) \in NtfsStamp
    /\ NtfsTime2EfiTime(EfiTime2NtfsTime(t))
         \in [Year : BASE_YEAR..65535, Month : 1..12, Day : 1..31,
              Hour : 0..23, Minute : 0..59, Second : 0..59,
              Nanosecond : 0..999999900]
    /\ NtfsFileNameIsValid(name).valid \in BOOLEAN
    /\ \A p \in ParentPaths : OFileOpenPath(p, name) \in Seq(0..255)
    /\ ntfs_device_uefi_seek(dev.pos, dev.media, dev.offset, dev.whence).pos \in S64Values

\* Spec 4.5 encode: EfiTime2NtfsTime (the leap-year loop, the month table
\* and the February correction) gives the number of days since 1601-01-01
\* of the Gregorian calendar, the second of the day and the 100 ns tick.
EncodeAsReference == EfiTime2NtfsTime(t) = RefStamp(t)

\* Spec 4.5 decode and the round trip of section 7: NtfsTime2EfiTime (the
\* 400/100/4/1-year reductions and the closed-form month) turns the stamp
\* of a calendar date back into that date, to the 100 ns tick.
DecodeAsReference ==
    NtfsTime2EfiTime(RefStamp(t)) = [t EXCEPT !.Nanosecond = @ - (@ % 100)]

\* Spec 4.5 validity: at the first midnight of each checked year,
\* NtfsIsValidTime accepts exactly the calendar values of that year with
\* in-range fields (year from 1980, the FAT bound the code keeps).
ValidityAsReference ==
    (t.Month = 1 /\ t.Day = 1 /\ t.Hour = 0 /\ t.Second = 0 /\ t.Nanosecond = 0)
      => \A m \in 0..13, d \in 0..32, h \in {23, 24}, s \in {59, 60} :
           LET x == [t EXCEPT !.Month = m, !.Day = d, !.Hour = h, !.Second = s]
           IN NtfsIsValidTime(x) = RefValid(x)

InfoNameRoundTrip ==
    LET r == NtfsFileNameIsValid(name)
    IN (/\ r.valid /\ r.out \notin {<<46>>, <<46, 46>>}
        /\ \A i \in 1..Len(r.out) : r.out[i] < 128 /\ r.out[i] # Backslash)
         => \A p \in ParentPaths :
              Len(p) + 1 + Len(r.out) < PATH_MAX
                => /\ DirEntInfoName(OFileOpenPath(p, name)) = r.out
                   /\ OFileCreateName(name) = r.out

\* Spec 4.2 step 4 (a candidate path is the parent path, a separator and
\* the name): two valid names that differ after trimming never make
\* NtfsOFileOpen resolve the same path under the same parent.
DistinctNamesDistinctPaths ==
    LET r == NtfsFileNameIsValid(name)
    IN (r.valid /\ r.out \notin {<<46>>, <<46, 46>>})
         => \A other \in SeqOf(Units, 2) :
              LET q == NtfsFileNameIsValid(other)
              IN (q.valid /\ q.out \notin {<<46>>, <<46, 46>>} /\ q.out # r.out)
                   => OFileOpenPath(<<Backslash>>, name)
                        # OFileOpenPath(<<Backslash>>, other)

\* ntfs_device_uefi_seek: on a medium whose part_length fits s64, a seek
\* from any position an earlier seek can have left, by any s64 offset, is
\* accepted exactly when the target it names lies in 0..part_length, then
\* returns it and moves Pos there, and otherwise returns -1 and leaves Pos,
\* however Pos + offset or part_length + offset wrap.
SeekAsReference ==
    LET s == ntfs_device_uefi_seek(dev.pos, dev.media, dev.offset, dev.whence)
    IN [ret |-> s.ret, pos |-> s.pos] = RefSeek(dev)

====
