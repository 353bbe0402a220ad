------------------------------- MODULE MC_NtfsInfo -------------------------------
EXTENDS NtfsInfo, TLC

\* The two handle slots (model values) are interchangeable: no action or
\* property names one.
HandleSymmetry == Permutations(Handle)

At(y, m, d) == [ZeroTime EXCEPT !.Year = y, !.Month = m, !.Day = d]

\* Times in EFI_FILE_INFO: zero (keep), a valid one, and one from 1979
\* that NtfsIsValidTime refuses.
MCSetTimes == {ZeroTime, At(2004, 2, 29), At(1979, 6, 1)}

\* Attributes: none, READ_ONLY with ARCHIVE, DIRECTORY, and bit 8, which
\* EFI_FILE_VALID_ATTR does not allow.
MCSetAttrs == {{}, {1, 32}, {16}, {8}}

\* Labels: two ASCII units, and U+00E9, whose UTF-8 form is two
\* bytes above 0x7F.
MCLabels == {<<65, 66>>, <<233>>}

\* *BufferSize for GetInfo: nothing, exactly a one-unit label, and room
\* for any record.
MCInfoSizes == {0, 4, 128}
====
