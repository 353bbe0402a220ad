-------------------------- MODULE MC_NtfsDirectory --------------------------
(* Directory contents as ntfs_readdir passes them to NtfsFiller.           *)
EXTENDS NtfsDirectory

E(n, t, d, i, b) == [name |-> n, type |-> t, dir |-> d, ino |-> i, u8 |-> b]

\* The root: its self and parent entries, a metafile, a file with a POSIX
\* name, a file with a long name and its DOS alias, a subdirectory.
RootEntries ==
    << E(".", "posix", TRUE, "root", 1), E("..", "posix", TRUE, "root", 2),
       E("$MFT", "both", FALSE, "mft", 4), E("A", "posix", FALSE, "a", 1),
       E("B.txt", "win32", FALSE, "b", 5), E("B~1.TXT", "dos", FALSE, "b", 7),
       E("D", "both", TRUE, "d", 1) >>

\* A user file "$B" whose name is a prefix of the metafile name "$Bitmap".
PrefixEntries == RootEntries \o << E("$B", "posix", FALSE, "ub", 2) >>

\* "Ab" stands for a two-character name whose second character is not
\* ASCII: two UTF-16 units, three UTF-8 bytes.
WideEntries ==
    << E(".", "posix", TRUE, "root", 1), E("..", "posix", TRUE, "root", 2),
       E("Ab", "win32", FALSE, "w", 3), E("A", "posix", FALSE, "a", 1) >>

\* A root whose first listed child is a subdirectory.
SubdirEntries ==
    << E(".", "posix", TRUE, "root", 1), E("..", "posix", TRUE, "root", 2),
       E("D", "both", TRUE, "d", 1), E("A", "posix", FALSE, "a", 1) >>

Inodes(es) == {es[i].ino : i \in 1..Len(es)}
RootPresent == Inodes(RootEntries)
PrefixPresent == Inodes(PrefixEntries)
WidePresent == Inodes(WideEntries)
SubdirPresent == Inodes(SubdirEntries)
====
