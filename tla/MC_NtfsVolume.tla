--------------------------- MODULE MC_NtfsVolume ---------------------------
(* One volume, three NTFS_IFILE slots, a file and a directory at the root *)
(* and a file inside the directory that does not exist yet.              *)
EXTENDS NtfsVolume

MCParent == [n \in {"f1", "d1", "f2"} |-> IF n = "f2" THEN "d1" ELSE "root"]
====
