------------------------------ MODULE NtfsDevice ------------------------------
(***************************************************************************)
(* ntfs_device_uefi_io_ops (uefi_io.c), the device operations ntfs-3g     *)
(* calls to reach the disk.  Of them only seek keeps state (the byte      *)
(* position NTFS_VOLUME.Pos) and decides anything; pread and pwrite pass  *)
(* one EFI_DISK_IO call through, and open, close, read, write, sync and   *)
(* stat return 0.  s64 is kept as a two's-complement integer of S64Bits   *)
(* bits, so the sums seek computes wrap the way a 64-bit build's do.      *)
(***************************************************************************)
EXTENDS Integers

CONSTANT S64Bits   \* the width s64 is modelled with (64 in the build)

ASSUME S64Bits \in Nat /\ S64Bits >= 2

\* An integer reduced to s64: the value two's-complement arithmetic keeps.
S64(x) ==
    LET m == 2 ^ S64Bits
        r == x % m
    IN IF r >= m \div 2 THEN r - m ELSE r

SEEK_SET == 0
SEEK_CUR == 1
SEEK_END == 2

\* The media a volume sits on: BlockIo->Media->LastBlock and BlockSize.
\* part_length is their product, taken as s64: the last LBA times the
\* block size, which is one block less than the media holds.
PartLength(media) == S64(media.LastBlock * media.BlockSize)

\* Mutant: the abs_ofs < 0 half of the range check dropped.
SeekNoLowerBound(pos, media, offset, whence) ==
    LET pl     == PartLength(media)
        absOfs == CASE whence = SEEK_SET -> offset
                    [] whence = SEEK_CUR -> S64(pos + offset)
                    [] OTHER             -> S64(pl + offset)
    IN IF whence = SEEK_END /\ pl = -1
         THEN [ret |-> -1, pos |-> pos, errno |-> "EOPNOTSUPP"]
       ELSE IF whence \notin {SEEK_SET, SEEK_CUR, SEEK_END}
         THEN [ret |-> -1, pos |-> pos, errno |-> "EINVAL"]
       ELSE IF absOfs > pl
         THEN [ret |-> -1, pos |-> pos, errno |-> "EINVAL"]
       ELSE [ret |-> absOfs, pos |-> absOfs, errno |-> "none"]

\* ntfs_device_uefi_seek from Volume->Pos = pos: the anchor by whence
\* (EOPNOTSUPP for SEEK_END when part_length is -1, EINVAL for any other
\* whence), then EINVAL unless 0 <= abs_ofs <= part_length, else the new
\* Pos, which is also returned.
ntfs_device_uefi_seek(pos, media, offset, whence) ==
    LET pl     == PartLength(media)
        absOfs == CASE whence = SEEK_SET -> offset
                    [] whence = SEEK_CUR -> S64(pos + offset)
                    [] OTHER             -> S64(pl + offset)
    IN IF whence = SEEK_END /\ pl = -1
         THEN [ret |-> -1, pos |-> pos, errno |-> "EOPNOTSUPP"]
       ELSE IF whence \notin {SEEK_SET, SEEK_CUR, SEEK_END}
         THEN [ret |-> -1, pos |-> pos, errno |-> "EINVAL"]
       ELSE IF absOfs < 0 \/ absOfs > pl
         THEN [ret |-> -1, pos |-> pos, errno |-> "EINVAL"]
       ELSE [ret |-> absOfs, pos |-> absOfs, errno |-> "none"]

====
