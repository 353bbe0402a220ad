------------------------------ MODULE DirListing ------------------------------
(***************************************************************************)
(* What a directory handle promises its caller (spec 3, 4.3, 8): opening   *)
(* it fixes a listing of the directory's visible entries; each read of a  *)
(* big enough buffer returns the next entry of that listing, and a read   *)
(* past the last one returns the end sentinel; SetPosition(0) starts the  *)
(* listing again; deletes through other handles change the directory but *)
(* not a listing already fixed.  Entries are their names.                 *)
(***************************************************************************)
EXTENDS Integers, Sequences, SequencesExt

CONSTANT Dirents0   \* the visible entries when the model starts

VARIABLES
    dirents,   \* the visible entries of the directory, in index order
    open,      \* the handle is open
    snap,      \* the listing fixed at open
    returned,  \* the entries the reads of this pass have returned
    ended      \* the last read returned the end sentinel

vars == <<dirents, open, snap, returned, ended>>

Init ==
    /\ dirents = Dirents0 /\ open = FALSE /\ snap = <<>> /\ returned = <<>>
    /\ ended = FALSE

Open ==
    /\ ~open
    /\ open' = TRUE /\ snap' = dirents /\ returned' = <<>> /\ ended' = FALSE
    /\ UNCHANGED dirents

ReadNext ==
    /\ open /\ Len(returned) < Len(snap)
    /\ returned' = Append(returned, snap[Len(returned) + 1])
    /\ ended' = FALSE
    /\ UNCHANGED <<dirents, open, snap>>

ReadEnd ==
    /\ open /\ returned = snap
    /\ ended' = TRUE
    /\ UNCHANGED <<dirents, open, snap, returned>>

Rewind ==
    /\ open
    /\ returned' = <<>> /\ ended' = FALSE
    /\ UNCHANGED <<dirents, open, snap>>

Close ==
    /\ open
    /\ open' = FALSE /\ snap' = <<>> /\ returned' = <<>>
    /\ UNCHANGED <<dirents, ended>>

Delete ==
    /\ \E i \in 1..Len(dirents) : dirents' = RemoveAt(dirents, i)
    /\ UNCHANGED <<open, snap, returned, ended>>

Next == Open \/ ReadNext \/ ReadEnd \/ Rewind \/ Close \/ Delete

Spec == Init /\ [][Next]_vars

====
