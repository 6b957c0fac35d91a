------------------------------ MODULE RowFeed ------------------------------
(***************************************************************************)
(* What tparser promises about the rows of 0_txlogs2: their handlers run   *)
(* in the order of the ids, none is left out, and a row is handled again   *)
(* only if the process died between its handler and the write of its id.   *)
(***************************************************************************)
EXTENDS Naturals, Sequences

VARIABLES
    done,    \* the ids of the handled rows, in the order of the handlers
    saved,   \* 90_tparser_txlogs_offset_id
    redo     \* how often a row may still be handled again

LastDone == IF done = <<>> THEN 0 ELSE done[Len(done)]

FeedInit == done = <<>> /\ saved = 0 /\ redo = 0

\* The handler of the next row runs.
Feed ==
    /\ saved = LastDone
    /\ done' = Append(done, saved + 1)
    /\ UNCHANGED <<saved, redo>>

\* The handler of a row whose id was not written runs again.
FeedAgain ==
    /\ saved # LastDone
    /\ redo > 0
    /\ done' = Append(done, saved + 1)
    /\ redo' = redo - 1
    /\ UNCHANGED saved

Save ==
    /\ saved # LastDone
    /\ saved' = LastDone
    /\ UNCHANGED <<done, redo>>

\* A crash.
Forget ==
    /\ redo' = IF saved # LastDone THEN 1 ELSE 0
    /\ UNCHANGED <<done, saved>>

FeedNext == Feed \/ FeedAgain \/ Save \/ Forget

FeedSpec == FeedInit /\ [][FeedNext]_<<done, saved, redo>>
=============================================================================
