---------------------------- MODULE PositionBook ----------------------------
(***************************************************************************)
(* What the grid engine promises about the positions it has taken over:    *)
(* they enter its book one at a time and leave it one at a time, by a      *)
(* take-profit that earns money.  Nothing else moves, merges, resizes or   *)
(* drops a position; re-centering the grid in particular does not.         *)
(***************************************************************************)
EXTENDS Integers

CONSTANT Position

VARIABLES
  book,       \* how many positions of each kind are held
  lossBooked  \* some position left the book without a profit

bookVars == <<book, lossBooked>>

BookInit == book = [p \in Position |-> 0] /\ lossBooked = FALSE

Open(p)  == book' = [book EXCEPT ![p] = @ + 1] /\ UNCHANGED lossBooked
Close(p) == /\ book[p] > 0
            /\ book' = [book EXCEPT ![p] = @ - 1]
            /\ UNCHANGED lossBooked

BookNext == book' # book /\ \E p \in Position : Open(p) \/ Close(p)
BookSpec == BookInit /\ [][BookNext]_bookVars
=============================================================================
