--------------------------- MODULE UpdateHistory ---------------------------
(***************************************************************************)
(* What an update queue promises, whatever the lanes of the updates and    *)
(* however often a render is interrupted.  Updates are numbered in the     *)
(* order in which they were made.  A commit adds some of them to the       *)
(* screen, never takes one off, and the screen always shows its updates    *)
(* in the order in which they were made, not in the order in which they    *)
(* were committed.  The callback of an update is called once, by the       *)
(* commit that first shows the update.                                     *)
(***************************************************************************)
EXTENDS Subsequences

CONSTANT MaxUpdates   \* bound on the number of updates

VARIABLES made,    \* number of updates made so far
          screen,  \* the updates that the committed state applies
          called   \* the callbacks called, oldest first

vars == <<made, screen, called>>

Id == 1..MaxUpdates

\* The updates of S, oldest first.
InOrder(S) == Only([i \in Id |-> i], S)

Init == made = 0 /\ screen = <<>> /\ called = <<>>

Make == /\ made < MaxUpdates
        /\ made' = made + 1
        /\ UNCHANGED <<screen, called>>

Commit == \E S \in SUBSET (1..made \ Elements(screen)) :
            /\ screen' = InOrder(Elements(screen) \cup S)
            /\ called' = called \o InOrder(S)
            /\ UNCHANGED made

Next == Make \/ Commit

Spec == Init /\ [][Next]_vars
=============================================================================
