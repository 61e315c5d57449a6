--------------------------- MODULE SequenceReader ---------------------------
(* What a worker of the updates engine promises, without how it does it: it   *)
(* reads a numbered sequence of items, may settle them in any order and more  *)
(* than once, but stands behind an item only when that is settled, saves no   *)
(* other position than the one it moves to, and goes on from the saved one    *)
(* after a crash.  Or it leaves the sequence for good.  A reader of Spec only *)
(* moves forward; one of RepeatingSpec may also go back and read again.       *)
EXTENDS Integers

CONSTANTS
    Items,      \* what there is to read; i.end is the position behind i
    Beginning   \* where the reader begins

Left == -1

VARIABLES
    position,  \* where the reader is
    saved,     \* where it would go on, or Left
    settled    \* the items that have been dealt with

reader == <<position, saved, settled>>

Init == position = Beginning /\ saved = Beginning /\ settled = {}

\* What is dealt with stays so.
Grow == settled \subseteq settled' /\ settled' \subseteq Items

\* Items are dealt with ahead of the position.
Settle == Grow /\ UNCHANGED <<position, saved>>

\* The reader moves, and saves its new position or not.  One that has left saves
\* nothing, and does not even move once it has been down.
Move ==
    /\ position # Left
    /\ saved' = saved \/ (saved # Left /\ saved' = position')
    /\ Grow /\ \A i \in Items : i.end <= position' => i \in settled'

Advance == Move /\ position' >= position

Leave == saved' = Left /\ UNCHANGED <<position, settled>>

\* The reader goes down: the position is lost.
Resume == position' = saved /\ UNCHANGED <<saved, settled>>

Next == Settle \/ Advance \/ Leave \/ Resume

Spec == Init /\ [][Next]_reader

RepeatingSpec == Init /\ [][Next \/ Move]_reader
=============================================================================
