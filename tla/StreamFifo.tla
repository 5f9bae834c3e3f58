----------------------------- MODULE StreamFifo -----------------------------
(***************************************************************************)
(* What the stream manager promises its two threads, without slots, blocks *)
(* or wrapping round: "The stream data obeys FIFO rule"                    *)
(* (streamManager.c:449).  It keeps frames in the order of submission and  *)
(* a place among them; the frames behind the place are still to be taken,  *)
(* those before it may be gone back to until newer ones push them out.     *)
(***************************************************************************)
EXTENDS Naturals, Sequences

CONSTANTS
    Frame,
    MaySpoil    \* the frame being worked on may be written over

VARIABLES
    kept,       \* the frames that are kept, oldest first
    place,      \* how many of them have been taken
    taken       \* <<f>> while the decoder works on f, else <<>>

fifoVars == <<kept, place, taken>>

Init == kept = <<>> /\ place = 0 /\ taken = <<>>

\* A frame comes behind the others; it may push out the oldest, which must have
\* been taken.
Put ==
    \E f \in Frame :
        /\ \/ kept' = Append(kept, f) /\ UNCHANGED place
           \/ place > 0 /\ kept' = Append(Tail(kept), f) /\ place' = place - 1
        /\ \/ UNCHANGED taken
           \/ MaySpoil /\ taken # <<>> /\ taken' = <<f>>

Take ==
    /\ place < Len(kept)
    /\ taken' = <<kept[place + 1]>> /\ place' = place + 1
    /\ UNCHANGED kept

Finish == taken' = <<>> /\ UNCHANGED <<kept, place>>

\* The frame being worked on goes back to where it came from.
GiveBack ==
    /\ place > 0 /\ taken = <<kept[place]>>
    /\ taken' = <<>> /\ place' = place - 1
    /\ UNCHANGED kept

\* The next frame is thrown away.
Discard == place < Len(kept) /\ place' = place + 1 /\ UNCHANGED <<kept, taken>>

\* Taking goes on from another place.
Rewind == place' \in 0 .. Len(kept) /\ UNCHANGED <<kept, taken>>

Clear == kept' = <<>> /\ place' = 0 /\ UNCHANGED taken

Next == Put \/ Take \/ Finish \/ GiveBack \/ Discard \/ Rewind \/ Clear

Spec == Init /\ [][Next]_fifoVars
=============================================================================
