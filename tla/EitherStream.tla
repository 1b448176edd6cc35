--------------------------- MODULE EitherStream ---------------------------
(***************************************************************************)
(* What HeimStreamExt::choose_chain promises its caller, with nothing      *)
(* about how: the resulting stream yields, in order and without gaps, the  *)
(* items of the chosen stream and then says that it is over.  The chosen   *)
(* stream is the first one if it has any item at all, the second otherwise.*)
(***************************************************************************)
EXTENDS Naturals, Sequences

CONSTANT Streams            \* what a source may be: sequences of items

VARIABLES promised,         \* the items the caller is to receive
          received,         \* the items it has received
          over              \* it has been told that there are no more

vars == <<promised, received, over>>

Choice(f, s) == IF f # <<>> THEN f ELSE s

Init == /\ \E f, s \in Streams : promised = Choice(f, s)
        /\ received = <<>>
        /\ over = FALSE

Yield == /\ ~over
         /\ Len(received) < Len(promised)
         /\ received' = Append(received, promised[Len(received) + 1])
         /\ UNCHANGED <<promised, over>>

End == /\ Len(received) = Len(promised)
       /\ over' = TRUE
       /\ UNCHANGED <<promised, received>>

Next == Yield \/ End

Spec == Init /\ [][Next]_vars

============================================================================
