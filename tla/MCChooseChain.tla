--------------------------- MODULE MCChooseChain ---------------------------
(* ChooseChain for TLC: every pair of streams of at most MaxLen items. *)
EXTENDS ChooseChain

CONSTANT MaxLen             \* bound: the length of a source stream

MCStreams == UNION {[1..n -> Item] : n \in 0..MaxLen}

============================================================================
