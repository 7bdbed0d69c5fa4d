-------------------------------- MODULE Rows --------------------------------
(***************************************************************************)
(* Array.filter and list comprehensions: what a list keeps, in its order.  *)
(* SelectSeq says the same; FlattenSeq has a definition that proofs can    *)
(* unfold.                                                                 *)
(***************************************************************************)
EXTENDS Integers, Sequences
Lists == INSTANCE SequencesExt

\* The rows at the given positions.
Kept(rows, at) ==
  Lists!FlattenSeq([i \in DOMAIN rows |-> IF i \in at THEN <<rows[i]>> ELSE <<>>])

\* No row is repeated.
Once(rows) == \A i, j \in DOMAIN rows : rows[i] = rows[j] => i = j
=============================================================================
