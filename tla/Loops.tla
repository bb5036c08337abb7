--------------------------------- MODULE Loops ---------------------------------
(***************************************************************************)
(* Loops that append to a list.                                            *)
(***************************************************************************)
EXTENDS Integers, Sequences

\* The lists put end to end, one round of the loop for each. (FlattenSeq of
\* SequencesExt, but for the other definitions of that module, all of which
\* would be in the context of every step of a proof.)
Flatten(lists) ==
  LET joined[n \in 0 .. Len(lists)] == IF n = 0 THEN <<>> ELSE joined[n - 1] \o lists[n]
  IN  joined[Len(lists)]

\* The elements of the list that are wanted, in order. (SelectSeq with a set
\* for the test: the proofs need to look inside.)
Filter(list, wanted) ==
  Flatten([i \in DOMAIN list |-> IF list[i] \in wanted THEN <<list[i]>> ELSE <<>>])

=============================================================================
