---------------------------- MODULE Subsequences ----------------------------
(***************************************************************************)
(* Selections from a sequence: the comprehensions and the loops over a     *)
(* "seen" set that the code is full of.  They are recursive functions, not *)
(* SelectSeq and folds, so that what they return can be proved.            *)
(***************************************************************************)
EXTENDS Integers, FiniteSets, Sequences, SequencesExt

\* The elements of s that are kept, in their order.
Only(s, kept) ==
  LET upTo[n \in 0..Len(s)] ==
        IF n = 0 THEN <<>>
        ELSE IF s[n] \in kept THEN Append(upTo[n - 1], s[n]) ELSE upTo[n - 1]
  IN upTo[Len(s)]

\* The first occurrence of every element, in their order.
Distinct(s) ==
  LET first == {i \in DOMAIN s : \A j \in 1..(i - 1) : s[j] # s[i]}
      at == Only([i \in DOMAIN s |-> i], first)
  IN [k \in DOMAIN at |-> s[at[k]]]

\* The elements of S sorted by a strict total order of them, given as its set of pairs:
\* the first of those left comes next.
Ordered(S, before) ==
  LET First(left) == CHOOSE x \in left : \A y \in left : y # x => <<x, y>> \in before
      Longer(q) == Append(q, First(S \ ToSet(q)))
      upTo[n \in 0..Cardinality(S)] == IF n = 0 THEN <<>> ELSE Longer(upTo[n - 1])
  IN upTo[Cardinality(S)]

=============================================================================
