---------------------------- MODULE Subsequences ----------------------------
(* What is kept of a sequence: the update queue's filters, as a recursive  *)
(* function on its prefixes, so that SequenceLemmas can reason about it.   *)
EXTENDS Integers, Sequences

Elements(s) == {s[i] : i \in DOMAIN s}

\* The elements of s that are in T, in the order of s.
Only(s, T) ==
  LET kept[n \in 0..Len(s)] ==
        IF n = 0 THEN <<>>
        ELSE IF s[n] \in T THEN Append(kept[n - 1], s[n])
        ELSE kept[n - 1]
  IN kept[Len(s)]

\* A sequence of numbers in increasing order, none of them twice.
Increasing(s) == \A i, j \in DOMAIN s : i < j => s[i] < s[j]
=============================================================================
