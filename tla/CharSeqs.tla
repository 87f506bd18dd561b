------------------------------ MODULE CharSeqs ------------------------------
(* Strings as sequences of characters.  An index i is that of C: the number   *)
(* of characters before it.                                                   *)
EXTENDS Integers, Sequences, FiniteSets, SequencesExt

NUL == "NUL"
At(s, i) == IF i < Len(s) THEN s[i + 1] ELSE NUL

\* x_substr stops at the end of s.
Sub(s, i, n) == SubSeq(s, i + 1, IF i + n < Len(s) THEN i + n ELSE Len(s))

FirstIn(S, default) ==
    IF S = {} THEN default ELSE CHOOSE i \in S : \A j \in S : i <= j

\* The numbers of a finite set in order.
Ordered(S) ==
    [k \in 1 .. Cardinality(S) |-> CHOOSE m \in S : Cardinality({j \in S : j <= m}) = k]
=============================================================================
