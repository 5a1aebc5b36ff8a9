------------------------------ MODULE Sorting -------------------------------
(***************************************************************************)
(* The standard library's sorting and filtering of lists.  The community   *)
(* modules' SortSeq and SelectSeq take operators, which cannot be reasoned *)
(* about here: these take sets and functions.                              *)
(***************************************************************************)
EXTENDS Integers, FiniteSets, Sequences, SequencesExt

\* The elements of a finite set in the order in which earlier[x] is the set of
\* those before x.
Listing(S, earlier) ==
    [k \in 1 .. Cardinality(S) |-> CHOOSE x \in S : Cardinality(earlier[x]) = k - 1]

Ascending(T) == Listing(T, [i \in T |-> {j \in T : j < i}])

\* filter: the elements at a set of positions.
At(s, positions) ==
    LET order == Ascending(positions) IN [k \in DOMAIN order |-> s[order[k]]]

\* sort_by, which is stable: by the score of a position, best first, ties as
\* they were.
Better(score, S) ==
    [i \in S |-> {j \in S : score[j] > score[i] \/ (score[j] = score[i] /\ j < i)}]
StableSort(s, score) ==
    LET order == Listing(DOMAIN s, Better(score, DOMAIN s)) IN [k \in DOMAIN s |-> s[order[k]]]

\* truncate.
Take(s, n) == SubSeq(s, 1, IF n < Len(s) THEN n ELSE Len(s))
=============================================================================
