------------------------------- MODULE Rerank -------------------------------
(***************************************************************************)
(* The optional rerank stage of knowledge_search, as operators on the      *)
(* candidates (a sequence of distinct hits, upstream order).               *)
(***************************************************************************)
EXTENDS Sorting

\* build_reranker: SMOOTH_AGENT_RERANK and whether a gateway key is set.
BuildReranker(mode, keyed) ==
    CASE mode = "off" -> "none"
      [] mode = "gateway" /\ keyed -> "gateway"
      [] mode = "gateway" /\ ~keyed -> "lexical"
      [] mode = "lexical" -> "lexical"

\* The candidates whose positions are in order, and then the others.
Positions(order, n) ==
    At(order, {k \in DOMAIN order : order[k] \in 1 .. n /\ \A j \in 1 .. k - 1 : order[j] # order[k]})

\* Mutant: candidates that were not scored are dropped.
ReorderScored(order, candidates, topK) ==
    LET scored == Positions(order, Len(candidates))
    IN Take([k \in DOMAIN scored |-> candidates[scored[k]]], topK)

\* GatewayReranker::reorder.  order is what the backend returned: positions by
\* score, which may repeat, be out of range or be too few.
Reorder(order, candidates, topK) ==
    LET n == Len(candidates)
        scored == Positions(order, n)
        rest == Ascending((1 .. n) \ ToSet(scored))
        all == scored \o rest
    IN Take([k \in DOMAIN all |-> candidates[all[k]]], topK)

\* GatewayReranker::rerank: the answers of the backend, and its failure.
GatewayRerank(candidates, topK) ==
    LET n == Len(candidates)
        answers == UNION {[1 .. m -> 1 .. n + 1] : m \in 0 .. n}
    IN {Take(candidates, topK)}
         \cup {Reorder(order, candidates, topK) : order \in answers}

\* LexicalReranker::rerank: best first by a score of its own (score[i] that of
\* the i-th candidate), ties as they were.
LexicalRerank(candidates, topK, score) ==
    Take(StableSort(candidates, score), topK)

\* apply_optional_rerank: the results that the stage may give.
OptionalRerank(reranker, candidates, topK, score) ==
    CASE reranker = "none" -> {Take(candidates, topK)}
      [] reranker = "lexical" -> {LexicalRerank(candidates, topK, score)}
      [] reranker = "gateway" -> GatewayRerank(candidates, topK)
=============================================================================
