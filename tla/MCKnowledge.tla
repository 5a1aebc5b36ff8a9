---------------------------- MODULE MCKnowledge -----------------------------
(* A small instance of the knowledge base from both sides: either two      *)
(* overlapping index runs fill it from a file and an issue, or a turn      *)
(* reads two or three documents of four kinds, with two requesters, one    *)
(* ingest and one search.  The sides share no state, so a behaviour        *)
(* exercises one of them.                                                  *)
EXTENDS Indexing, Retrieval, TLC

CONSTANTS f1, r1, r2, i1, i2

VARIABLE side   \* which side is exercised

Revision(keyword, cosine, acl, sets, boost) ==
    [keyword |-> keyword, cosine |-> cosine, acl |-> acl, sets |-> sets,
     boost |-> boost, tags |-> IF boost = Nil THEN {} ELSE {"kind"}]
Acl(public, users, groups) == [public |-> public, users |-> users, groups |-> groups]

\* Unstamped, private to a user, private to a group, public and boosted.
Unstamped == Revision(2, 2, Nil, {}, Nil)
OfAnn == Revision(3, 1, Acl(FALSE, {"ann"}, {}), {"set"}, -1)
OfDev == Revision(1, 3, Acl(FALSE, {}, {"dev"}), {"set"}, Nil)
Open == Revision(1, 1, Acl(TRUE, {}, {}), {"set"}, 3)
SomeRevisions == {Unstamped, OfAnn, OfDev, Open}

\* A document that may be new, one that is private, one for everybody.
SomeCorpora ==
    {g \in [Docs -> {<<>>} \cup {<<rev>> : rev \in SomeRevisions}] :
        /\ g[1] \in {<<>>, <<OfAnn>>, <<Open>>}
        /\ g[2] \in {<<OfAnn>>, <<OfDev>>}
        /\ g[3] \in {<<>>, <<Unstamped>>}}

\* The rerank stage does not depend on the reader before it.
SomeSetups ==
    [layer : Layers, mode : {"off"}, keyed : {FALSE}]
      \cup [layer : {"acl"}, mode : {"gateway"}, keyed : BOOLEAN]

SomeContexts == {[user |-> "ann", groups |-> {}], [user |-> Nil, groups |-> {"dev"}]}
SomeFilters == {[sets |-> Nil, eq |-> {}], [sets |-> {"set"}, eq |-> {}],
                [sets |-> Nil, eq |-> {"kind"}]}
SomeArgs == {Nil, 0, 9}

\* The side that is not exercised stays in one of its initial states.
KnowledgeInit ==
    /\ side \in {"indexing", "retrieval"}
    /\ Init /\ RetrievalInit
    /\ side = "retrieval" => sharing = "own"
    /\ side = "indexing" =>
         /\ layer = "dynamo"
         /\ as.ctx = CHOOSE c \in Contexts : TRUE
         /\ given = CHOOSE g \in Corpora : TRUE

KnowledgeNext ==
    /\ UNCHANGED side
    /\ \/ side = "indexing" /\ Next /\ UNCHANGED retrievalVars
       \/ side = "retrieval" /\ RetrievalNext /\ UNCHANGED vars

KnowledgeSpec == KnowledgeInit /\ [][KnowledgeNext]_<<side, vars, retrievalVars>>

RunSymmetry == Permutations(Runs)
=============================================================================
