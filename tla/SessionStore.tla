---------------------------- MODULE SessionStore ----------------------------
(***************************************************************************)
(* One session row and one agent's checkpoints in the storage adapters.    *)
(* update_session is one critical section in memory, one UPDATE in         *)
(* Postgres, and a read through the index followed by a put of the whole   *)
(* item in DynamoDB.  The DynamoDB checkpoint store prunes by listing and  *)
(* then deleting in batches while new checkpoints are saved.               *)
(***************************************************************************)
EXTENDS StorageBackend

CONSTANTS
    Counts,         \* values of token_count
    Iterations,     \* iterations at which a checkpoint is saved
    Keep,           \* prune(keep)
    Batch,          \* requests per BatchWriteItem
    TooLarge        \* iterations whose blob exceeds MAX_INLINE_BLOB

ASSUME SessionAssumption ==
    /\ Iterations \subseteq Nat \ {0}
    /\ Keep \in Nat \ {0}
    /\ Batch \in Nat \ {0}
    /\ TooLarge \subseteq Iterations

VARIABLES
    sess,           \* the session row, Nil before create_session
    sessSettled,
    sessCall,       \* the update each caller is in
    ckpt,           \* the iterations of the stored checkpoints
    ckptSettled,
    pruning         \* the deletions each caller has still to make

sessVars == <<sess, sessSettled, sessCall>>
ckptVars == <<ckpt, ckptSettled, pruning>>

Session == [status : {"active", "ended"}, tokens : Counts \cup {Nil}]
NewSession == [status |-> "active", tokens |-> Nil]

\* The SessionUpdates: the session ends (status and ended_at), or is counted.
\* The fields of an update that are None are left as they are.
Updates == {[ends |-> TRUE, tokens |-> Nil]}
           \cup [ends : {FALSE}, tokens : Counts]

ApplyUpdate(row, u) ==
    [status |-> IF u.ends THEN "ended" ELSE row.status,
     tokens |-> IF u.tokens # Nil THEN u.tokens ELSE row.tokens]

SessIdle == [step |-> "idle", update |-> Nil, row |-> Nil]

SessInit ==
    /\ sess = Nil
    /\ sessSettled = Nil
    /\ sessCall = [c \in Callers |-> SessIdle]

CkptInit ==
    /\ ckpt = {}
    /\ ckptSettled = {}
    /\ pruning = [c \in Callers |-> {}]

-----------------------------------------------------------------------------
(* Sessions *)

CreateSession ==
    /\ sess = Nil
    /\ sess' = NewSession
    /\ UNCHANGED <<sessSettled, sessCall>>

\* In memory and in Postgres (an UPDATE whose SET keeps the fields not given).
UpdateSessionAtOnce(c, u) ==
    /\ backend # "dynamo" /\ sess # Nil
    /\ sess' = ApplyUpdate(sess, u)
    /\ UNCHANGED <<sessSettled, sessCall>>

\* DynamoDB: get_session, and an error when the index does not have it (yet).
UpdateSessionRead(c, u) ==
    /\ backend = "dynamo" /\ sessCall[c].step = "idle"
    /\ \E found \in Reads(sess, sessSettled) \ {Nil} :
         sessCall' = [sessCall EXCEPT ![c] =
             [step |-> "put", update |-> u, row |-> ApplyUpdate(found, u)]]
    /\ UNCHANGED <<sess, sessSettled>>

\* DynamoDB: the item is put as a whole.
UpdateSessionPut(c) ==
    /\ sessCall[c].step = "put"
    /\ sess' = sessCall[c].row
    /\ sessCall' = [sessCall EXCEPT ![c] = SessIdle]
    /\ UNCHANGED sessSettled

SessCallFails(c) ==
    /\ sessCall[c].step = "put"
    /\ sessCall' = [sessCall EXCEPT ![c] = SessIdle]
    /\ UNCHANGED <<sess, sessSettled>>

SessSettle ==
    /\ backend = "dynamo" /\ sessSettled # sess
    /\ sessSettled' = sess
    /\ UNCHANGED <<sess, sessCall>>

SessNext ==
    \/ CreateSession
    \/ \E c \in Callers, u \in Updates :
         UpdateSessionAtOnce(c, u) \/ UpdateSessionRead(c, u)
    \/ \E c \in Callers : UpdateSessionPut(c) \/ SessCallFails(c)
    \/ SessSettle

-----------------------------------------------------------------------------
(* Checkpoints in DynamoDB *)

\* Mutant: the list is read oldest first.
OldestFirst(S) == {i \in S : Cardinality({j \in S : j < i}) < Keep}

\* The sort key is the padded iteration: the items after the newest Keep ones.
Newest(S) == {i \in S : Cardinality({j \in S : j > i}) < Keep}

\* load_latest: the item with the greatest sort key, if any.
LoadLatest(S) == CHOOSE i \in S \cup {0} : \A j \in S : j <= i

\* save: the engine saves at growing iterations; a blob over the limit is refused.
SaveCheckpoint(i) ==
    /\ backend = "dynamo"
    /\ i \notin TooLarge
    /\ \A j \in ckpt : j < i
    /\ ckpt' = ckpt \cup {i}
    /\ UNCHANGED <<ckptSettled, pruning>>

\* prune, first part: list_async, of which a replica may lack recent items (or
\* still have deleted ones).
PruneList(c) ==
    /\ backend = "dynamo" /\ pruning[c] = {}
    /\ \E seen \in {ckptSettled \cup some : some \in SUBSET (ckpt \ ckptSettled)} :
         /\ Cardinality(seen) > Keep
         /\ pruning' = [pruning EXCEPT ![c] = seen \ Newest(seen)]
    /\ UNCHANGED <<ckpt, ckptSettled>>

\* prune, second part: a batch of deletions, in any order; items the service
\* leaves unprocessed are sent again.
PruneBatch(c) ==
    /\ \E gone \in SUBSET pruning[c] :
         /\ gone # {} /\ Cardinality(gone) <= Batch
         /\ ckpt' = ckpt \ gone
         /\ pruning' = [pruning EXCEPT ![c] = @ \ gone]
    /\ UNCHANGED ckptSettled

PruneFails(c) ==
    /\ pruning[c] # {}
    /\ pruning' = [pruning EXCEPT ![c] = {}]
    /\ UNCHANGED <<ckpt, ckptSettled>>

CkptSettle ==
    /\ ckptSettled # ckpt
    /\ ckptSettled' = ckpt
    /\ UNCHANGED <<ckpt, pruning>>

CkptNext ==
    \/ \E i \in Iterations : SaveCheckpoint(i)
    \/ \E c \in Callers : PruneList(c) \/ PruneBatch(c) \/ PruneFails(c)
    \/ CkptSettle

-----------------------------------------------------------------------------
(* Properties *)

SessTypeOK ==
    /\ sess \in Session \cup {Nil}
    /\ sessSettled \in Session \cup {Nil}
    /\ \A c \in Callers : sessCall[c].step \in {"idle", "put"}
    /\ ckpt \subseteq Iterations
    /\ ckptSettled \subseteq Iterations
    /\ pruning \in [Callers -> SUBSET Iterations]

\* A session that has ended stays ended: "None fields are left unchanged"
\* (adapter.rs), so an update of another field never brings the old status
\* back.  The trait asks it of every adapter, and the DynamoDB adapter's header
\* claims "the same observable semantics"; its update_session puts back, as a
\* whole, a row it read before the session ended.
EndedStaysEnded ==
    [][sess # Nil /\ sess.status = "ended" => sess'.status = "ended"]_sess

\* The latest checkpoint is never pruned (the listing may be stale and several
\* prunes and saves may overlap): load_latest never goes back to an older one.
LatestCheckpointStays ==
    [][LoadLatest(ckpt') >= LoadLatest(ckpt)]_ckpt
=============================================================================
