--------------------------- MODULE BlockingBridge ---------------------------
(***************************************************************************)
(* run_blocking, the bridge from the synchronous store traits (admin       *)
(* stores, knowledge base, checkpoints) to their asynchronous clients: the *)
(* work is spawned onto the runtime, a thread of its own joins it, and the *)
(* caller waits on a channel.  The worker a caller runs on is not given    *)
(* back to the scheduler while it waits, and nothing bounds the callers.   *)
(***************************************************************************)
EXTENDS Naturals, FiniteSets

CONSTANTS
    Callers,    \* tasks of the runtime that call a synchronous store method
    Workers,    \* how many worker threads the runtime has
    Placements  \* where a spawned task may be put: "queue", from which any
                \* worker takes it, or "slot", the LIFO slot of the spawning
                \* worker, from which most versions of tokio let no other take

VARIABLE bridge     \* where the call of each task is

\* A task inside the call keeps its worker in rx.recv().
Inside == {c \in Callers : bridge[c] # "outside"}
WorkerFree == Cardinality(Inside) < Workers

BridgeInit == bridge = [c \in Callers |-> "outside"]

Advance(c, from, to) ==
    /\ bridge[c] = from
    /\ bridge' = [bridge EXCEPT ![c] = to]

\* A worker runs the task: it spawns the future and blocks.
BridgeCall(c) == WorkerFree /\ \E to \in Placements : Advance(c, "outside", to)

\* A free worker polls the future, which waits for its connection or answer;
\* one in the slot of a worker that is blocked is not polled.
PollFirst(c) == WorkerFree /\ Advance(c, "queue", "io")

\* The answer arrives at a worker that looks after I/O and wakes the future.
IoReady(c) == WorkerFree /\ Advance(c, "io", "woken")

\* A free worker polls it to the end.
PollAgain(c) == WorkerFree /\ Advance(c, "woken", "joined")

\* The thread that joins the future sends the result, and the caller goes on.
BridgeReturn(c) == Advance(c, "joined", "outside")

BridgeStep(c) == PollFirst(c) \/ IoReady(c) \/ PollAgain(c) \/ BridgeReturn(c)
BridgeNext == \E c \in Callers : BridgeCall(c) \/ BridgeStep(c)

\* A free worker gets round to every task that can run, and every answer arrives.
BridgeSpec ==
    BridgeInit /\ [][BridgeNext]_bridge /\ \A c \in Callers : WF_bridge(BridgeStep(c))

\* Every call returns: the callers do not "starve the scheduler" (run_blocking
\* of PgKnowledgeBase), "whether the caller is on a worker or a plain OS thread"
\* (run_blocking of the admin stores).
CallsReturn == \A c \in Callers : bridge[c] # "outside" ~> bridge[c] = "outside"
=============================================================================
