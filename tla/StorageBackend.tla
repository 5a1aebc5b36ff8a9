--------------------------- MODULE StorageBackend ---------------------------
(***************************************************************************)
(* What the storage adapters (in-memory, Postgres, DynamoDB) have in       *)
(* common: which of them is in use, the callers of the StorageAdapter      *)
(* trait, and what a read may return.  The slices of the trait             *)
(* (conversations, messages, sessions, checkpoints) share no key and are   *)
(* modules of their own.                                                   *)
(***************************************************************************)
EXTENDS Naturals, FiniteSets

CONSTANTS
    Backends,   \* the adapters to look at, a subset of Adapters
    Callers,    \* tasks that call the adapter, each one call at a time
    Nil         \* None

Adapters == {"memory", "postgres", "dynamo"}

ASSUME BackendsAssumption == Backends \subseteq Adapters

VARIABLE backend    \* the adapter the server was built with

\* The adapters that are another process: a call can fail half way.
Remote == backend # "memory"

\* A DynamoDB read (no call asks for consistent reads, and an index is never
\* consistent) returns the item as it is or as it was when its last write had
\* reached every replica; the other adapters return what is there.
Reads(item, settled) == IF backend = "dynamo" THEN {item, settled} ELSE {item}
=============================================================================
