------------------------------ MODULE Storage -------------------------------
(***************************************************************************)
(* The StorageAdapter trait over its three implementations: the slices     *)
(* side by side.  Every key of a slice has the slice's own prefix          *)
(* (dynamodb/keys.rs) or table, so no step of one slice can be seen by     *)
(* another; a behaviour of the model therefore exercises one slice.        *)
(***************************************************************************)
EXTENDS ConversationStore, MessageLog, SessionStore, ParticipantStore

VARIABLE slice      \* the slice this behaviour exercises

Slices == {"conversations", "participants", "messages", "sessions", "checkpoints"}

vars == <<backend, slice, convVars, logVars, sessVars, ckptVars, partVars>>

Init ==
    /\ backend \in Backends
    /\ slice \in Slices
    /\ ConvInit /\ LogInit /\ SessInit /\ CkptInit /\ PartInit

Next ==
    /\ UNCHANGED <<backend, slice>>
    /\ \/ /\ slice = "conversations" /\ ConvNext
          /\ UNCHANGED <<logVars, sessVars, ckptVars, partVars>>
       \/ /\ slice = "messages" /\ LogNext
          /\ UNCHANGED <<convVars, sessVars, ckptVars, partVars>>
       \/ /\ slice = "sessions" /\ SessNext
          /\ UNCHANGED <<convVars, logVars, ckptVars, partVars>>
       \/ /\ slice = "checkpoints" /\ CkptNext
          /\ UNCHANGED <<convVars, logVars, sessVars, partVars>>
       \/ /\ slice = "participants" /\ PartNext
          /\ UNCHANGED <<convVars, logVars, sessVars, ckptVars>>

Spec == Init /\ [][Next]_vars

\* The state of every slice has its type.
TypeOK == ConvTypeOK /\ LogTypeOK /\ SessTypeOK /\ PartTypeOK
=============================================================================
