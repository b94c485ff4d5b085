------------------------------- MODULE Outbox -------------------------------
(***************************************************************************)
(* What the agent's local buffer promises, with the protocol that keeps    *)
(* the promise left out: an event saved in the buffer stays there until    *)
(* the server has stored it, or has answered for it without storing it.    *)
(* The reporter of Delivery implements this specification.                 *)
(***************************************************************************)
CONSTANT Ids          \* identifiers of execution events

VARIABLES pending,    \* events held in the buffer
          stored,     \* events the server holds a row of
          refused     \* events of an answered batch that have no row from it

vars == <<pending, stored, refused>>

Init == /\ pending = {}
        /\ stored = {}
        /\ refused = {}

Save(e) == /\ pending' = pending \cup {e}
           /\ UNCHANGED <<stored, refused>>

Store(e) == /\ stored' = stored \cup {e}
            /\ UNCHANGED <<pending, refused>>

Refuse(S) == /\ refused' = refused \cup S
             /\ UNCHANGED <<pending, stored>>

\* The only way out of the buffer.
Forget(e) == /\ e \in stored \cup refused
             /\ pending' = pending \ {e}
             /\ UNCHANGED <<stored, refused>>

Next == \/ \E e \in Ids : Save(e) \/ Store(e) \/ Forget(e)
        \/ \E S \in SUBSET Ids : Refuse(S)

Spec == Init /\ [][Next]_vars
=============================================================================
