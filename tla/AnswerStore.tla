----------------------------- MODULE AnswerStore -----------------------------
(***************************************************************************)
(* What the booth promises of a recorded answer once it has been stored:   *)
(* it is kept until the operator has it, whatever fails in between.  An    *)
(* answer the operator has may be kept a while longer, or again.           *)
(***************************************************************************)
CONSTANT Recording

VARIABLES
    kept,      \* the answers in store
    delivered  \* the answers the operator has

vars == <<kept, delivered>>

Init == kept \subseteq Recording /\ delivered = {}

Store(r) == kept' = kept \cup {r} /\ UNCHANGED delivered

Deliver(r) == delivered' = delivered \cup {r} /\ UNCHANGED kept

Forget(r) ==
    /\ r \in delivered
    /\ kept' = kept \ {r} /\ UNCHANGED delivered

\* A restart may find answers again whose removal had not reached the disk.
Recover ==
    /\ \E some \in SUBSET delivered : kept' = kept \cup some
    /\ UNCHANGED delivered

Next == Recover \/ \E r \in Recording : Store(r) \/ Deliver(r) \/ Forget(r)

Spec == Init /\ [][Next]_vars
=============================================================================
