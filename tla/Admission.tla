------------------------------ MODULE Admission ------------------------------
(***************************************************************************)
(* What the admission gate promises.  The operator starts and ends         *)
(* exhibitions; the booth takes calls only on the strength of news that    *)
(* says so, and never goes back to news older than what it has heard since.*)
(* It may stop taking calls at any moment.                                 *)
(***************************************************************************)
EXTENDS Integers, Sequences

CONSTANT Exhibition  \* what the operator may say of the exhibition

VARIABLES
    news,  \* the operator's successive answers so far; the last is current
    open,  \* the booth takes calls
    basis  \* the newest of the news the booth has heard; 0 before any

vars == <<news, open, basis>>

Init == news \in {<<s>> : s \in Exhibition} /\ open \in BOOLEAN /\ basis = 0

OperatorMoves ==
    /\ \E s \in Exhibition : news' = Append(news, s)
    /\ UNCHANGED <<open, basis>>

\* Calls are taken, or still taken, on the strength of news n.
TakeCalls(n) ==
    /\ n >= basis /\ news[n] # "BetweenExhibitions"
    /\ open' = TRUE /\ basis' = n
    /\ UNCHANGED news

\* No more calls; the booth may have heard something new.
StopCalls ==
    /\ open' = FALSE
    /\ basis' \in basis..Len(news)
    /\ UNCHANGED news

Next == OperatorMoves \/ StopCalls \/ \E n \in DOMAIN news : TakeCalls(n)

Spec == Init /\ [][Next]_vars
=============================================================================
