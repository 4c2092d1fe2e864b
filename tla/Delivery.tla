------------------------------ MODULE Delivery ------------------------------
(***************************************************************************)
(* What the session layer of AWP promises its application, with no          *)
(* connection in sight: a world issues a session's statuses one by one, the *)
(* agent processes each of them at most once, and the world gives up only    *)
(* what the agent has processed.                                           *)
(***************************************************************************)
EXTENDS Naturals

CONSTANT MaxSeq   \* the highest status_seq a session assigns

VARIABLES
  issued,     \* the statuses 1..issued exist; 0 if there is no session
  delivered,  \* the statuses the agent processed
  discarded   \* the world no longer has the statuses 1..discarded

vars == <<issued, delivered, discarded>>

NoSession == issued = 0 /\ delivered = {} /\ discarded = 0

Init == NoSession

\* The agent and the world enter a session, which may have issued statuses already.
Begin ==
  /\ NoSession
  /\ issued' \in 1..MaxSeq
  /\ UNCHANGED <<delivered, discarded>>

Issue ==
  /\ issued > 0 /\ issued < MaxSeq
  /\ issued' = issued + 1
  /\ UNCHANGED <<delivered, discarded>>

\* A status takes effect, once.
Deliver ==
  /\ \E k \in (1..issued) \ delivered : delivered' = delivered \union {k}
  /\ UNCHANGED <<issued, discarded>>

\* Everything given up has been processed. (A resumption is an issue as well: the
\* world reports it.)
Discard ==
  /\ \E n \in discarded..issued : 1..n \subseteq delivered /\ discarded' = n
  /\ issued' \in {issued, issued + 1} /\ issued' <= MaxSeq
  /\ UNCHANGED delivered

End == issued' = 0 /\ delivered' = {} /\ discarded' = 0

Next == Begin \/ Issue \/ Deliver \/ Discard \/ End

Spec == Init /\ [][Next]_vars

\* Nothing is lost: what the agent lacks of a session, the world still has.
NothingLost == \A k \in 1..issued : k \in delivered \/ k > discarded
=============================================================================
