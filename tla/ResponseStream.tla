-------------------------- MODULE ResponseStream --------------------------
(***************************************************************************)
(* What the manager promises about responses, whatever goroutines and     *)
(* channels lie between a task and the consumer: a first-in first-out     *)
(* stream that loses nothing while it is open and, when it is closed,     *)
(* at most what came last.                                                *)
(***************************************************************************)
EXTENDS Naturals, Sequences

CONSTANT Response

VARIABLES
  pending,    \* accepted, not yet delivered
  delivered,  \* what the consumer has received
  stage       \* "open", "closing" (may be cut short), "ended" (nothing more accepted)

vars == <<pending, delivered, stage>>

Init ==
  /\ pending = << >>
  /\ delivered = << >>
  /\ stage = "open"

Accept(r) ==
  /\ stage # "ended"
  /\ pending' = Append(pending, r)
  /\ UNCHANGED <<delivered, stage>>

Deliver ==
  /\ pending # << >>
  /\ pending' = Tail(pending)
  /\ delivered' = Append(delivered, Head(pending))
  /\ UNCHANGED stage

BeginClose ==
  /\ stage = "open"
  /\ stage' = "closing"
  /\ UNCHANGED <<pending, delivered>>

(* The stream ends: a suffix of what is pending is lost.                  *)
End ==
  /\ stage = "closing"
  /\ stage' = "ended"
  /\ \E n \in 0..Len(pending) : pending' = SubSeq(pending, 1, n)
  /\ UNCHANGED delivered

Next ==
  \/ \E r \in Response : Accept(r)
  \/ Deliver
  \/ BeginClose
  \/ End

Spec == Init /\ [][Next]_vars
============================================================================
