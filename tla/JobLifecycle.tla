---------------------------- MODULE JobLifecycle ----------------------------
(***************************************************************************)
(* What the durable queue promises of each job, without leases, workers,   *)
(* clocks or an audit: a job that was submitted is delivered at most as    *)
(* often as its budget allows, is declared failed only when the budget is  *)
(* spent, and never moves again once it is completed or cancelled.  One    *)
(* transaction of the queue may move several jobs at once (a claim also    *)
(* fails every exhausted job), so a step moves each job along an edge of   *)
(* its lifecycle or leaves it alone.                                       *)
(***************************************************************************)
EXTENDS Naturals

CONSTANTS Tasks, MaxAttempts

VARIABLES
    phase,  \* phase[j]: where job j is in its lifecycle
    left    \* left[j]: deliveries job j may still consume

Phases == {"absent", "waiting", "delivered", "completed", "failed", "cancelled"}

Init ==
    /\ phase = [j \in Tasks |-> "absent"]
    /\ left = [j \in Tasks |-> 0]

Edge(j, from, to) == phase[j] = from /\ phase'[j] = to

\* A new job, or a failed one retried by hand, gets a fresh budget.
Submit(j) ==
    /\ Edge(j, "absent", "waiting") \/ Edge(j, "failed", "waiting")
    /\ left'[j] \in 1..MaxAttempts

\* A delivery, or a redelivery of a claim that expired, spends one attempt.
Deliver(j) ==
    /\ Edge(j, "waiting", "delivered") \/ Edge(j, "delivered", "delivered")
    /\ left[j] > 0
    /\ left'[j] = left[j] - 1

\* A delivery that did not work out: again while budget is left, else failed.
GiveBack(j) ==
    /\ IF left[j] > 0 THEN Edge(j, "delivered", "waiting") ELSE Edge(j, "delivered", "failed")
    /\ left'[j] = left[j]

Finish(j) ==
    /\ \/ Edge(j, "delivered", "completed")
       \/ Edge(j, "delivered", "cancelled")
       \/ Edge(j, "waiting", "cancelled")
    /\ left'[j] = left[j]

Stay(j) == phase'[j] = phase[j] /\ left'[j] = left[j]

Move(j) == Submit(j) \/ Deliver(j) \/ GiveBack(j) \/ Finish(j) \/ Stay(j)

Next ==
    /\ phase' = [j \in Tasks |-> phase'[j]]
    /\ left' = [j \in Tasks |-> left'[j]]
    /\ \A j \in Tasks : Move(j)

Spec == Init /\ [][Next]_<<phase, left>>
=============================================================================
