----------------------------- MODULE TaskPromise -----------------------------
(***************************************************************************)
(* What Mama AI promises the owner of a task, without a queue, threads,    *)
(* approvals records, storage or restarts: an accepted task is open until  *)
(* it starts or is closed; a sensitive task starts only with the owner's   *)
(* consent and a denied one never; the command is executed at most once,   *)
(* only while the task runs; what has not run can be cancelled, what runs  *)
(* cannot; and an outcome is final.  One step of the program may move      *)
(* several tasks (a restart fails every interrupted one), so each task     *)
(* moves along an edge of its own or stays.                                *)
(***************************************************************************)
EXTENDS Naturals

CONSTANT Tasks

VARIABLES
    status,     \* status[t]: what the owner can be told about task t
    decision,   \* decision[t]: what the risk policy says of the command of t
    consent,    \* consent[t]: the owner's approval of t was spent on a start
    runs        \* runs[t]: how often the command of t was executed

Final == {"succeeded", "failed", "cancelled"}

Init ==
    /\ status = [t \in Tasks |-> "absent"]
    /\ decision = [t \in Tasks |-> "none"]
    /\ consent = [t \in Tasks |-> FALSE]
    /\ runs = [t \in Tasks |-> 0]

Edge(t, from, to) == status[t] = from /\ status'[t] = to

Keep(t) == decision'[t] = decision[t]

Same(t) == Keep(t) /\ consent'[t] = consent[t] /\ runs'[t] = runs[t]

Accept(t) ==
    /\ Edge(t, "absent", "open")
    /\ decision'[t] \in {"allow", "require_approval", "deny"}
    /\ consent'[t] = consent[t] /\ runs'[t] = runs[t]

Consent(t) ==
    /\ decision[t] = "require_approval"
    /\ Edge(t, "open", "open")
    /\ ~consent[t] /\ consent'[t]
    /\ Keep(t) /\ runs'[t] = runs[t]

Start(t) ==
    /\ decision[t] # "deny"
    /\ decision[t] = "require_approval" => consent[t]
    /\ Edge(t, "open", "running")
    /\ Same(t)

Execute(t) ==
    /\ Edge(t, "running", "running")
    /\ runs[t] = 0 /\ runs'[t] = 1
    /\ Keep(t) /\ consent'[t] = consent[t]

Succeed(t) == Edge(t, "running", "succeeded") /\ runs[t] = 1 /\ Same(t)

Fail(t) ==
    /\ Edge(t, "running", "failed") \/ (decision[t] = "deny" /\ Edge(t, "open", "failed"))
    /\ Same(t)

Cancel(t) == Edge(t, "open", "cancelled") /\ Same(t)

Stay(t) == status'[t] = status[t] /\ Same(t)

Move(t) ==
    \/ Accept(t)
    \/ Consent(t)
    \/ Start(t)
    \/ Execute(t)
    \/ Succeed(t)
    \/ Fail(t)
    \/ Cancel(t)
    \/ Stay(t)

Next ==
    /\ status' = [t \in Tasks |-> status'[t]]
    /\ decision' = [t \in Tasks |-> decision'[t]]
    /\ consent' = [t \in Tasks |-> consent'[t]]
    /\ runs' = [t \in Tasks |-> runs'[t]]
    /\ \A t \in Tasks : Move(t)

Spec == Init /\ [][Next]_<<status, decision, consent, runs>>
=============================================================================
