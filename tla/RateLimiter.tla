---------------------------- MODULE RateLimiter ----------------------------
(***************************************************************************)
(* middleware/rate_limiter.py: the sliding windows of one backend process  *)
(* and the cooldown after failed authentication.  RateLimitMiddleware runs *)
(* on the event loop, so the checks before call_next are one step and what *)
(* follows its answer is another; any number of requests are between them. *)
(*                                                                         *)
(* Time is counted in ticks, Ticks of them to a second, because the store  *)
(* compares exact instants while Retry-After is rounded up to seconds.     *)
(***************************************************************************)
EXTENDS Integers, Sequences, FiniteSets

CONSTANTS
    Clients, Tokens,  \* fingerprints of addresses and of bearer tokens
    Categories,       \* classify_request; "general" counts every request
    Limit,            \* Limit[c]: requests of category c in a window
    Window, FailureLimit, FailureWindow, Cooldown,   \* settings, in seconds
    Ticks,
    Senders,          \* clients and tokens as requests carry them together
    Failing,          \* bound: clients whose requests may fail to authenticate
    Requests,         \* bound: requests in flight
    MaxTime,          \* bound: ticks the clock is followed
    Null

ASSUME LimiterAssumption ==
    /\ "general" \in Categories
    /\ Limit \in [Categories -> Nat \ {0}]
    /\ {Window, FailureLimit, FailureWindow, Cooldown, Ticks} \subseteq Nat \ {0}
    /\ MaxTime \in Nat
    /\ Clients \cap Tokens = {}
    /\ Failing \subseteq Clients
    /\ Senders \subseteq {{c} : c \in Clients} \cup {{c, t} : c \in Clients, t \in Tokens}
    /\ Null \notin Clients \cup Tokens

Identifiers == Clients \cup Tokens

VARIABLES
    now,           \* monotonic clock
    bucket,        \* bucket[c][i]: instants of accepted requests of i
    failures,      \* failures[c]: instants of failed authentications
    blockedUntil,  \* blockedUntil[c]: end of the cooldown, 0: none
    inFlight,      \* requests handed to call_next
    served,        \* history: requests accepted in the last Window seconds
    rejected       \* history: answers 401 in the last FailureWindow seconds

vars == <<now, bucket, failures, blockedUntil, inFlight, served, rejected>>

Init ==
    /\ now = 1
    /\ bucket = [c \in Categories |-> [i \in Identifiers |-> <<>>]]
    /\ failures = [c \in Clients |-> <<>>]
    /\ blockedUntil = [c \in Clients |-> 0]
    /\ inFlight = [r \in Requests |-> Null]
    /\ served = bucket
    /\ rejected = failures

-----------------------------------------------------------------------------
(* SlidingWindowRateLimitStore *)

\* _prune pops from the left for as long as the head has left the window:
\* how many it pops, and what remains.
Expired(instants, t, seconds) ==
    CHOOSE n \in 0..Len(instants) :
        /\ \A m \in 1..n : instants[m] <= t - seconds * Ticks
        /\ n < Len(instants) => instants[n + 1] > t - seconds * Ticks

Prune(instants, t, seconds) ==
    SubSeq(instants, Expired(instants, t, seconds) + 1, Len(instants))

FullBeyond(c, i, t) == Len(Prune(bucket[c][i], t, Window)) > Limit[c]   \* mutant

Full(c, i, t) == Len(Prune(bucket[c][i], t, Window)) >= Limit[c]

Allowed(c, ids, t) == \A i \in ids : ~Full(c, i, t)

Floor(ticks) == ticks \div Ticks    \* mutant: seconds rounded down

Ceiling(ticks) == (ticks + Ticks - 1) \div Ticks

Largest(S) == CHOOSE m \in S : \A n \in S : n <= m

\* Seconds the answer 429 asks the client to wait.
RetryAfter(c, ids, t) ==
    Largest({Largest({1, Ceiling(Prune(bucket[c][i], t, Window)[1] + Window * Ticks - t)}) :
                 i \in {i \in ids : Full(c, i, t)}})

Blocked(client) == blockedUntil[client] > now

\* check_request prunes every bucket it looks at, accepts or not.
Pruned(c, ids) ==
    [i \in Identifiers |-> IF i \in ids THEN Prune(bucket[c][i], now, Window)
                                        ELSE bucket[c][i]]

Recorded(lists, ids) ==
    [i \in Identifiers |-> IF i \in ids THEN Append(lists[i], now) ELSE lists[i]]

Checked(c, ids) ==
    IF Allowed(c, ids, now) THEN Recorded(Pruned(c, ids), ids) ELSE Pruned(c, ids)

\* For the histories, which are in order: all of a list but what happened so
\* many seconds or more before instant t.
Recent(list, t, seconds) ==
    LET old == {n \in 1..Len(list) : t - list[n] >= seconds * Ticks}
    IN  SubSeq(list, Cardinality(old) + 1, Len(list))

-----------------------------------------------------------------------------
(* RateLimitMiddleware.dispatch *)

\* authentication_cooldown forgets a cooldown that is over.
ForgetCooldown(client) ==
    blockedUntil' = [blockedUntil EXCEPT ![client] = IF Blocked(client) THEN @ ELSE 0]

\* A request is handed on if the general rule and that of its category let
\* it in.
Passes(c, ids, t) ==
    /\ Allowed("general", ids, t)
    /\ c # "general" => Allowed(c, ids, t)

\* The general rule counts first; a request of another category that its own
\* rule refuses has used up general capacity already.
Arrive(r) == \E client \in Clients, c \in Categories : \E ids \in Senders :
    LET checked == IF Allowed("general", ids, now) THEN {"general", c} ELSE {"general"}
    IN  /\ inFlight[r] = Null
        /\ client \in ids
        /\ ~Blocked(client)
        /\ ForgetCooldown(client)
        /\ bucket' = [d \in Categories |->
               IF d \in checked THEN Checked(d, ids) ELSE bucket[d]]
        /\ served' = [d \in Categories |->
               IF d \in checked /\ Allowed(d, ids, now)
               THEN Recorded(served[d], ids) ELSE served[d]]
        /\ inFlight' = [inFlight EXCEPT ![r] = IF Passes(c, ids, now) THEN client ELSE Null]
        /\ UNCHANGED <<now, failures, rejected>>

\* The application answers with anything but 401, or not at all.
Answer(r) ==
    /\ inFlight[r] # Null
    /\ inFlight' = [inFlight EXCEPT ![r] = Null]
    /\ UNCHANGED <<now, bucket, failures, blockedUntil, served, rejected>>

FailLate(r) ==                      \* mutant: blocks only beyond the limit
    LET client == inFlight[r]
        listed == Append(Prune(failures[client], now, FailureWindow), now)
        atLimit == Len(listed) > FailureLimit
    IN  /\ inFlight[r] \in Failing
        /\ inFlight' = [inFlight EXCEPT ![r] = Null]
        /\ failures' = IF Blocked(client) THEN failures
                       ELSE [failures EXCEPT ![client] = listed]
        /\ IF ~Blocked(client) /\ atLimit
           THEN blockedUntil' = [blockedUntil EXCEPT ![client] = now + Cooldown * Ticks]
           ELSE ForgetCooldown(client)
        /\ rejected' = IF Blocked(client) \/ atLimit THEN rejected
                       ELSE [rejected EXCEPT ![client] = Append(@, now)]
        /\ UNCHANGED <<now, bucket, served>>

\* record_authentication_failure: within a cooldown nothing is recorded, and
\* a failure that reaches the limit is answered 429 instead of 401.
Fail(r) ==
    LET client == inFlight[r]
        listed == Append(Prune(failures[client], now, FailureWindow), now)
        atLimit == Len(listed) >= FailureLimit
    IN  /\ inFlight[r] \in Failing
        /\ inFlight' = [inFlight EXCEPT ![r] = Null]
        /\ failures' = IF Blocked(client) THEN failures
                       ELSE [failures EXCEPT ![client] = listed]
        /\ IF ~Blocked(client) /\ atLimit
           THEN blockedUntil' = [blockedUntil EXCEPT ![client] = now + Cooldown * Ticks]
           ELSE ForgetCooldown(client)
        /\ rejected' = IF Blocked(client) \/ atLimit THEN rejected
                       ELSE [rejected EXCEPT ![client] = Append(@, now)]
        /\ UNCHANGED <<now, bucket, served>>

Tick ==
    /\ now < MaxTime
    /\ now' = now + 1
    /\ served' = [c \in Categories |->
           [i \in Identifiers |-> Recent(served[c][i], now', Window)]]
    /\ rejected' = [c \in Clients |-> Recent(rejected[c], now', FailureWindow)]
    /\ UNCHANGED <<bucket, failures, blockedUntil, inFlight>>

Next ==
    \/ \E r \in Requests : Arrive(r) \/ Answer(r) \/ Fail(r)
    \/ Tick

Spec == Init /\ [][Next]_vars

-----------------------------------------------------------------------------

\* The shape of the store's state.
TypeOK ==
    /\ now \in Nat
    /\ bucket \in [Categories -> [Identifiers -> Seq(Nat)]]
    /\ failures \in [Clients -> Seq(Nat)]
    /\ blockedUntil \in [Clients -> Nat]
    /\ inFlight \in [Requests -> Clients \cup {Null}]
    /\ served \in [Categories -> [Identifiers -> Seq(Nat)]]
    /\ rejected \in [Clients -> Seq(Nat)]

\* No stretch of Window seconds holds more than Limit accepted requests of
\* a client or a token, wherever it starts and however its edges meet the
\* pruning (check_request).
WindowHoldsLimit == \A c \in Categories, i \in Identifiers :
    Len(served[c][i]) <= Limit[c]

\* The wait that a rule names is exact for that rule: after it the rule lets
\* the request in, and after a second less it would not (unless one is the
\* least there is).  An answer 429 names the wait of the rule that refused,
\* and a request must pass two, of which the general one counts it although
\* the other refuses: so it may be refused again after that wait.  With the
\* buckets as the refusal leaves them, what suffices, and not a second
\* earlier, is the longer of the waits that its rules name (check_request,
\* dispatch).
WaitIsExact(rule, ids) ==
    LET wait == RetryAfter(rule, ids, now)
    IN  /\ Allowed(rule, ids, now + wait * Ticks)
        /\ wait > 1 => ~Allowed(rule, ids, now + (wait - 1) * Ticks)

Refusing(c, ids) == {rule \in {"general", c} : ~Allowed(rule, ids, now)}

LongerIsExact(c, ids) ==
    LET wait == Largest({RetryAfter(rule, ids, now) : rule \in Refusing(c, ids)})
    IN  /\ Passes(c, ids, now + wait * Ticks)
        /\ wait > 1 => ~Passes(c, ids, now + (wait - 1) * Ticks)

RetryAfterIsExact == \A c \in Categories, ids \in Senders :
    /\ ~Allowed(c, ids, now) => WaitIsExact(c, ids)
    /\ c # "general" /\ ~Passes(c, ids, now) => LongerIsExact(c, ids)

\* A client is answered 401 less than FailureLimit times in any stretch of
\* FailureWindow seconds, however many of its requests were in flight when
\* the limit was reached and also across a cooldown shorter than the window
\* (record_authentication_failure).
FewFailuresShown == \A client \in Clients :
    Len(rejected[client]) < FailureLimit

\* A well-formed store whose windows hold their limits.
WindowsInv == TypeOK /\ WindowHoldsLimit

=============================================================================
