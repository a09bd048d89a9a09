--------------------------- MODULE StableGesture ---------------------------
(***************************************************************************)
(* StableGestureAgent (gestures/stable_agent.py): how the poses of a hand   *)
(* before the camera become clicks, drags and swipes on the desktop.       *)
(*                                                                         *)
(* The agent handles one camera frame after the other; a frame comes at    *)
(* any time, or never when the camera stalls.  Its timers are instants in  *)
(* the code and ages here, which stop at the threshold they are compared   *)
(* with.  Where the hand is, and so pointer and scrolling, is left out: a  *)
(* frame says the pose, the finger whose pinch is the closest and below    *)
(* its threshold, and how far an open palm has moved.                      *)
(***************************************************************************)
EXTENDS Integers

CONSTANTS
    Poses,                   \* what RobustGestureRecognizer reports
    Fingers,                 \* pinches looked at, "index" among them
    PoseEnter, PoseRelease, PinchEnter, PinchRelease,   \* frames
    ArmHold, DisarmHold, Warmup, NoHandLimit, SimpleNoHandLimit, AutoArm,
    DragHold, SwipeDuration, SwipeCooldown,             \* ticks
    ClickCooldown,           \* ClickCooldown[f], ticks
    Null

ASSUME GestureAssumption ==
    /\ {"none", "palm", "fist"} \subseteq Poses
    /\ "index" \in Fingers
    /\ {PoseEnter, PoseRelease, PinchEnter, PinchRelease, DragHold} \subseteq Nat \ {0}
    /\ {ArmHold, DisarmHold, Warmup, NoHandLimit, SimpleNoHandLimit, AutoArm,
        SwipeDuration, SwipeCooldown} \subseteq Nat
    /\ ClickCooldown \in [Fingers -> Nat]
    /\ Null \notin Int

VARIABLES
    simple,   \* simple_mode; does not change
    agent,    \* the fields of StableGestureAgent and its detectors
    held,     \* the desktop: left button down
    calls,    \* calls of mouse and keyboard in the last step
    pinched,  \* history: age of the index pinch, Null when there is none
    palm,     \* history: how long the palm has been shown to arm, or Null
    quiet     \* history: quiet[f]: time since the last click of finger f

vars == <<simple, agent, held, calls, pinched, palm, quiet>>

NoPose == [stable |-> "none", candidate |-> "none", count |-> 0]
NoHold == [age |-> Null, fired |-> FALSE]
NoSwipe(since) == [age |-> Null, fired |-> FALSE, since |-> since]
Open(f, since) == [active |-> FALSE, entering |-> 0, leaving |-> 0, since |-> since]

Init ==
    /\ simple \in BOOLEAN
    /\ agent = [running |-> TRUE, armed |-> FALSE, paused |-> FALSE,
                armedFor |-> 0, lost |-> 0, autoArm |-> Null,
                pose |-> NoPose, arm |-> NoHold, disarm |-> NoHold,
                pinch |-> [f \in Fingers |-> Open(f, ClickCooldown[f])],
                press |-> Null, dragging |-> FALSE,
                swipe |-> NoSwipe(SwipeCooldown), swipeReady |-> FALSE]
    /\ held = FALSE
    /\ calls = {}
    /\ pinched = Null
    /\ palm = Null
    /\ quiet = [f \in Fingers |-> ClickCooldown[f]]

-----------------------------------------------------------------------------
(* The detectors *)

\* PoseDebouncer.update
Debounced(p, raw) ==
    LET count == IF raw = p.candidate THEN p.count + 1 ELSE 1
        needed == IF raw = "none" THEN PoseRelease ELSE PoseEnter
    IN  IF raw = p.stable THEN [p EXCEPT !.candidate = "none", !.count = 0]
        ELSE IF count >= needed THEN [NoPose EXCEPT !.stable = raw]
        ELSE [p EXCEPT !.candidate = raw, !.count = count]

\* HoldDetector.update: does it report, and what does it remember.
Fires(hold, shown, required) ==
    shown /\ hold.age # Null /\ ~hold.fired /\ hold.age >= required

Holding(hold, shown, required) ==
    IF ~shown THEN NoHold
    ELSE IF hold.age = Null THEN [age |-> 0, fired |-> FALSE]
    ELSE [hold EXCEPT !.fired = @ \/ hold.age >= required]

\* PinchLatch.update.  Only the closest finger below its threshold is near;
\* the others get a ratio that counts as open.
Latched(latch, f, near) ==
    IF latch.active
    THEN IF near THEN [latch EXCEPT !.leaving = 0]
         ELSE IF latch.leaving + 1 >= PinchRelease THEN [latch EXCEPT !.active = FALSE, !.leaving = 0]
         ELSE [latch EXCEPT !.leaving = @ + 1]
    ELSE IF ~near THEN [latch EXCEPT !.entering = 0]
         ELSE IF latch.entering + 1 < PinchEnter THEN [latch EXCEPT !.entering = @ + 1]
         ELSE [latch EXCEPT !.active = TRUE, !.entering = 0,
                            !.since = IF @ >= ClickCooldown[f] THEN 0 ELSE @]

\* Its answer: a pinch begins and the last one is long enough ago.
Clicks(latch, f, near) ==
    ~latch.active /\ Latched(latch, f, near).active /\ latch.since >= ClickCooldown[f]

\* OpenPalmSwipeDetector.update; move is what the palm has done since the
\* point where the swipe started.
Moves == {"little", "across", "aside"}

Swipes(s, move) ==
    /\ ~s.fired
    /\ s.since >= SwipeCooldown
    /\ s.age # Null /\ s.age <= SwipeDuration
    /\ move = "across"

Swiping(s, move) ==
    IF s.since < SwipeCooldown THEN s
    ELSE IF Swipes(s, move) THEN [s EXCEPT !.fired = TRUE, !.since = 0]
    ELSE IF s.fired \/ s.age = Null \/ s.age > SwipeDuration \/ move = "aside"
    THEN [s EXCEPT !.fired = FALSE, !.age = 0]
    ELSE s

-----------------------------------------------------------------------------
(* The agent.  An operator takes the agent and gives the agent after it.    *)

Reset(latches) == [f \in Fingers |-> Open(f, latches[f].since)]

Released(a) == [a EXCEPT !.dragging = FALSE, !.press = Null]

\* _set_armed
SetArmed(a, armed) ==
    IF a.armed = armed THEN a
    ELSE [(IF armed THEN a ELSE Released(a)) EXCEPT
              !.armed = armed, !.armedFor = 0,
              !.swipe = NoSwipe(@.since), !.swipeReady = armed /\ ~simple,
              !.pinch = Reset(@), !.autoArm = Null]

\* The branches of process_observation before the agent is armed.
AutoArming(a) ==
    LET b == [a EXCEPT !.disarm = NoHold]
    IN  IF a.paused THEN a
        ELSE IF a.pose.stable \in {"none", "fist"} THEN [b EXCEPT !.autoArm = Null]
        ELSE IF a.autoArm = Null THEN [b EXCEPT !.autoArm = 0]
        ELSE IF a.autoArm >= AutoArm THEN SetArmed(b, TRUE)
        ELSE b

PalmArming(a) ==
    LET shown == a.pose.stable = "palm"
        b == [a EXCEPT !.arm = Holding(@, shown, ArmHold), !.disarm = NoHold]
    IN  IF Fires(a.arm, shown, ArmHold) THEN SetArmed(b, TRUE) ELSE b

\* What every frame does while the agent is armed.
Watching(a) ==
    [a EXCEPT !.arm = NoHold, !.autoArm = IF simple THEN Null ELSE @,
              !.disarm = Holding(@, a.pose.stable = "fist", DisarmHold)]

Disarms(a) == Fires(a.disarm, a.pose.stable = "fist", DisarmHold)

Swept(a, move) ==
    IF simple THEN [a EXCEPT !.swipeReady = FALSE, !.swipe = NoSwipe(@.since)]
    ELSE IF a.pose.stable # "palm"
    THEN [a EXCEPT !.swipeReady = TRUE, !.swipe = NoSwipe(@.since)]
    ELSE [a EXCEPT !.swipe = IF a.swipeReady THEN Swiping(@, move) ELSE NoSwipe(@.since)]

\* Index pinch: a press becomes a drag when it lasts, and a click or a drop
\* when it ends; the other pinches click when they begin.
Pinching(a, near) ==
    LET latches == [f \in Fingers |-> Latched(a.pinch[f], f, near = f)]
        press == IF Clicks(a.pinch["index"], "index", near = "index") THEN 0 ELSE a.press
        index == latches["index"].active
        drags == index /\ (a.dragging \/ (press # Null /\ press >= DragHold))
        ends == a.pinch["index"].active /\ ~index
    IN  [a EXCEPT !.pinch = latches, !.dragging = drags,
                  !.press = IF ends THEN Null ELSE press]

Warm(a) == a.armedFor >= Warmup

\* Armed, not about to be disarmed and past the warm-up: the frame acts.
Acts(a) == a.armed /\ ~Disarms(a) /\ Warm(a)

Posed(raw) == [agent EXCEPT !.lost = 0, !.pose = Debounced(@, raw)]

Observed(a, near, move) ==
    IF ~a.armed THEN IF simple THEN AutoArming(a) ELSE PalmArming(a)
    ELSE IF Disarms(a) THEN SetArmed(Watching(a), FALSE)
    ELSE IF ~Warm(a) THEN Watching(a)
    ELSE Pinching(Swept(Watching(a), move), near)

\* The calls that follow from the step from a to b.
PinchCalls(a, b, near) ==
    {<<"click", f>> : f \in {f \in Fingers \ {"index"} : Clicks(a.pinch[f], f, near = f)}}
    \cup (IF b.dragging /\ ~a.dragging THEN {<<"down", "index">>} ELSE {})
    \cup (IF a.pinch["index"].active /\ ~b.pinch["index"].active
          THEN {<<IF a.dragging THEN "up" ELSE "click", "index">>} ELSE {})

SwipeCalls(a, move) ==
    IF ~simple /\ a.pose.stable = "palm" /\ a.swipeReady /\ Swipes(a.swipe, move)
    THEN {<<"swipe", "palm">>} ELSE {}

Lost(a) ==
    LET b == [Released(a) EXCEPT
                  !.pose = Debounced(@, "none"), !.swipe = NoSwipe(@.since),
                  !.swipeReady = a.armed /\ ~simple, !.autoArm = Null,
                  !.pinch = Reset(@), !.arm = NoHold, !.disarm = NoHold]
        limit == IF simple THEN SimpleNoHandLimit ELSE NoHandLimit
    IN  IF a.armed /\ a.lost >= limit THEN SetArmed(b, FALSE) ELSE b

-----------------------------------------------------------------------------
(* run *)

\* Every step settles what it calls on the desktop and the histories.
Settle(next, made) ==
    /\ agent' = next
    /\ calls' = made
    /\ held' = ((held \/ <<"down", "index">> \in made) /\ <<"up", "index">> \notin made)
    /\ pinched' = IF ~next.pinch["index"].active THEN Null
                  ELSE IF agent.pinch["index"].active THEN pinched ELSE 0
    /\ quiet' = [f \in Fingers |-> IF <<"click", f>> \in made THEN 0 ELSE quiet[f]]
    /\ UNCHANGED simple

ReleaseCall(next) ==
    IF agent.dragging /\ ~next.dragging THEN {<<"up", "index">>} ELSE {}

\* A frame with one hand, seen well enough.
HandFrame == \E raw \in Poses, near \in Fingers \cup {Null}, move \in Moves :
    LET a == Posed(raw)
        b == Observed(a, near, move)
    IN  /\ agent.running
        /\ Settle(b, IF Acts(a) THEN PinchCalls(a, b, near) \cup SwipeCalls(a, move)
                     ELSE ReleaseCall(b))
        /\ palm' = IF a.armed \/ a.pose.stable # "palm" THEN Null
                   ELSE IF palm = Null THEN 0 ELSE palm

\* A frame with no hand, with several or with one that is hardly seen.
NoHandFrame ==
    /\ agent.running
    /\ Settle(Lost(agent), ReleaseCall(Lost(agent)))
    /\ palm' = Null

\* Ctrl+Alt+G; in simple mode it also pauses and resumes.
EmergencyStop ==
    LET b == SetArmed([agent EXCEPT !.paused = IF simple THEN ~@ ELSE @], FALSE)
    IN  /\ agent.running
        /\ Settle(b, ReleaseCall(b))
        /\ palm' = IF agent.armed THEN Null ELSE palm

\* The finally clause, at a key, an interrupt or an exception of the loop.
Exit ==
    LET b == [SetArmed(agent, FALSE) EXCEPT !.running = FALSE]
    IN  /\ agent.running
        /\ Settle(b, ReleaseCall(b))
        /\ palm' = Null

\* An age grows up to the threshold it is compared with.
Older(age, threshold) ==
    IF age = Null THEN Null ELSE IF age < threshold THEN age + 1 ELSE age

Tick ==
    /\ agent.running
    /\ agent' = [agent EXCEPT
           !.armedFor = Older(agent.armedFor, Warmup),
           !.lost = Older(agent.lost, IF simple THEN SimpleNoHandLimit ELSE NoHandLimit),
           !.autoArm = Older(agent.autoArm, AutoArm),
           !.arm = [agent.arm EXCEPT !.age = Older(@, ArmHold)],
           !.disarm = [agent.disarm EXCEPT !.age = Older(@, DisarmHold)],
           !.press = Older(agent.press, DragHold),
           !.swipe = [agent.swipe EXCEPT !.age = Older(@, SwipeDuration + 1),
                                         !.since = Older(@, SwipeCooldown)],
           !.pinch = [f \in Fingers |->
               [agent.pinch[f] EXCEPT !.since = Older(@, ClickCooldown[f])]]]
    /\ calls' = {}
    /\ pinched' = Older(pinched, DragHold)
    /\ palm' = Older(palm, ArmHold)
    /\ quiet' = [f \in Fingers |-> Older(quiet[f], ClickCooldown[f])]
    /\ UNCHANGED <<simple, held>>

Next == HandFrame \/ NoHandFrame \/ EmergencyStop \/ Exit \/ Tick

Spec == Init /\ [][Next]_vars

-----------------------------------------------------------------------------

Ages(threshold) == 0..threshold \cup {Null}
Holds(required) == [age : Ages(required), fired : BOOLEAN]

AgentStates ==
    [running : BOOLEAN, armed : BOOLEAN, paused : BOOLEAN, armedFor : 0..Warmup,
     lost : Nat, autoArm : Ages(AutoArm),
     pose : [stable : Poses, candidate : Poses, count : Nat],
     arm : Holds(ArmHold), disarm : Holds(DisarmHold),
     pinch : [Fingers -> [active : BOOLEAN, entering : 0..PinchEnter - 1,
                          leaving : 0..PinchRelease - 1, since : Nat]],
     press : Ages(DragHold), dragging : BOOLEAN,
     swipe : [age : Ages(SwipeDuration + 1), fired : BOOLEAN, since : 0..SwipeCooldown],
     swipeReady : BOOLEAN]

\* The fields of the agent and of its detectors keep their ranges.
TypeOK ==
    /\ simple \in BOOLEAN
    /\ agent \in AgentStates
    /\ held \in BOOLEAN
    /\ calls \subseteq ({"click", "down", "up"} \X Fingers) \cup {<<"swipe", "palm">>}
    /\ pinched \in Ages(DragHold)
    /\ palm \in Ages(ArmHold)
    /\ quiet \in [Fingers -> Nat]

\* The mouse button is never left down: it is down only while the agent is
\* armed and the index pinch that began the drag goes on, so every way out
\* (fist, lost hand, emergency stop, end of the program) lets it go.
ButtonFollowsPinch ==
    held => /\ agent.armed /\ agent.dragging
            /\ agent.pinch["index"].active

\* A drag starts only when the index pinch has lasted for drag_hold_seconds,
\* also after pinches that the cooldown kept from being a press.
DragIsDeliberate == [][
    (<<"down", "index">> \in calls') => pinched # Null /\ pinched >= DragHold]_vars

\* Outside simple mode the agent is armed only after an open palm was shown
\* for arm_hold_seconds without a break since it was last armed or the hand
\* was last lost (HoldDetector, PoseDebouncer).
ArmingIsDeliberate == [][
    (~simple /\ ~agent.armed /\ agent'.armed) => palm # Null /\ palm >= ArmHold]_vars

\* Right and double clicks keep their cooldown, although losing the hand or
\* disarming resets the latch that measures it (PinchLatch.reset).
OtherClicksSpaced == [][\A f \in Fingers \ {"index"} :
    (<<"click", f>> \in calls') => quiet[f] >= ClickCooldown[f]]_vars

=============================================================================
