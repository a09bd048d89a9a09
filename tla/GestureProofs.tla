---------------------------- MODULE GestureProofs ----------------------------
(***************************************************************************)
(* Proofs about the two gesture programs: no button is left down, poses    *)
(* take the hold that is configured for them, and what they do keeps its   *)
(* bounds, for all poses, fingers, profiles and thresholds.                *)
(***************************************************************************)
EXTENDS GestureAgents, TLAPS

-----------------------------------------------------------------------------
(* The detectors of the stable agent *)

PoseStates == [stable : Poses, candidate : Poses, count : Nat]
PinchStates == [active : BOOLEAN, entering : 0..PinchEnter - 1,
                leaving : 0..PinchRelease - 1, since : Nat]
SwipeStates == [age : Ages(SwipeDuration + 1), fired : BOOLEAN, since : 0..SwipeCooldown]

LEMMA DebouncedIsTyped ==
    ASSUME NEW p \in PoseStates, NEW raw \in Poses
    PROVE  Debounced(p, raw) \in PoseStates
  <1>1. "none" \in Poses /\ PoseEnter \in Nat /\ PoseRelease \in Nat
    BY GestureAssumption
  <1>2. CASE raw = p.stable
    BY <1>1, <1>2 DEF Debounced, PoseStates
  <1>3. CASE raw # p.stable
    <2> DEFINE count == IF raw = p.candidate THEN p.count + 1 ELSE 1
    <2>1. count \in Nat
      BY DEF PoseStates
    <2>2. [NoPose EXCEPT !.stable = raw] \in PoseStates
      BY <1>1 DEF NoPose, PoseStates
    <2>3. [p EXCEPT !.candidate = raw, !.count = count] \in PoseStates
      BY <2>1 DEF PoseStates
    <2> QED
      BY <1>3, <2>2, <2>3 DEF Debounced
  <1> QED
    BY <1>2, <1>3

\* A pose that is not shown, or was not before, has its hold started anew.
LEMMA HoldingIsTyped ==
    ASSUME NEW required \in Nat, NEW hold \in Holds(required), NEW pose, NEW shown
    PROVE  LET next == Holding(hold, pose = shown, required)
           IN  /\ next \in Holds(required)
               /\ pose # shown => next = NoHold
               /\ pose = shown /\ hold.age = Null => next.age = 0 /\ ~next.fired
               /\ pose = shown /\ hold.age # Null =>
                     /\ next.age = hold.age
                     /\ next.fired = (hold.fired \/ hold.age >= required)
  <1>1. Null \notin Int
    BY GestureAssumption
  <1>2. hold.age \in Ages(required) /\ hold.fired \in BOOLEAN
    BY DEF Holds
  <1> DEFINE a == [age |-> 0, fired |-> FALSE]
             b == [hold EXCEPT !.fired = @ \/ hold.age >= required]
             next == Holding(hold, pose = shown, required)
  <1>3. NoHold \in Holds(required) /\ a \in Holds(required) /\ a.age = 0 /\ ~a.fired
    BY DEF NoHold, Holds, Ages
  <1>4. /\ b \in Holds(required) /\ b.age = hold.age
        /\ b.fired = (hold.fired \/ hold.age >= required)
    BY <1>2 DEF Holds
  <1>5. next = IF pose # shown THEN NoHold ELSE IF hold.age = Null THEN a ELSE b
    BY DEF Holding
  <1> HIDE DEF a, b, next
  <1>6. /\ next \in Holds(required)
        /\ pose # shown => next = NoHold
        /\ pose = shown /\ hold.age = Null => next.age = 0 /\ ~next.fired
        /\ pose = shown /\ hold.age # Null =>
              /\ next.age = hold.age
              /\ next.fired = (hold.fired \/ hold.age >= required)
    BY <1>3, <1>4, <1>5
  <1> QED
    BY <1>6 DEF next

LEMMA NoHoldIsTyped ==
    ASSUME NEW required \in Nat
    PROVE  NoHold \in Holds(required) /\ NoHold.age = Null /\ ~NoHold.fired
  BY DEF NoHold, Holds, Ages

\* A pinch that begins counts from the last one, or from now if that is long
\* enough ago.
LEMMA LatchedIsTyped ==
    ASSUME NEW f \in Fingers, NEW latch \in PinchStates, NEW near, NEW g
    PROVE  LET next == Latched(latch, f, near = g)
           IN  /\ next \in PinchStates
               /\ next.since <= latch.since
               /\ Clicks(latch, f, near = g) =>
                     ~latch.active /\ next.active /\ next.since = 0
                        /\ latch.since >= ClickCooldown[f]
  <1>1. /\ ClickCooldown[f] \in Nat /\ PinchEnter \in Nat \ {0} /\ PinchRelease \in Nat \ {0}
    BY GestureAssumption
  <1> DEFINE a == [latch EXCEPT !.leaving = 0]
             b == [latch EXCEPT !.active = FALSE, !.leaving = 0]
             c == [latch EXCEPT !.leaving = @ + 1]
             d == [latch EXCEPT !.entering = 0]
             e == [latch EXCEPT !.entering = @ + 1]
             h == [latch EXCEPT !.active = TRUE, !.entering = 0,
                                !.since = IF @ >= ClickCooldown[f] THEN 0 ELSE @]
             next == Latched(latch, f, near = g)
  <1>2. /\ latch.active \in BOOLEAN /\ latch.entering \in 0..PinchEnter - 1
        /\ latch.leaving \in 0..PinchRelease - 1 /\ latch.since \in Nat
    BY DEF PinchStates
  <1>3. /\ 0 \in 0..PinchEnter - 1 /\ 0 \in 0..PinchRelease - 1
        /\ (IF latch.since >= ClickCooldown[f] THEN 0 ELSE latch.since) \in Nat
    BY <1>1, <1>2
  <1>a. a \in PinchStates /\ a.since = latch.since
    BY <1>3 DEF PinchStates
  <1>b. b \in PinchStates /\ b.since = latch.since
    BY <1>3 DEF PinchStates
  <1>d. d \in PinchStates /\ d.since = latch.since /\ d.active = latch.active
    BY <1>3 DEF PinchStates
  <1>4. latch.leaving + 1 < PinchRelease => c \in PinchStates /\ c.since = latch.since
    BY <1>1 DEF PinchStates
  <1>5. latch.entering + 1 < PinchEnter =>
            e \in PinchStates /\ e.since = latch.since /\ e.active = latch.active
    BY <1>1 DEF PinchStates
  <1>6. /\ h \in PinchStates /\ h.active
        /\ h.since = IF latch.since >= ClickCooldown[f] THEN 0 ELSE latch.since
    BY <1>3 DEF PinchStates
  <1>7. next = IF latch.active
               THEN IF near = g THEN a
                    ELSE IF latch.leaving + 1 >= PinchRelease THEN b ELSE c
               ELSE IF near # g THEN d
                    ELSE IF latch.entering + 1 < PinchEnter THEN e ELSE h
    BY DEF Latched
  <1>8. /\ Clicks(latch, f, near = g) <=>
              ~latch.active /\ next.active /\ latch.since >= ClickCooldown[f]
    BY DEF Clicks
  <1> HIDE DEF a, b, c, d, e, h, next
  <1>9. next \in PinchStates /\ next.since <= latch.since
    BY <1>1, <1>2, <1>a, <1>b, <1>d, <1>4, <1>5, <1>6, <1>7
  <1>10. ~latch.active /\ next.active => next = h
    BY <1>1, <1>2, <1>d, <1>5, <1>7
  <1> QED
    BY <1>6, <1>8, <1>9, <1>10 DEF next

LEMMA SwipingIsTyped ==
    ASSUME NEW s \in SwipeStates, NEW move
    PROVE  Swiping(s, move) \in SwipeStates /\ NoSwipe(s.since) \in SwipeStates
  <1>1. SwipeCooldown \in Nat /\ SwipeDuration \in Nat /\ Null \notin Int
    BY GestureAssumption
  <1>2. s.since \in 0..SwipeCooldown /\ s.fired \in BOOLEAN /\ s.age \in Ages(SwipeDuration + 1)
    BY DEF SwipeStates
  <1>a. 0 \in 0..SwipeCooldown /\ 0 \in Ages(SwipeDuration + 1)
    BY <1>1 DEF Ages
  <1>3. [s EXCEPT !.fired = TRUE, !.since = 0] \in SwipeStates
    BY <1>a DEF SwipeStates
  <1>4. [s EXCEPT !.fired = FALSE, !.age = 0] \in SwipeStates
    BY <1>a DEF SwipeStates
  <1>5. NoSwipe(s.since) \in SwipeStates
    BY <1>1, <1>2 DEF SwipeStates, NoSwipe, Ages
  <1> QED
    BY <1>3, <1>4, <1>5 DEF Swiping

LEMMA ResetIsTyped ==
    ASSUME NEW latches \in [Fingers -> PinchStates]
    PROVE  /\ Reset(latches) \in [Fingers -> PinchStates]
           /\ \A f \in Fingers : ~Reset(latches)[f].active /\ Reset(latches)[f].since = latches[f].since
  <1>1. PinchEnter \in Nat \ {0} /\ PinchRelease \in Nat \ {0}
    BY GestureAssumption
  <1>2. \A f \in Fingers : latches[f] \in PinchStates /\ latches[f].since \in Nat
    BY DEF PinchStates
  <1>3. \A f \in Fingers : /\ Open(f, latches[f].since) \in PinchStates
                           /\ ~Open(f, latches[f].since).active
                           /\ Open(f, latches[f].since).since = latches[f].since
    BY <1>1, <1>2 DEF Open, PinchStates
  <1> QED
    BY <1>3 DEF Reset

-----------------------------------------------------------------------------
(* The stable agent.  Each operator on it gives an agent again, and what is  *)
(* said of press, pinch and hold is what the invariants need.               *)

LEMMA AgentFields ==
    ASSUME NEW a \in AgentStates
    PROVE  /\ a.running \in BOOLEAN /\ a.armed \in BOOLEAN /\ a.paused \in BOOLEAN
           /\ a.armedFor \in 0..Warmup /\ a.lost \in Nat /\ a.autoArm \in Ages(AutoArm)
           /\ a.pose \in PoseStates /\ a.arm \in Holds(ArmHold) /\ a.disarm \in Holds(DisarmHold)
           /\ a.pinch \in [Fingers -> PinchStates]
           /\ a.press \in Ages(DragHold) /\ a.dragging \in BOOLEAN
           /\ a.swipe \in SwipeStates /\ a.swipeReady \in BOOLEAN
  BY DEF AgentStates, PoseStates, PinchStates, SwipeStates

\* What the operators put into the fields.
LEMMA ConstantFields ==
    /\ Null \in Ages(AutoArm) /\ Null \in Ages(DragHold) /\ 0 \in Ages(AutoArm)
    /\ 0 \in Ages(DragHold) /\ 0 \in 0..Warmup /\ 0 \in Nat
    /\ NoHold \in Holds(ArmHold) /\ NoHold \in Holds(DisarmHold) /\ NoHold.age = Null
    /\ ArmHold \in Nat /\ DisarmHold \in Nat /\ "index" \in Fingers /\ 0 # Null
  BY GestureAssumption DEF Ages, Holds, NoHold

\* A press or a drag is one of the index pinch.
PressIsPinch(a) == a.press # Null \/ a.dragging => a.armed /\ a.pinch["index"].active

LEMMA ReleasedIsTyped ==
    ASSUME NEW a \in AgentStates
    PROVE  LET b == Released(a)
           IN  /\ b \in AgentStates /\ b.press = Null /\ ~b.dragging
               /\ b.armed = a.armed /\ b.running = a.running /\ b.pinch = a.pinch /\ b.arm = a.arm
               /\ b.swipe = a.swipe /\ b.pose = a.pose /\ b.lost = a.lost
  <1>1. Null \in Ages(DragHold)
    BY ConstantFields
  <1> QED
    BY <1>1 DEF Released, AgentStates

LEMMA ArmedIsTyped ==
    ASSUME simple \in BOOLEAN, NEW a \in AgentStates, ~a.armed
    PROVE  LET b == SetArmed(a, TRUE)
           IN  /\ b \in AgentStates /\ b.press = a.press /\ b.dragging = a.dragging
               /\ b.running = a.running /\ b.arm = a.arm
               /\ \A f \in Fingers : b.pinch[f].since = a.pinch[f].since
  <1> DEFINE ready == TRUE /\ ~simple
             b == [a EXCEPT !.armed = TRUE, !.armedFor = 0,
                            !.swipe = NoSwipe(@.since), !.swipeReady = ready,
                            !.pinch = Reset(@), !.autoArm = Null]
  <1>1. /\ a.pinch \in [Fingers -> PinchStates] /\ a.swipe \in SwipeStates
    BY AgentFields
  <1>2. /\ Reset(a.pinch) \in [Fingers -> PinchStates]
        /\ \A f \in Fingers : Reset(a.pinch)[f].since = a.pinch[f].since
        /\ NoSwipe(a.swipe.since) \in SwipeStates
    BY <1>1, ResetIsTyped, SwipingIsTyped
  <1>3. 0 \in 0..Warmup /\ Null \in Ages(AutoArm) /\ ready \in BOOLEAN
    BY ConstantFields
  <1>4. SetArmed(a, TRUE) = b
    BY DEF SetArmed
  <1> HIDE DEF ready
  <1>5. b \in AgentStates
    BY <1>2, <1>3 DEF AgentStates, PinchStates, SwipeStates
  <1>6. /\ b.press = a.press /\ b.dragging = a.dragging
        /\ b.running = a.running /\ b.arm = a.arm /\ b.pinch = Reset(a.pinch)
    BY DEF AgentStates
  <1> QED
    BY <1>2, <1>4, <1>5, <1>6

LEMMA DisarmedIsTyped ==
    ASSUME simple \in BOOLEAN, NEW a \in AgentStates
    PROVE  LET b == SetArmed(a, FALSE)
           IN  /\ b \in AgentStates /\ ~b.armed
               /\ b.running = a.running /\ b.arm = a.arm
               /\ ~a.armed => b = a
               /\ a.armed => b.press = Null /\ ~b.dragging /\ ~b.pinch["index"].active
               /\ \A f \in Fingers : b.pinch[f].since = a.pinch[f].since
  <1>1. CASE ~a.armed
    BY <1>1, AgentFields DEF SetArmed
  <1>2. CASE a.armed
    <2> DEFINE r == Released(a)
               swipe == NoSwipe(r.swipe.since)
               pinch == Reset(r.pinch)
               b == [r EXCEPT !.armed = FALSE, !.armedFor = 0, !.swipe = swipe,
                              !.swipeReady = FALSE, !.pinch = pinch, !.autoArm = Null]
    <2>1. /\ r \in AgentStates /\ r.press = Null /\ ~r.dragging
          /\ r.running = a.running /\ r.pinch = a.pinch /\ r.arm = a.arm
      BY ReleasedIsTyped
    <2>2. SetArmed(a, FALSE) = b
      BY <1>2 DEF SetArmed
    <2> HIDE DEF r
    <2>3. r.pinch \in [Fingers -> PinchStates] /\ r.swipe \in SwipeStates
      BY <2>1, AgentFields
    <2>4. /\ Reset(r.pinch) \in [Fingers -> PinchStates]
          /\ \A f \in Fingers : ~Reset(r.pinch)[f].active /\ Reset(r.pinch)[f].since = r.pinch[f].since
          /\ NoSwipe(r.swipe.since) \in SwipeStates
      BY <2>3, ResetIsTyped, SwipingIsTyped
    <2>5. 0 \in 0..Warmup /\ Null \in Ages(AutoArm) /\ "index" \in Fingers
      BY ConstantFields
    <2> HIDE DEF swipe, pinch
    <2>6. b \in AgentStates
      <3>1. swipe \in SwipeStates /\ pinch \in [Fingers -> PinchStates]
        BY <2>4 DEF swipe, pinch
      <3> QED
        BY <2>1, <2>5, <3>1, ZenonT(40) DEF AgentStates, PinchStates, SwipeStates
    <2>7. /\ b.press = r.press /\ b.dragging = r.dragging /\ ~b.armed
          /\ b.running = r.running /\ b.arm = r.arm /\ b.pinch = pinch
      BY <2>1 DEF AgentStates
    <2> HIDE DEF b
    <2> QED
      BY <1>2, <2>1, <2>2, <2>4, <2>5, <2>6, <2>7 DEF pinch
  <1> QED
    BY <1>1, <1>2

LEMMA AutoArmingIsTyped ==
    ASSUME simple \in BOOLEAN, NEW a \in AgentStates, ~a.armed
    PROVE  LET b == AutoArming(a)
           IN  /\ b \in AgentStates /\ b.press = a.press /\ b.dragging = a.dragging
               /\ b.running = a.running /\ b.arm = a.arm
               /\ \A f \in Fingers : b.pinch[f].since = a.pinch[f].since
  <1> DEFINE b == [a EXCEPT !.disarm = NoHold]
             c == [b EXCEPT !.autoArm = Null]
             d == [b EXCEPT !.autoArm = 0]
  <1>1. NoHold \in Holds(DisarmHold) /\ Null \in Ages(AutoArm) /\ 0 \in Ages(AutoArm)
    BY ConstantFields
  <1>2. /\ b \in AgentStates /\ b.press = a.press /\ b.dragging = a.dragging /\ ~b.armed
        /\ b.running = a.running /\ b.arm = a.arm /\ b.pinch = a.pinch
    BY <1>1 DEF AgentStates
  <1>3. AutoArming(a) \in {a, b, c, d, SetArmed(b, TRUE)}
    BY DEF AutoArming
  <1> HIDE DEF b
  <1>4. /\ c \in AgentStates /\ c.press = b.press /\ c.dragging = b.dragging
        /\ c.running = b.running /\ c.arm = b.arm /\ c.pinch = b.pinch
    BY <1>1, <1>2 DEF AgentStates
  <1>5. /\ d \in AgentStates /\ d.press = b.press /\ d.dragging = b.dragging
        /\ d.running = b.running /\ d.arm = b.arm /\ d.pinch = b.pinch
    BY <1>1, <1>2 DEF AgentStates
  <1> HIDE DEF c, d
  <1>6. LET e == SetArmed(b, TRUE)
        IN  /\ e \in AgentStates /\ e.press = b.press /\ e.dragging = b.dragging
            /\ e.running = b.running /\ e.arm = b.arm
            /\ \A f \in Fingers : e.pinch[f].since = b.pinch[f].since
    BY <1>2, ArmedIsTyped
  <1> QED
    BY <1>2, <1>3, <1>4, <1>5, <1>6

LEMMA PalmArmingIsTyped ==
    ASSUME simple \in BOOLEAN, NEW a \in AgentStates, ~a.armed
    PROVE  LET b == PalmArming(a)
           IN  /\ b \in AgentStates /\ b.press = a.press /\ b.dragging = a.dragging
               /\ b.running = a.running
               /\ b.arm = Holding(a.arm, a.pose.stable = "palm", ArmHold)
               /\ b.armed => Fires(a.arm, a.pose.stable = "palm", ArmHold)
               /\ \A f \in Fingers : b.pinch[f].since = a.pinch[f].since
  <1> DEFINE arm == Holding(a.arm, a.pose.stable = "palm", ArmHold)
             fires == Fires(a.arm, a.pose.stable = "palm", ArmHold)
             b == [a EXCEPT !.arm = arm, !.disarm = NoHold]
  <1>1. NoHold \in Holds(DisarmHold) /\ ArmHold \in Nat /\ a.arm \in Holds(ArmHold)
    BY ConstantFields, AgentFields
  <1>2. arm \in Holds(ArmHold)
    BY <1>1, HoldingIsTyped
  <1>3. PalmArming(a) = IF fires THEN SetArmed(b, TRUE) ELSE b
    BY DEF PalmArming
  <1> HIDE DEF arm, fires
  <1>4. /\ b \in AgentStates /\ b.press = a.press /\ b.dragging = a.dragging /\ ~b.armed
        /\ b.running = a.running /\ b.arm = arm /\ b.pinch = a.pinch
    BY <1>1, <1>2 DEF AgentStates
  <1> HIDE DEF b
  <1>5. LET e == SetArmed(b, TRUE)
        IN  /\ e \in AgentStates /\ e.press = b.press /\ e.dragging = b.dragging
            /\ e.running = b.running /\ e.arm = b.arm
            /\ \A f \in Fingers : e.pinch[f].since = b.pinch[f].since
    BY <1>4, ArmedIsTyped
  <1>6. /\ PalmArming(a) \in AgentStates /\ PalmArming(a).press = a.press
        /\ PalmArming(a).dragging = a.dragging
        /\ PalmArming(a).running = a.running /\ PalmArming(a).arm = arm
        /\ PalmArming(a).armed => fires
        /\ \A f \in Fingers : PalmArming(a).pinch[f].since = a.pinch[f].since
    BY <1>3, <1>4, <1>5
  <1> QED
    BY <1>6 DEF arm, fires

LEMMA WatchingIsTyped ==
    ASSUME simple \in BOOLEAN, NEW a \in AgentStates
    PROVE  LET b == Watching(a)
           IN  /\ b \in AgentStates /\ b.press = a.press /\ b.dragging = a.dragging
               /\ b.armed = a.armed /\ b.running = a.running /\ b.arm = NoHold
               /\ b.pinch = a.pinch /\ b.pose = a.pose
  <1> DEFINE disarm == Holding(a.disarm, a.pose.stable = "fist", DisarmHold)
             auto == IF simple THEN Null ELSE a.autoArm
             b == [a EXCEPT !.arm = NoHold, !.autoArm = auto, !.disarm = disarm]
  <1>1. /\ NoHold \in Holds(ArmHold) /\ DisarmHold \in Nat /\ Null \in Ages(AutoArm)
        /\ a.disarm \in Holds(DisarmHold) /\ a.autoArm \in Ages(AutoArm)
    BY ConstantFields, AgentFields
  <1>2. disarm \in Holds(DisarmHold) /\ auto \in Ages(AutoArm)
    BY <1>1, HoldingIsTyped
  <1>3. Watching(a) = b
    BY DEF Watching, AgentStates
  <1> HIDE DEF disarm, auto
  <1>4. /\ b \in AgentStates /\ b.press = a.press /\ b.dragging = a.dragging
        /\ b.armed = a.armed /\ b.running = a.running /\ b.arm = NoHold
        /\ b.pinch = a.pinch /\ b.pose = a.pose
    BY <1>1, <1>2 DEF AgentStates
  <1> QED
    BY <1>3, <1>4

LEMMA SweptIsTyped ==
    ASSUME simple \in BOOLEAN, NEW a \in AgentStates, NEW move
    PROVE  LET b == Swept(a, move)
           IN  /\ b \in AgentStates /\ b.press = a.press /\ b.dragging = a.dragging
               /\ b.armed = a.armed /\ b.running = a.running /\ b.arm = a.arm
               /\ b.pinch = a.pinch
  <1> DEFINE none == NoSwipe(a.swipe.since)
             swiping == IF a.swipeReady THEN Swiping(a.swipe, move) ELSE none
             b == [a EXCEPT !.swipeReady = FALSE, !.swipe = none]
             c == [a EXCEPT !.swipeReady = TRUE, !.swipe = none]
             d == [a EXCEPT !.swipe = swiping]
  <1>1. none \in SwipeStates /\ swiping \in SwipeStates
    BY AgentFields, SwipingIsTyped
  <1>2. Swept(a, move) = IF simple THEN b ELSE IF a.pose.stable # "palm" THEN c ELSE d
    BY DEF Swept, AgentStates
  <1> HIDE DEF none, swiping
  <1>3. /\ b \in AgentStates /\ b.press = a.press /\ b.dragging = a.dragging
        /\ b.armed = a.armed /\ b.running = a.running /\ b.arm = a.arm
        /\ b.pinch = a.pinch
    BY <1>1 DEF AgentStates, SwipeStates
  <1>4. /\ c \in AgentStates /\ c.press = a.press /\ c.dragging = a.dragging
        /\ c.armed = a.armed /\ c.running = a.running /\ c.arm = a.arm
        /\ c.pinch = a.pinch
    BY <1>1 DEF AgentStates, SwipeStates
  <1>5. /\ d \in AgentStates /\ d.press = a.press /\ d.dragging = a.dragging
        /\ d.armed = a.armed /\ d.running = a.running /\ d.arm = a.arm
        /\ d.pinch = a.pinch
    BY <1>1 DEF AgentStates, SwipeStates
  <1> QED
    BY <1>2, <1>3, <1>4, <1>5

\* A drag follows a press that has lasted, goes on with the pinch and ends
\* with it.
LEMMA PinchingIsTyped ==
    ASSUME NEW a \in AgentStates, NEW near, PressIsPinch(a), a.armed
    PROVE  LET b == Pinching(a, near)
           IN  /\ b \in AgentStates /\ PressIsPinch(b)
               /\ b.press \in {a.press, 0, Null}
               /\ b.running = a.running /\ b.arm = a.arm
               /\ b.dragging /\ ~a.dragging => a.press # Null /\ a.press >= DragHold
               /\ a.dragging /\ ~b.dragging =>
                     a.pinch["index"].active /\ ~b.pinch["index"].active
               /\ \A f \in Fingers :
                     /\ b.pinch[f].since <= a.pinch[f].since
                     /\ Clicks(a.pinch[f], f, near = f) =>
                           /\ a.pinch[f].since >= ClickCooldown[f]
                           /\ b.pinch[f].since = 0
  <1> DEFINE latches == [f \in Fingers |-> Latched(a.pinch[f], f, near = f)]
             press == IF Clicks(a.pinch["index"], "index", near = "index") THEN 0 ELSE a.press
             index == latches["index"].active
             drags == index /\ (a.dragging \/ (press # Null /\ press >= DragHold))
             ends == a.pinch["index"].active /\ ~index
             last == IF ends THEN Null ELSE press
             b == [a EXCEPT !.pinch = latches, !.dragging = drags, !.press = last]
  <1>1. /\ a.pinch \in [Fingers -> PinchStates] /\ a.press \in Ages(DragHold)
        /\ a.dragging \in BOOLEAN
    BY AgentFields
  <1>2. /\ 0 \in Ages(DragHold) /\ Null \in Ages(DragHold) /\ "index" \in Fingers
        /\ 0 # Null /\ DragHold \in Nat \ {0}
    BY ConstantFields, GestureAssumption
  <1>3. \A f \in Fingers :
            /\ latches[f] \in PinchStates
            /\ latches[f].since <= a.pinch[f].since
            /\ Clicks(a.pinch[f], f, near = f) =>
                  /\ ~a.pinch[f].active /\ latches[f].active /\ latches[f].since = 0
                  /\ a.pinch[f].since >= ClickCooldown[f]
    <2> TAKE f \in Fingers
    <2>1. a.pinch[f] \in PinchStates
      BY <1>1
    <2>2. LET next == Latched(a.pinch[f], f, near = f)
          IN  /\ next \in PinchStates
              /\ next.since <= a.pinch[f].since
              /\ Clicks(a.pinch[f], f, near = f) =>
                    ~a.pinch[f].active /\ next.active /\ next.since = 0
                       /\ a.pinch[f].since >= ClickCooldown[f]
      BY <2>1, LatchedIsTyped
    <2> QED
      BY <2>2
  <1>4. latches \in [Fingers -> PinchStates]
    BY <1>3
  <1>5. Pinching(a, near) = b
    BY DEF Pinching
  <1>6. /\ press \in {a.press, 0}
        /\ press = 0 /\ press # a.press => ~a.pinch["index"].active /\ index
    BY <1>2, <1>3
  <1>7. index \in BOOLEAN
    BY <1>2, <1>4 DEF PinchStates
  <1> HIDE DEF latches
  <1>8. last \in Ages(DragHold) /\ drags \in BOOLEAN /\ last \in {press, Null}
    BY <1>1, <1>2, <1>6, <1>7
  <1> HIDE DEF press
  <1>9. /\ last # Null => press # Null /\ (a.pinch["index"].active => index)
        /\ drags => index /\ (a.dragging \/ (press # Null /\ press >= DragHold))
        /\ index /\ a.dragging => drags
    OBVIOUS
  <1> HIDE DEF drags, last
  <1>10. /\ b \in AgentStates /\ b.press = last /\ b.dragging = drags /\ b.armed = a.armed
         /\ b.running = a.running /\ b.arm = a.arm /\ b.pinch = latches
    BY <1>4, <1>8 DEF AgentStates, PinchStates
  <1> HIDE DEF b
  <1>11. last # Null \/ drags => index
    BY <1>1, <1>6, <1>9 DEF PressIsPinch
  <1>12. PressIsPinch(b)
    BY <1>10, <1>11 DEF PressIsPinch
  <1>13. b.dragging /\ ~a.dragging => a.press # Null /\ a.press >= DragHold
    BY <1>2, <1>6, <1>9, <1>10
  <1>14. a.dragging /\ ~b.dragging => a.pinch["index"].active /\ ~b.pinch["index"].active
    BY <1>9, <1>10 DEF PressIsPinch
  <1>15. b.press \in {a.press, 0, Null}
    BY <1>6, <1>8, <1>10
  <1> QED
    BY <1>3, <1>5, <1>10, <1>12, <1>13, <1>14, <1>15

\* What a frame with a hand does.
LEMMA ObservedIsTyped ==
    ASSUME simple \in BOOLEAN, NEW a \in AgentStates, NEW near, NEW move, PressIsPinch(a)
    PROVE  LET b == Observed(a, near, move)
           IN  /\ b \in AgentStates /\ PressIsPinch(b)
               /\ b.press \in {a.press, 0, Null} /\ b.running = a.running
               /\ a.armed => b.arm = NoHold
               /\ ~a.armed /\ simple => b.arm = a.arm
               /\ ~a.armed /\ ~simple =>
                     /\ b.arm = Holding(a.arm, a.pose.stable = "palm", ArmHold)
                     /\ b.armed => Fires(a.arm, a.pose.stable = "palm", ArmHold)
               /\ Acts(a) =>
                     /\ b.dragging /\ ~a.dragging => a.press # Null /\ a.press >= DragHold
                     /\ a.dragging /\ ~b.dragging =>
                           a.pinch["index"].active /\ ~b.pinch["index"].active
                     /\ \A f \in Fingers : Clicks(a.pinch[f], f, near = f) =>
                           /\ a.pinch[f].since >= ClickCooldown[f]
                           /\ b.pinch[f].since = 0
               /\ \A f \in Fingers : b.pinch[f].since <= a.pinch[f].since
  <1> SUFFICES ASSUME NEW b, b = Observed(a, near, move)
               PROVE  /\ b \in AgentStates /\ PressIsPinch(b)
                      /\ b.press \in {a.press, 0, Null} /\ b.running = a.running
                      /\ a.armed => b.arm = NoHold
                      /\ ~a.armed /\ simple => b.arm = a.arm
                      /\ ~a.armed /\ ~simple =>
                            /\ b.arm = Holding(a.arm, a.pose.stable = "palm", ArmHold)
                            /\ b.armed => Fires(a.arm, a.pose.stable = "palm", ArmHold)
                      /\ Acts(a) =>
                            /\ b.dragging /\ ~a.dragging => a.press # Null /\ a.press >= DragHold
                            /\ a.dragging /\ ~b.dragging =>
                                  a.pinch["index"].active /\ ~b.pinch["index"].active
                            /\ \A f \in Fingers : Clicks(a.pinch[f], f, near = f) =>
                                  /\ a.pinch[f].since >= ClickCooldown[f]
                                  /\ b.pinch[f].since = 0
                      /\ \A f \in Fingers : b.pinch[f].since <= a.pinch[f].since
    OBVIOUS
  <1> DEFINE w == Watching(a)
             s == Swept(w, move)
  <1>0. \A f \in Fingers : a.pinch[f].since \in Nat
    BY AgentFields DEF PinchStates
  <1>1. CASE ~a.armed /\ simple
    <2>1. b = AutoArming(a) /\ ~Acts(a)
      BY <1>1 DEF Observed, Acts
    <2>2. /\ b \in AgentStates /\ b.press = a.press /\ b.dragging = a.dragging
          /\ b.running = a.running /\ b.arm = a.arm
          /\ \A f \in Fingers : b.pinch[f].since = a.pinch[f].since
      BY <1>1, <2>1, AutoArmingIsTyped
    <2>3. PressIsPinch(b)
      BY <1>1, <2>2 DEF PressIsPinch
    <2> QED
      BY <1>0, <1>1, <2>1, <2>2, <2>3
  <1>2. CASE ~a.armed /\ ~simple
    <2>1. b = PalmArming(a) /\ ~Acts(a)
      BY <1>2 DEF Observed, Acts
    <2>2. /\ b \in AgentStates /\ b.press = a.press /\ b.dragging = a.dragging
          /\ b.running = a.running
          /\ b.arm = Holding(a.arm, a.pose.stable = "palm", ArmHold)
          /\ b.armed => Fires(a.arm, a.pose.stable = "palm", ArmHold)
          /\ \A f \in Fingers : b.pinch[f].since = a.pinch[f].since
      BY <1>2, <2>1, PalmArmingIsTyped
    <2>3. PressIsPinch(b)
      BY <1>2, <2>2 DEF PressIsPinch
    <2> QED
      BY <1>0, <1>2, <2>1, <2>2, <2>3
  <1>3. /\ w \in AgentStates /\ w.press = a.press /\ w.dragging = a.dragging
        /\ w.armed = a.armed /\ w.running = a.running /\ w.arm = NoHold
        /\ w.pinch = a.pinch
    BY WatchingIsTyped
  <1> HIDE DEF w
  <1>4. CASE a.armed /\ Disarms(a)
    <2>1. b = SetArmed(w, FALSE) /\ ~Acts(a)
      BY <1>4 DEF Observed, Acts, w
    <2>a. /\ SetArmed(w, FALSE) \in AgentStates /\ SetArmed(w, FALSE).running = w.running
          /\ SetArmed(w, FALSE).arm = w.arm
          /\ w.armed => SetArmed(w, FALSE).press = Null /\ ~SetArmed(w, FALSE).dragging
          /\ \A f \in Fingers : SetArmed(w, FALSE).pinch[f].since = w.pinch[f].since
      BY <1>3, DisarmedIsTyped
    <2>2. /\ b \in AgentStates /\ b.press = Null /\ ~b.dragging
          /\ b.running = a.running /\ b.arm = NoHold
          /\ \A f \in Fingers : b.pinch[f].since = a.pinch[f].since
      BY <1>3, <1>4, <2>1, <2>a
    <2>3. PressIsPinch(b)
      BY <2>2 DEF PressIsPinch
    <2>4. \A f \in Fingers : b.pinch[f].since <= a.pinch[f].since
      BY <1>0, <2>2
    <2>5. b.press \in {a.press, 0, Null}
      BY <2>2
    <2> QED
      BY ONLY <1>4, <2>1, <2>2, <2>3, <2>4, <2>5
  <1>5. CASE a.armed /\ ~Disarms(a) /\ ~Warm(a)
    <2>1. b = w /\ ~Acts(a)
      BY <1>5 DEF Observed, Acts, w
    <2>3. PressIsPinch(b)
      BY <1>3, <2>1 DEF PressIsPinch
    <2>4. /\ b \in AgentStates /\ b.press = a.press /\ b.arm = NoHold
          /\ b.running = a.running /\ b.pinch = a.pinch
      BY <1>3, <2>1
    <2> QED
      BY <1>0, <1>5, <2>1, <2>3, <2>4
  <1>6. CASE a.armed /\ ~Disarms(a) /\ Warm(a)
    <2>1. b = Pinching(s, near)
      BY <1>6 DEF Observed, w
    <2>2. /\ s \in AgentStates /\ s.press = a.press /\ s.dragging = a.dragging
          /\ s.armed = a.armed /\ s.running = a.running /\ s.arm = NoHold
          /\ s.pinch = a.pinch
      BY <1>3, SweptIsTyped
    <2> HIDE DEF s
    <2>3. PressIsPinch(s)
      BY <2>2 DEF PressIsPinch
    <2>a. LET c == Pinching(s, near)
          IN  /\ c \in AgentStates /\ PressIsPinch(c)
              /\ c.press \in {s.press, 0, Null}
              /\ c.running = s.running /\ c.arm = s.arm
              /\ c.dragging /\ ~s.dragging => s.press # Null /\ s.press >= DragHold
              /\ s.dragging /\ ~c.dragging =>
                    s.pinch["index"].active /\ ~c.pinch["index"].active
              /\ \A f \in Fingers :
                    /\ c.pinch[f].since <= s.pinch[f].since
                    /\ Clicks(s.pinch[f], f, near = f) =>
                          /\ s.pinch[f].since >= ClickCooldown[f]
                          /\ c.pinch[f].since = 0
      <3>1. s.armed
        BY <1>6, <2>2
      <3> QED
        BY <3>1, <2>2, <2>3, PinchingIsTyped
    <2>4. /\ b \in AgentStates /\ PressIsPinch(b)
          /\ b.press \in {s.press, 0, Null}
          /\ b.running = s.running /\ b.arm = s.arm
          /\ b.dragging /\ ~s.dragging => s.press # Null /\ s.press >= DragHold
          /\ s.dragging /\ ~b.dragging =>
                s.pinch["index"].active /\ ~b.pinch["index"].active
          /\ \A f \in Fingers :
                /\ b.pinch[f].since <= s.pinch[f].since
                /\ Clicks(s.pinch[f], f, near = f) =>
                      /\ s.pinch[f].since >= ClickCooldown[f]
                      /\ b.pinch[f].since = 0
      BY <2>1, <2>a
    <2> QED
      BY <1>6, <2>2, <2>4
  <1> QED
    BY <1>1, <1>2, <1>4, <1>5, <1>6

\* What a frame without one does: only an armed agent stays armed.
LEMMA LostIsTyped ==
    ASSUME simple \in BOOLEAN, NEW a \in AgentStates
    PROVE  LET b == Lost(a)
           IN  /\ b \in AgentStates /\ b.press = Null /\ ~b.dragging
               /\ b.running = a.running /\ b.arm = NoHold
               /\ b.armed => a.armed
               /\ \A f \in Fingers : b.pinch[f].since = a.pinch[f].since
  <1> DEFINE r == Released(a)
             pose == Debounced(r.pose, "none")
             ready == a.armed /\ ~simple
             b == [r EXCEPT !.pose = pose, !.swipe = NoSwipe(@.since),
                            !.swipeReady = ready, !.autoArm = Null,
                            !.pinch = Reset(@), !.arm = NoHold, !.disarm = NoHold]
             c == SetArmed(b, FALSE)
  <1>1. /\ r \in AgentStates /\ r.press = Null /\ ~r.dragging
        /\ r.armed = a.armed /\ r.running = a.running /\ r.pinch = a.pinch
    BY ReleasedIsTyped
  <1>2. /\ r.pose \in PoseStates /\ r.swipe \in SwipeStates /\ r.pinch \in [Fingers -> PinchStates]
        /\ a.armed \in BOOLEAN /\ "none" \in Poses
    BY <1>1, AgentFields, GestureAssumption
  <1> HIDE DEF r
  <1>3. /\ pose \in PoseStates /\ ready \in BOOLEAN /\ NoSwipe(r.swipe.since) \in SwipeStates
        /\ Reset(r.pinch) \in [Fingers -> PinchStates]
        /\ \A f \in Fingers : Reset(r.pinch)[f].since = r.pinch[f].since
    BY <1>2, DebouncedIsTyped, SwipingIsTyped, ResetIsTyped
  <1>4. NoHold \in Holds(ArmHold) /\ NoHold \in Holds(DisarmHold) /\ Null \in Ages(AutoArm)
    BY ConstantFields
  <1>5. Lost(a) \in {b, c}
    BY DEF Lost, r
  <1> HIDE DEF pose, ready
  <1>6. b \in AgentStates
    BY <1>1, <1>3, <1>4, ZenonT(40) DEF AgentStates, PoseStates, PinchStates, SwipeStates
  <1>7. /\ b.press = r.press /\ b.dragging = r.dragging /\ b.armed = r.armed
        /\ b.running = r.running /\ b.arm = NoHold /\ b.pinch = Reset(r.pinch)
    BY <1>1 DEF AgentStates
  <1> HIDE DEF b
  <1>8. /\ c \in AgentStates /\ ~c.armed /\ c.running = b.running /\ c.arm = b.arm
        /\ ~b.armed => c = b
        /\ b.armed => c.press = Null /\ ~c.dragging
        /\ \A f \in Fingers : c.pinch[f].since = b.pinch[f].since
    BY <1>6, DisarmedIsTyped
  <1> QED
    BY <1>1, <1>3, <1>5, <1>6, <1>7, <1>8

-----------------------------------------------------------------------------
(* The stable agent keeps its invariant                                     *)

\* The desktop knows of no drag that the agent does not.
HeldIsDragged == held => agent.dragging

\* A press is not older than the pinch.
PressIsShown ==
    /\ agent.pinch["index"].active <=> pinched # Null
    /\ agent.press # Null => agent.press <= pinched

\* A hold that can still arm is not older than the palm; in simple mode
\* there is none, and one that has armed is used up.
PalmIsShown ==
    /\ simple => agent.arm.age = Null
    /\ agent.armed => agent.arm.age = Null \/ agent.arm.fired
    /\ agent.running /\ agent.arm.age # Null /\ ~agent.arm.fired =>
          palm # Null /\ agent.arm.age <= palm

\* The latch of a finger measures no more than the time since its last click.
CooldownIsKept == \A f \in Fingers \ {"index"} : agent.pinch[f].since <= quiet[f]

StableInv ==
    /\ TypeOK /\ PressIsPinch(agent) /\ HeldIsDragged
    /\ PressIsShown /\ PalmIsShown /\ CooldownIsKept

Calls == ({"click", "down", "up"} \X Fingers) \cup {<<"swipe", "palm">>}

\* What a frame, a stop or the end calls is in step with the agent after it.
LEMMA SettleKeepsInvariant ==
    ASSUME StableInv, NEW next \in AgentStates, NEW done, Settle(next, done),
           done \subseteq Calls, PressIsPinch(next),
           next.press \in {agent.press, 0, Null},
           <<"down", "index">> \in done => next.dragging,
           agent.dragging /\ ~next.dragging => <<"up", "index">> \in done,
           \A f \in Fingers : next.pinch[f].since <= agent.pinch[f].since,
           \A f \in Fingers \ {"index"} :
               <<"click", f>> \in done => next.pinch[f].since = 0,
           palm' \in Ages(ArmHold), PalmIsShown'
    PROVE  StableInv'
  <1>1. agent' = next /\ calls' = done /\ simple' = simple
    BY DEF Settle
  <1>2. /\ agent \in AgentStates /\ pinched \in Ages(DragHold) /\ quiet \in [Fingers -> Nat]
        /\ held \in BOOLEAN /\ simple \in BOOLEAN
    BY DEF StableInv, TypeOK
  <1>3. /\ "index" \in Fingers /\ 0 \in Ages(DragHold) /\ Null \in Ages(DragHold) /\ 0 # Null
        /\ Null \notin Int /\ DragHold \in Nat
    BY ConstantFields, GestureAssumption
  <1>4. pinched' = IF ~next.pinch["index"].active THEN Null
                   ELSE IF agent.pinch["index"].active THEN pinched ELSE 0
    BY DEF Settle
  <1>5. quiet' = [f \in Fingers |-> IF <<"click", f>> \in done THEN 0 ELSE quiet[f]]
    BY DEF Settle
  <1>6. held' = ((held \/ <<"down", "index">> \in done) /\ <<"up", "index">> \notin done)
    BY DEF Settle
  <1>7. pinched' \in Ages(DragHold)
    BY <1>2, <1>3, <1>4
  <1>8. quiet' \in [Fingers -> Nat]
    BY <1>2, <1>5
  <1>9. TypeOK'
    BY <1>1, <1>2, <1>6, <1>7, <1>8 DEF TypeOK, Calls
  <1>10. PressIsPinch(agent)'
    BY <1>1 DEF PressIsPinch
  <1>11. HeldIsDragged'
    BY <1>1, <1>6 DEF HeldIsDragged, StableInv
  <1>12. PressIsShown'
    <2>1. (pinched # Null <=> agent.pinch["index"].active)
            /\ (agent.press # Null => agent.press <= pinched /\ agent.pinch["index"].active)
      BY DEF StableInv, PressIsShown, PressIsPinch
    <2>2. next.pinch["index"].active <=> pinched' # Null
      BY <1>3, <1>4, <2>1
    <2>3. ASSUME next.press # Null PROVE next.press <= pinched'
      <3>1. next.pinch["index"].active
        BY <2>3 DEF PressIsPinch
      <3>2. pinched' = IF agent.pinch["index"].active THEN pinched ELSE 0
        BY <1>4, <3>1
      <3>3. CASE next.press = 0
        BY <1>7, <1>3, <2>2, <3>1, <3>3 DEF Ages
      <3>4. CASE next.press = agent.press
        BY <2>1, <2>3, <3>2, <3>4
      <3> QED
        BY <2>3, <3>3, <3>4
    <2> QED
      BY <1>1, <2>2, <2>3 DEF PressIsShown
  <1>13. CooldownIsKept'
    <2> SUFFICES ASSUME NEW f \in Fingers \ {"index"}
                 PROVE  next.pinch[f].since <= quiet'[f]
      BY <1>1 DEF CooldownIsKept
    <2>1. /\ agent.pinch[f].since \in Nat /\ next.pinch[f].since \in Nat /\ quiet[f] \in Nat
      BY <1>2, AgentFields DEF PinchStates
    <2>2. agent.pinch[f].since <= quiet[f]
      BY DEF StableInv, CooldownIsKept
    <2>3. quiet'[f] = IF <<"click", f>> \in done THEN 0 ELSE quiet[f]
      BY <1>5
    <2> QED
      BY <2>1, <2>2, <2>3
  <1> QED
    BY <1>9, <1>10, <1>11, <1>12, <1>13 DEF StableInv

LEMMA ReleaseCallIsTyped ==
    ASSUME NEW next
    PROVE  /\ ReleaseCall(next) \subseteq Calls
           /\ <<"down", "index">> \notin ReleaseCall(next)
           /\ \A f \in Fingers : <<"click", f>> \notin ReleaseCall(next)
           /\ agent.dragging /\ ~next.dragging => <<"up", "index">> \in ReleaseCall(next)
  BY ConstantFields DEF ReleaseCall, Calls

\* What the pinches and the palm call.
LEMMA PinchCallsAreTyped ==
    ASSUME NEW a, NEW b, NEW near, NEW move, a.dragging \in BOOLEAN
    PROVE  LET made_ == PinchCalls(a, b, near) \cup SwipeCalls(a, move)
           IN  /\ made_ \subseteq Calls
               /\ <<"down", "index">> \in made_ => b.dragging /\ ~a.dragging
               /\ a.dragging /\ a.pinch["index"].active /\ ~b.pinch["index"].active =>
                     <<"up", "index">> \in made_
               /\ \A f \in Fingers \ {"index"} :
                     <<"click", f>> \in made_ => Clicks(a.pinch[f], f, near = f)
  <1>1. "index" \in Fingers
    BY ConstantFields
  <1> DEFINE clicks == {<<"click", f>> : f \in {f \in Fingers \ {"index"} :
                            Clicks(a.pinch[f], f, near = f)}}
             downs == IF b.dragging /\ ~a.dragging THEN {<<"down", "index">>} ELSE {}
             ends == IF a.pinch["index"].active /\ ~b.pinch["index"].active
                     THEN {<<IF a.dragging THEN "up" ELSE "click", "index">>} ELSE {}
             swipes == SwipeCalls(a, move)
  <1>2. PinchCalls(a, b, near) = clicks \cup downs \cup ends
    BY DEF PinchCalls
  <1>3. /\ clicks \subseteq Calls
        /\ \A c \in clicks : c[1] = "click"
        /\ \A f : <<"click", f>> \in clicks => Clicks(a.pinch[f], f, near = f)
    BY DEF Calls
  <1>4. /\ downs \subseteq Calls
        /\ \A c \in downs : c[1] = "down" /\ b.dragging /\ ~a.dragging
    BY <1>1 DEF Calls
  <1>5. /\ ends \subseteq Calls
        /\ \A c \in ends : c \in {<<"up", "index">>, <<"click", "index">>}
        /\ a.dragging /\ a.pinch["index"].active /\ ~b.pinch["index"].active =>
              <<"up", "index">> \in ends
    BY <1>1 DEF Calls
  <1>6. swipes \subseteq Calls /\ \A c \in swipes : c[1] = "swipe"
    BY DEF SwipeCalls, Calls
  <1> HIDE DEF clicks, downs, ends, swipes
  <1>7. <<"down", "index">> \in PinchCalls(a, b, near) \cup swipes => b.dragging /\ ~a.dragging
    BY <1>2, <1>3, <1>4, <1>5, <1>6
  <1>8. \A f \in Fingers \ {"index"} :
           <<"click", f>> \in PinchCalls(a, b, near) \cup swipes => <<"click", f>> \in clicks
    BY <1>2, <1>4, <1>5, <1>6
  <1>9. PinchCalls(a, b, near) \cup swipes \subseteq Calls
    BY <1>2, <1>3, <1>4, <1>5, <1>6
  <1>10. /\ a.dragging /\ a.pinch["index"].active /\ ~b.pinch["index"].active =>
            <<"up", "index">> \in PinchCalls(a, b, near) \cup swipes
    BY <1>2, <1>5
  <1> QED
    BY <1>3, <1>7, <1>8, <1>9, <1>10 DEF swipes

LEMMA StableInitially == Init => StableInv
  <1> SUFFICES ASSUME Init PROVE StableInv
    OBVIOUS
  <1>1. /\ PinchEnter \in Nat \ {0} /\ PinchRelease \in Nat \ {0}
        /\ ClickCooldown \in [Fingers -> Nat] /\ "none" \in Poses
        /\ SwipeCooldown \in Nat /\ 0 \in 0..SwipeCooldown
        /\ Null \in Ages(SwipeDuration + 1) /\ Null \in Ages(ArmHold)
    BY GestureAssumption DEF Ages
  <1>2. [f \in Fingers |-> Open(f, ClickCooldown[f])] \in [Fingers -> PinchStates]
    BY <1>1 DEF Open, PinchStates
  <1>3. NoSwipe(SwipeCooldown) \in SwipeStates
    BY <1>1 DEF NoSwipe, SwipeStates
  <1>4. NoPose \in PoseStates
    BY <1>1 DEF NoPose, PoseStates
  <1>5. agent \in AgentStates
    BY <1>2, <1>3, <1>4, ConstantFields DEF Init, AgentStates, PinchStates, SwipeStates, PoseStates
  <1>6. /\ ~agent.dragging /\ agent.press = Null /\ agent.arm = NoHold
        /\ agent.pinch = [f \in Fingers |-> Open(f, ClickCooldown[f])]
    BY DEF Init
  <1>7. \A f \in Fingers : ~agent.pinch[f].active /\ agent.pinch[f].since = ClickCooldown[f]
    BY <1>6 DEF Open
  <1>8. TypeOK
    BY <1>1, <1>5, ConstantFields DEF Init, TypeOK
  <1>9. PressIsPinch(agent) /\ HeldIsDragged
    BY <1>6 DEF Init, PressIsPinch, HeldIsDragged
  <1>10. PressIsShown /\ PalmIsShown
    BY <1>6, <1>7, ConstantFields DEF Init, PressIsShown, PalmIsShown
  <1>11. CooldownIsKept
    BY <1>1, <1>7 DEF Init, CooldownIsKept
  <1> QED
    BY <1>8, <1>9, <1>10, <1>11 DEF StableInv

\* What the action properties say of one step.
DragsAfterHold == (<<"down", "index">> \in calls') => pinched # Null /\ pinched >= DragHold

ArmsAfterHold == (~simple /\ ~agent.armed /\ agent'.armed) => palm # Null /\ palm >= ArmHold

ClicksAfterCooldown == \A f \in Fingers \ {"index"} :
    (<<"click", f>> \in calls') => quiet[f] >= ClickCooldown[f]

LEMMA HandFrameStep ==
    ASSUME StableInv, HandFrame
    PROVE  StableInv' /\ DragsAfterHold /\ ArmsAfterHold /\ ClicksAfterCooldown
  <1>1. PICK raw \in Poses, near \in Fingers \cup {Null}, move \in Moves :
            LET a == Posed(raw)
                b == Observed(a, near, move)
            IN  /\ agent.running
                /\ Settle(b, IF Acts(a) THEN PinchCalls(a, b, near) \cup SwipeCalls(a, move)
                             ELSE ReleaseCall(b))
                /\ palm' = IF a.armed \/ a.pose.stable # "palm" THEN Null
                           ELSE IF palm = Null THEN 0 ELSE palm
    BY DEF HandFrame
  <1> DEFINE a == Posed(raw)
             b == Observed(a, near, move)
             done == IF Acts(a) THEN PinchCalls(a, b, near) \cup SwipeCalls(a, move)
                     ELSE ReleaseCall(b)
  <1>2. /\ agent \in AgentStates /\ simple \in BOOLEAN /\ palm \in Ages(ArmHold)
        /\ pinched \in Ages(DragHold) /\ quiet \in [Fingers -> Nat]
    BY DEF StableInv, TypeOK
  <1>3. Debounced(agent.pose, raw) \in PoseStates /\ 0 \in Nat
    BY <1>2, AgentFields, DebouncedIsTyped
  <1>4. /\ a \in AgentStates
        /\ a.press = agent.press /\ a.dragging = agent.dragging /\ a.armed = agent.armed
        /\ a.running = agent.running /\ a.arm = agent.arm /\ a.pinch = agent.pinch
    BY <1>2, <1>3 DEF Posed, AgentStates, PoseStates
  <1>5. /\ agent.running
        /\ Settle(b, done)
        /\ palm' = IF a.armed \/ a.pose.stable # "palm" THEN Null
                   ELSE IF palm = Null THEN 0 ELSE palm
    BY <1>1
  <1> HIDE DEF a
  <1>6. PressIsPinch(a)
    BY <1>4 DEF PressIsPinch, StableInv
  <1>7. /\ b \in AgentStates /\ PressIsPinch(b)
        /\ b.press \in {a.press, 0, Null} /\ b.running = a.running
        /\ a.armed => b.arm = NoHold
        /\ ~a.armed /\ simple => b.arm = a.arm
        /\ ~a.armed /\ ~simple =>
              /\ b.arm = Holding(a.arm, a.pose.stable = "palm", ArmHold)
              /\ b.armed => Fires(a.arm, a.pose.stable = "palm", ArmHold)
        /\ Acts(a) =>
              /\ b.dragging /\ ~a.dragging => a.press # Null /\ a.press >= DragHold
              /\ a.dragging /\ ~b.dragging =>
                    a.pinch["index"].active /\ ~b.pinch["index"].active
              /\ \A f \in Fingers : Clicks(a.pinch[f], f, near = f) =>
                    /\ a.pinch[f].since >= ClickCooldown[f]
                    /\ b.pinch[f].since = 0
        /\ \A f \in Fingers : b.pinch[f].since <= a.pinch[f].since
    BY <1>2, <1>4, <1>6, ObservedIsTyped
  <1> HIDE DEF b
  <1>8. a.dragging \in BOOLEAN
    BY <1>4, AgentFields
  <1>9. Acts(a) => /\ done \subseteq Calls
                   /\ <<"down", "index">> \in done => b.dragging /\ ~a.dragging
                   /\ a.dragging /\ a.pinch["index"].active /\ ~b.pinch["index"].active =>
                         <<"up", "index">> \in done
                   /\ \A f \in Fingers \ {"index"} :
                         <<"click", f>> \in done => Clicks(a.pinch[f], f, near = f)
    BY <1>8, PinchCallsAreTyped
  <1>10. ~Acts(a) => /\ done \subseteq Calls
                     /\ <<"down", "index">> \notin done
                     /\ \A f \in Fingers : <<"click", f>> \notin done
                     /\ agent.dragging /\ ~b.dragging => <<"up", "index">> \in done
    BY ReleaseCallIsTyped
  <1> HIDE DEF done
  <1>11. /\ agent' = b /\ calls' = done /\ simple' = simple
    BY <1>5 DEF Settle
  <1>12. palm' \in Ages(ArmHold)
    BY <1>2, <1>5, ConstantFields DEF Ages
  <1>13. PalmIsShown'
    <2>1. /\ simple => agent.arm.age = Null
          /\ agent.arm.age # Null /\ ~agent.arm.fired => palm # Null /\ agent.arm.age <= palm
      BY <1>5 DEF StableInv, PalmIsShown
    <2>2. NoHold.age = Null
      BY ConstantFields
    <2>3. simple => b.arm.age = Null
      BY <1>4, <1>7, <2>1, <2>2
    <2>4. ASSUME b.arm.age # Null, ~b.arm.fired
          PROVE  palm' # Null /\ b.arm.age <= palm'
      <3>1. ~a.armed /\ ~simple /\ b.arm = Holding(a.arm, a.pose.stable = "palm", ArmHold)
        BY <1>7, <2>2, <2>3, <2>4
      <3>2. a.arm \in Holds(ArmHold) /\ ArmHold \in Nat
        BY <1>4, AgentFields, ConstantFields
      <3>3. a.pose.stable = "palm"
        BY <2>4, <3>1 DEF Holding, NoHold
      <3>4. b.arm = IF a.arm.age = Null THEN [age |-> 0, fired |-> FALSE]
                    ELSE [a.arm EXCEPT !.fired = @ \/ a.arm.age >= ArmHold]
        BY <3>1, <3>3 DEF Holding
      <3>5. palm' = IF palm = Null THEN 0 ELSE palm
        BY <1>5, <3>1, <3>3
      <3>6. CASE a.arm.age = Null
        <4>1. b.arm.age = 0
          BY <3>4, <3>6
        <4>2. palm' # Null /\ palm' >= 0
          BY <1>2, <3>5, ConstantFields, GestureAssumption DEF Ages
        <4> QED
          BY <4>1, <4>2
      <3>7. CASE a.arm.age # Null
        <4>1. b.arm.age = a.arm.age /\ ~a.arm.fired
          BY <2>4, <3>2, <3>4, <3>7 DEF Holds
        <4> QED
          BY <1>4, <2>1, <3>5, <3>7, <4>1
      <3> QED
        BY <3>6, <3>7
    <2>5. ASSUME b.armed PROVE b.arm.age = Null \/ b.arm.fired
      <3> SUFFICES ASSUME ~a.armed, ~simple PROVE b.arm.fired
        BY <1>7, <2>2, <2>3
      <3>1. /\ b.arm = Holding(a.arm, a.pose.stable = "palm", ArmHold)
            /\ Fires(a.arm, a.pose.stable = "palm", ArmHold)
        BY <1>7, <2>5
      <3>2. a.pose.stable = "palm" /\ a.arm.age # Null /\ a.arm.age >= ArmHold
        BY <3>1 DEF Fires
      <3>3. a.arm \in Holds(ArmHold)
        BY <1>4, AgentFields
      <3>4. Holding(a.arm, a.pose.stable = "palm", ArmHold)
              = [a.arm EXCEPT !.fired = @ \/ a.arm.age >= ArmHold]
        BY <3>2 DEF Holding
      <3> QED
        BY <3>1, <3>2, <3>3, <3>4 DEF Holds
    <2> QED
      BY <1>11, <2>3, <2>4, <2>5 DEF PalmIsShown
  <1>14. StableInv'
    <2>1. done \subseteq Calls
      BY <1>9, <1>10
    <2>2. <<"down", "index">> \in done => b.dragging
      BY <1>9, <1>10
    <2>3. agent.dragging /\ ~b.dragging => <<"up", "index">> \in done
      BY <1>4, <1>7, <1>9, <1>10
    <2>4. \A f \in Fingers \ {"index"} : <<"click", f>> \in done => b.pinch[f].since = 0
      BY <1>7, <1>9, <1>10
    <2>5. b.press \in {agent.press, 0, Null}
      BY <1>4, <1>7
    <2>6. \A f \in Fingers : b.pinch[f].since <= agent.pinch[f].since
      BY <1>4, <1>7
    <2> QED
      BY <1>5, <1>7, <1>12, <1>13, <2>1, <2>2, <2>3, <2>4, <2>5, <2>6, SettleKeepsInvariant
  <1>15. DragsAfterHold
    <2> SUFFICES ASSUME <<"down", "index">> \in done PROVE pinched # Null /\ pinched >= DragHold
      BY <1>11 DEF DragsAfterHold
    <2>1. agent.press # Null /\ agent.press >= DragHold
      BY <1>4, <1>7, <1>9, <1>10
    <2>2. agent.press <= pinched /\ pinched # Null
      BY <2>1 DEF StableInv, PressIsShown, PressIsPinch
    <2>3. agent.press \in Nat /\ pinched \in Nat /\ DragHold \in Nat
      BY <1>2, <2>1, <2>2, AgentFields, GestureAssumption DEF Ages
    <2> QED
      BY <2>1, <2>2, <2>3
  <1>16. ArmsAfterHold
    <2> SUFFICES ASSUME ~simple, ~agent.armed, b.armed
                 PROVE  palm # Null /\ palm >= ArmHold
      BY <1>11 DEF ArmsAfterHold
    <2>1. Fires(agent.arm, a.pose.stable = "palm", ArmHold)
      BY <1>4, <1>7
    <2>2. agent.arm.age # Null /\ ~agent.arm.fired /\ agent.arm.age >= ArmHold
      BY <2>1 DEF Fires
    <2>3. palm # Null /\ agent.arm.age <= palm
      BY <1>5, <2>2 DEF StableInv, PalmIsShown
    <2>4. agent.arm \in Holds(ArmHold)
      BY <1>2, AgentFields
    <2>5. agent.arm.age \in Nat /\ palm \in Nat /\ ArmHold \in Nat
      BY <1>2, <2>2, <2>3, <2>4, ConstantFields DEF Ages, Holds
    <2> QED
      BY <2>2, <2>3, <2>5
  <1>17. ClicksAfterCooldown
    <2> SUFFICES ASSUME NEW f \in Fingers \ {"index"}, <<"click", f>> \in done
                 PROVE  quiet[f] >= ClickCooldown[f]
      BY <1>11 DEF ClicksAfterCooldown
    <2>1. Acts(a) /\ Clicks(a.pinch[f], f, near = f)
      BY <1>9, <1>10
    <2>2. agent.pinch[f].since >= ClickCooldown[f]
      BY <1>4, <1>7, <2>1
    <2>3. agent.pinch[f].since <= quiet[f]
      BY DEF StableInv, CooldownIsKept
    <2>4. agent.pinch[f].since \in Nat /\ quiet[f] \in Nat /\ ClickCooldown[f] \in Nat
      BY <1>2, AgentFields, GestureAssumption DEF PinchStates
    <2> QED
      BY <2>2, <2>3, <2>4
  <1> QED
    BY <1>14, <1>15, <1>16, <1>17

\* Frames without a hand, stops and the end: only a release is called.
LEMMA ReleaseStep ==
    ASSUME StableInv, NEW b \in AgentStates, Settle(b, ReleaseCall(b)),
           PressIsPinch(b), b.press \in {agent.press, Null},
           b.armed => agent.armed,
           \A f \in Fingers : b.pinch[f].since = agent.pinch[f].since,
           palm' \in Ages(ArmHold), PalmIsShown'
    PROVE  StableInv' /\ DragsAfterHold /\ ArmsAfterHold /\ ClicksAfterCooldown
  <1>1. agent' = b /\ calls' = ReleaseCall(b)
    BY DEF Settle
  <1>2. \A f \in Fingers : agent.pinch[f].since \in Nat
    BY AgentFields DEF StableInv, TypeOK, PinchStates
  <1>3. \A f \in Fingers : b.pinch[f].since <= agent.pinch[f].since
    BY <1>2
  <1>4. /\ ReleaseCall(b) \subseteq Calls
        /\ <<"down", "index">> \notin ReleaseCall(b)
        /\ \A f \in Fingers : <<"click", f>> \notin ReleaseCall(b)
        /\ agent.dragging /\ ~b.dragging => <<"up", "index">> \in ReleaseCall(b)
    BY ReleaseCallIsTyped
  <1>5. b.press \in {agent.press, 0, Null}
    OBVIOUS
  <1>6. StableInv'
    BY <1>3, <1>4, <1>5, SettleKeepsInvariant
  <1> QED
    BY <1>1, <1>4, <1>6 DEF DragsAfterHold, ArmsAfterHold, ClicksAfterCooldown

LEMMA NoHandFrameStep ==
    ASSUME StableInv, NoHandFrame
    PROVE  StableInv' /\ DragsAfterHold /\ ArmsAfterHold /\ ClicksAfterCooldown
  <1>1. agent \in AgentStates /\ simple \in BOOLEAN
    BY DEF StableInv, TypeOK
  <1> DEFINE b == Lost(agent)
  <1>2. agent.running /\ Settle(b, ReleaseCall(b)) /\ palm' = Null
    BY DEF NoHandFrame
  <1>3. /\ b \in AgentStates /\ b.press = Null /\ ~b.dragging
        /\ b.running = agent.running /\ b.arm = NoHold
        /\ b.armed => agent.armed
        /\ \A f \in Fingers : b.pinch[f].since = agent.pinch[f].since
    BY <1>1, LostIsTyped
  <1> HIDE DEF b
  <1>4. PressIsPinch(b)
    BY <1>3 DEF PressIsPinch
  <1>5. agent' = b /\ NoHold.age = Null
    BY <1>2, ConstantFields DEF Settle
  <1>6. PalmIsShown' /\ palm' \in Ages(ArmHold)
    BY <1>2, <1>3, <1>5 DEF PalmIsShown, Ages
  <1> QED
    BY <1>2, <1>3, <1>4, <1>6, ReleaseStep

LEMMA EmergencyStopStep ==
    ASSUME StableInv, EmergencyStop
    PROVE  StableInv' /\ DragsAfterHold /\ ArmsAfterHold /\ ClicksAfterCooldown
  <1>1. agent \in AgentStates /\ simple \in BOOLEAN /\ palm \in Ages(ArmHold)
    BY DEF StableInv, TypeOK
  <1> DEFINE paused == IF simple THEN ~agent.paused ELSE agent.paused
             a == [agent EXCEPT !.paused = paused]
             b == SetArmed(a, FALSE)
  <1>2. /\ agent.running /\ Settle(b, ReleaseCall(b))
        /\ palm' = IF agent.armed THEN Null ELSE palm
    BY DEF EmergencyStop
  <1>3. paused \in BOOLEAN
    BY <1>1, AgentFields
  <1> HIDE DEF paused
  <1>4. /\ a \in AgentStates /\ a.press = agent.press /\ a.dragging = agent.dragging
        /\ a.running = agent.running /\ a.arm = agent.arm /\ a.armed = agent.armed
        /\ a.pinch = agent.pinch
    BY <1>1, <1>3 DEF AgentStates
  <1> HIDE DEF a
  <1>5. /\ b \in AgentStates /\ ~b.armed
        /\ b.running = a.running /\ b.arm = a.arm
        /\ ~a.armed => b = a
        /\ a.armed => b.press = Null /\ ~b.dragging /\ ~b.pinch["index"].active
        /\ \A f \in Fingers : b.pinch[f].since = a.pinch[f].since
    BY <1>1, <1>4, DisarmedIsTyped
  <1> HIDE DEF b
  <1>6. PressIsPinch(agent)
    BY DEF StableInv
  <1>7. PressIsPinch(b) /\ b.press \in {agent.press, Null}
    BY <1>4, <1>5, <1>6 DEF PressIsPinch
  <1>8. agent' = b /\ simple' = simple
    BY <1>2 DEF Settle
  <1>9. palm' \in Ages(ArmHold)
    BY <1>1, <1>2 DEF Ages
  <1>10. PalmIsShown'
    <2>1. /\ simple => agent.arm.age = Null
          /\ agent.armed => agent.arm.age = Null \/ agent.arm.fired
          /\ agent.running /\ agent.arm.age # Null /\ ~agent.arm.fired =>
                palm # Null /\ agent.arm.age <= palm
      BY DEF StableInv, PalmIsShown
    <2>2. b.arm = agent.arm /\ b.running = agent.running /\ ~b.armed
      BY <1>4, <1>5
    <2> QED
      BY <1>2, <1>8, <2>1, <2>2 DEF PalmIsShown
  <1> QED
    BY <1>2, <1>4, <1>5, <1>7, <1>9, <1>10, ReleaseStep

LEMMA ExitStep ==
    ASSUME StableInv, Exit
    PROVE  StableInv' /\ DragsAfterHold /\ ArmsAfterHold /\ ClicksAfterCooldown
  <1>1. agent \in AgentStates /\ simple \in BOOLEAN
    BY DEF StableInv, TypeOK
  <1> DEFINE a == SetArmed(agent, FALSE)
             b == [a EXCEPT !.running = FALSE]
  <1>2. Settle(b, ReleaseCall(b)) /\ palm' = Null
    BY DEF Exit
  <1>3. /\ a \in AgentStates /\ ~a.armed /\ a.arm = agent.arm
        /\ ~agent.armed => a = agent
        /\ agent.armed => a.press = Null /\ ~a.dragging /\ ~a.pinch["index"].active
        /\ \A f \in Fingers : a.pinch[f].since = agent.pinch[f].since
    BY <1>1, DisarmedIsTyped
  <1> HIDE DEF a
  <1>4. /\ b \in AgentStates /\ b.press = a.press /\ b.dragging = a.dragging
        /\ ~b.running /\ b.arm = a.arm /\ b.armed = a.armed
        /\ b.pinch = a.pinch
    BY <1>3 DEF AgentStates
  <1> HIDE DEF b
  <1>5. PressIsPinch(agent) /\ (simple => agent.arm.age = Null)
    BY DEF StableInv, PalmIsShown
  <1>6. PressIsPinch(b) /\ b.press \in {agent.press, Null}
    BY <1>3, <1>4, <1>5 DEF PressIsPinch
  <1>7. agent' = b /\ simple' = simple
    BY <1>2 DEF Settle
  <1>8. PalmIsShown' /\ palm' \in Ages(ArmHold)
    BY <1>2, <1>3, <1>4, <1>5, <1>7 DEF PalmIsShown, Ages
  <1> QED
    BY <1>2, <1>3, <1>4, <1>6, <1>8, ReleaseStep

LEMMA OlderIsAge ==
    ASSUME NEW threshold \in Nat, NEW age \in Ages(threshold)
    PROVE  /\ Older(age, threshold) \in Ages(threshold)
           /\ Older(age, threshold) = Null <=> age = Null
  BY GestureAssumption DEF Older, Ages

LEMMA OlderIsNat ==
    ASSUME NEW threshold \in Nat, NEW age \in Nat
    PROVE  Older(age, threshold) \in Nat
  BY GestureAssumption DEF Older

LEMMA OlderIsBelow ==
    ASSUME NEW threshold \in Nat, NEW age \in 0..threshold
    PROVE  Older(age, threshold) \in 0..threshold
  BY GestureAssumption DEF Older

\* Two ages that run with the same threshold keep their order.

LEMMA OlderIsMonotone ==
    ASSUME NEW threshold \in Nat, NEW first \in Nat, NEW second \in Nat, first <= second
    PROVE  Older(first, threshold) <= Older(second, threshold)
  BY GestureAssumption DEF Older

LEMMA TickStep ==
    ASSUME StableInv, Tick
    PROVE  StableInv' /\ DragsAfterHold /\ ArmsAfterHold /\ ClicksAfterCooldown
  <1>1. /\ agent \in AgentStates /\ simple \in BOOLEAN /\ held \in BOOLEAN
        /\ pinched \in Ages(DragHold) /\ palm \in Ages(ArmHold)
        /\ quiet \in [Fingers -> Nat]
    BY DEF StableInv, TypeOK
  <1>2. /\ Null \notin Int
        /\ ArmHold \in Nat /\ DisarmHold \in Nat /\ DragHold \in Nat
        /\ Warmup \in Nat /\ AutoArm \in Nat /\ SwipeDuration + 1 \in Nat
        /\ SwipeCooldown \in Nat /\ SimpleNoHandLimit \in Nat /\ NoHandLimit \in Nat
        /\ ClickCooldown \in [Fingers -> Nat]
    BY GestureAssumption
  <1> DEFINE armedFor == Older(agent.armedFor, Warmup)
             lost == Older(agent.lost, IF simple THEN SimpleNoHandLimit ELSE NoHandLimit)
             autoArm == Older(agent.autoArm, AutoArm)
             arm == [agent.arm EXCEPT !.age = Older(@, ArmHold)]
             disarm == [agent.disarm EXCEPT !.age = Older(@, DisarmHold)]
             press == Older(agent.press, DragHold)
             swipe == [agent.swipe EXCEPT !.age = Older(@, SwipeDuration + 1),
                                          !.since = Older(@, SwipeCooldown)]
             pinch == [f \in Fingers |->
                          [agent.pinch[f] EXCEPT !.since = Older(@, ClickCooldown[f])]]
             b == [agent EXCEPT
                      !.armedFor = armedFor, !.lost = lost, !.autoArm = autoArm, !.arm = arm,
                      !.disarm = disarm, !.press = press, !.swipe = swipe, !.pinch = pinch]
  <1>3. agent' = b
    BY DEF Tick
  <1>4. /\ agent.armedFor \in 0..Warmup /\ agent.lost \in Nat /\ agent.autoArm \in Ages(AutoArm)
        /\ agent.arm \in Holds(ArmHold) /\ agent.disarm \in Holds(DisarmHold)
        /\ agent.pinch \in [Fingers -> PinchStates]
        /\ agent.press \in Ages(DragHold) /\ agent.swipe \in SwipeStates
    BY <1>1, AgentFields
  <1>5. armedFor \in 0..Warmup /\ lost \in Nat /\ autoArm \in Ages(AutoArm) /\ press \in Ages(DragHold)
    <2>1. armedFor \in 0..Warmup
      BY <1>2, <1>4, OlderIsBelow
    <2>2. lost \in Nat
      BY <1>1, <1>2, <1>4, OlderIsNat
    <2>3. autoArm \in Ages(AutoArm) /\ press \in Ages(DragHold)
      BY <1>2, <1>4, OlderIsAge
    <2> QED
      BY <2>1, <2>2, <2>3
  <1>6. /\ arm \in Holds(ArmHold) /\ arm.fired = agent.arm.fired
        /\ arm.age = Older(agent.arm.age, ArmHold)
    BY <1>2, <1>4, OlderIsAge DEF Holds
  <1>7. disarm \in Holds(DisarmHold)
    BY <1>2, <1>4, OlderIsAge DEF Holds
  <1>8. swipe \in SwipeStates
    <2>1. agent.swipe.age \in Ages(SwipeDuration + 1) /\ agent.swipe.since \in 0..SwipeCooldown
      BY <1>4 DEF SwipeStates
    <2>2. Older(agent.swipe.age, SwipeDuration + 1) \in Ages(SwipeDuration + 1)
      BY <1>2, <2>1, OlderIsAge
    <2>3. Older(agent.swipe.since, SwipeCooldown) \in 0..SwipeCooldown
      BY <1>2, <2>1, OlderIsBelow
    <2> QED
      BY <1>4, <2>2, <2>3 DEF SwipeStates
  <1>9. \A f \in Fingers :
            /\ pinch[f] \in PinchStates /\ pinch[f].active = agent.pinch[f].active
            /\ pinch[f].since = Older(agent.pinch[f].since, ClickCooldown[f])
    <2> TAKE f \in Fingers
    <2>1. agent.pinch[f] \in PinchStates /\ agent.pinch[f].since \in Nat /\ ClickCooldown[f] \in Nat
      BY <1>2, <1>4 DEF PinchStates
    <2>2. Older(agent.pinch[f].since, ClickCooldown[f]) \in Nat
      BY <2>1, OlderIsNat
    <2> QED
      BY <2>1, <2>2 DEF PinchStates
  <1>10. pinch \in [Fingers -> PinchStates]
    BY <1>9
  <1> HIDE DEF armedFor, lost, autoArm, arm, disarm, swipe, pinch
  <1>11. b \in AgentStates
    <2> HIDE DEF press
    <2> QED
      BY <1>1, <1>5, <1>6, <1>7, <1>8, <1>10
        DEF AgentStates, PinchStates, SwipeStates, PoseStates
  <1>12. /\ b.press = press /\ b.arm = arm /\ b.pinch = pinch /\ b.armed = agent.armed
         /\ b.dragging = agent.dragging /\ b.running = agent.running
    BY <1>1 DEF AgentStates
  <1> HIDE DEF b
  <1>13. /\ calls' = {} /\ simple' = simple /\ held' = held
         /\ pinched' = Older(pinched, DragHold) /\ palm' = Older(palm, ArmHold)
         /\ quiet' = [f \in Fingers |-> Older(quiet[f], ClickCooldown[f])]
         /\ agent.running
    BY DEF Tick
  <1>14. pinched' \in Ages(DragHold) /\ palm' \in Ages(ArmHold) /\ quiet' \in [Fingers -> Nat]
    <2>1. \A f \in Fingers : Older(quiet[f], ClickCooldown[f]) \in Nat
      BY <1>1, <1>2, OlderIsNat
    <2> QED
      BY <1>1, <1>2, <1>13, <2>1, OlderIsAge
  <1>15. TypeOK'
    BY <1>1, <1>3, <1>11, <1>13, <1>14 DEF TypeOK
  <1>16. "index" \in Fingers
    BY ConstantFields
  <1>17. PressIsPinch(agent)' /\ HeldIsDragged' /\ PressIsShown'
    <2>1. /\ agent.press # Null \/ agent.dragging => agent.armed /\ agent.pinch["index"].active
          /\ held => agent.dragging
          /\ agent.pinch["index"].active <=> pinched # Null
          /\ agent.press # Null => agent.press <= pinched
      BY DEF StableInv, PressIsPinch, HeldIsDragged, PressIsShown
    <2>2. /\ press = Null <=> agent.press = Null
          /\ pinched' = Null <=> pinched = Null
      BY <1>1, <1>2, <1>4, <1>13, OlderIsAge
    <2>3. agent.press # Null => press <= pinched'
      <3> SUFFICES ASSUME agent.press # Null PROVE press <= pinched'
        OBVIOUS
      <3>1. agent.press \in Nat /\ pinched \in Nat /\ agent.press <= pinched
        BY <1>1, <1>4, <2>1 DEF Ages
      <3> QED
        BY <1>2, <1>13, <3>1, OlderIsMonotone
    <2>4. pinch["index"].active = agent.pinch["index"].active
      BY <1>9, <1>16
    <2> HIDE DEF press
    <2>5. PressIsPinch(agent)'
      BY <1>3, <1>12, <2>1, <2>2, <2>4 DEF PressIsPinch
    <2>6. HeldIsDragged'
      BY <1>3, <1>12, <1>13, <2>1 DEF HeldIsDragged
    <2>7. PressIsShown'
      BY <1>3, <1>12, <2>1, <2>2, <2>3, <2>4 DEF PressIsShown
    <2> QED
      BY <2>5, <2>6, <2>7
  <1>18. PalmIsShown'
    <2>1. /\ simple => agent.arm.age = Null
          /\ agent.armed => agent.arm.age = Null \/ agent.arm.fired
          /\ agent.arm.age # Null /\ ~agent.arm.fired => palm # Null /\ agent.arm.age <= palm
      BY <1>13 DEF StableInv, PalmIsShown
    <2>2. agent.arm.age \in Ages(ArmHold)
      BY <1>4 DEF Holds
    <2>3. /\ arm.age = Null <=> agent.arm.age = Null
          /\ palm' = Null <=> palm = Null
      BY <1>1, <1>2, <1>6, <1>13, <2>2, OlderIsAge
    <2>4. ASSUME agent.arm.age # Null, ~agent.arm.fired PROVE arm.age <= palm'
      <3>1. agent.arm.age \in Nat /\ palm \in Nat /\ agent.arm.age <= palm
        BY <1>1, <2>1, <2>2, <2>4 DEF Ages
      <3> QED
        BY <1>2, <1>6, <1>13, <3>1, OlderIsMonotone
    <2> QED
      BY <1>3, <1>6, <1>12, <1>13, <2>1, <2>3, <2>4 DEF PalmIsShown
  <1>19. CooldownIsKept'
    <2> SUFFICES ASSUME NEW f \in Fingers \ {"index"}
                 PROVE  pinch[f].since <= quiet'[f]
      BY <1>3, <1>12 DEF CooldownIsKept
    <2>1. /\ agent.pinch[f].since \in Nat /\ quiet[f] \in Nat /\ ClickCooldown[f] \in Nat
          /\ agent.pinch[f].since <= quiet[f]
      BY <1>1, <1>2, <1>4 DEF PinchStates, StableInv, CooldownIsKept
    <2>2. quiet'[f] = Older(quiet[f], ClickCooldown[f])
      BY <1>13
    <2> QED
      BY <1>9, <2>1, <2>2, OlderIsMonotone
  <1>20. DragsAfterHold /\ ArmsAfterHold /\ ClicksAfterCooldown
    BY <1>3, <1>12, <1>13 DEF DragsAfterHold, ArmsAfterHold, ClicksAfterCooldown
  <1> QED
    BY <1>15, <1>17, <1>18, <1>19, <1>20 DEF StableInv

-----------------------------------------------------------------------------
(* The filters of the engine *)

StabilizedStates ==
    [stable : Gestures, candidate : Gestures, count : 0..EnterFrames - 1 \cup 0..ReleaseFrames - 1]
Tracking == [age : AgesUpTo(SwipeWindow + 1), fired : BOOLEAN]

\* What the operators put into the fields.
LEMMA EngineConstants ==
    /\ "none" \in Gestures /\ "three" \in Gestures /\ "palm" \in Discrete
    /\ "swipe" \in Keyed /\ "palm" \in Keyed /\ "none" \notin Discrete
    /\ Discrete \subseteq Gestures /\ Discrete \subseteq Keyed
    /\ Missing \notin Int /\ 0 # Missing
    /\ 0 \in AgesUpTo(Stale + 1) /\ Missing \in AgesUpTo(Stale + 1)
    /\ 0 \in AgesUpTo(ReleaseToArm) /\ Missing \in AgesUpTo(ReleaseToArm)
    /\ 0 \in AgesUpTo(HoldToArm) /\ Missing \in AgesUpTo(HoldToArm)
    /\ 0 \in 0..ToggleCooldown /\ ToggleCooldown \in 0..ToggleCooldown
    /\ NoLatch \in Latches /\ NoTrack \in Tracking
    /\ NoLatch.pose = "none" /\ NoLatch.age = 0 /\ ~NoLatch.fired
    /\ HoldToArm \in Nat \ {0} /\ ReleaseToArm \in Nat \ {0} /\ ToggleCooldown \in Nat
    /\ Stale \in Nat /\ SwipeWindow \in Nat
  BY EngineAssumption DEF Discrete, Keyed, AgesUpTo, NoLatch, Latches, NoTrack, Tracking

\* A profile says of a gesture nothing or an action with its two times.
LEMMA ActionFields ==
    ASSUME NEW p \in Profiles, NEW g \in Keyed, Actions[p][g] # Missing
    PROVE  /\ Actions[p][g].action \in {"click", "other", "down", "up"}
           /\ Actions[p][g].dwell \in Nat /\ Actions[p][g].cooldown \in Nat
  BY EngineAssumption

LEMMA StabilizedIsTyped ==
    ASSUME NEW p \in StabilizedStates, NEW raw \in Gestures
    PROVE  Stabilized(p, raw) \in StabilizedStates
  <1> DEFINE count == IF raw = p.candidate THEN p.count + 1 ELSE 1
             needed == IF raw = "none" THEN ReleaseFrames ELSE EnterFrames
  <1>1. /\ EnterFrames \in Nat \ {0} /\ ReleaseFrames \in Nat \ {0} /\ "none" \in Gestures
        /\ p.count \in Nat
    BY EngineAssumption DEF StabilizedStates
  <1>2. count \in Nat
    BY <1>1
  <1>3. ~(count >= needed) => count \in 0..EnterFrames - 1 \cup 0..ReleaseFrames - 1
    BY <1>1, <1>2
  <1>4. Stabilized(p, raw) = IF raw = p.stable \/ count >= needed
                             THEN [stable |-> raw, candidate |-> "none", count |-> 0]
                             ELSE [p EXCEPT !.candidate = raw, !.count = count]
    BY DEF Stabilized
  <1>5. [stable |-> raw, candidate |-> "none", count |-> 0] \in StabilizedStates
    BY <1>1 DEF StabilizedStates
  <1> HIDE DEF count, needed
  <1>6. ~(count >= needed) => [p EXCEPT !.candidate = raw, !.count = count] \in StabilizedStates
    BY <1>3 DEF StabilizedStates
  <1> QED
    BY <1>4, <1>5, <1>6

LEMMA LatchIsTyped ==
    ASSUME NEW l \in Latches, NEW pose \in Gestures, NEW dwell \in Nat
    PROVE  LET m == LatchAfter(l, pose, dwell)
           IN  /\ m \in Latches /\ m.pose = pose
               /\ m.age = IF pose # l.pose THEN 0 ELSE l.age
               /\ m.fired = (pose = l.pose /\ (l.fired \/ LatchFires(l, pose, dwell)))
  <1> DEFINE fires == LatchFires(l, pose, dwell)
             a == [NoLatch EXCEPT !.pose = pose]
             b == [l EXCEPT !.fired = @ \/ fires]
  <1>1. LatchAfter(l, pose, dwell) = IF pose # l.pose THEN a ELSE b
    BY DEF LatchAfter
  <1>2. a \in Latches /\ a.pose = pose /\ a.age = 0 /\ a.fired = FALSE
    BY DEF NoLatch, Latches
  <1>3. fires \in BOOLEAN
    BY DEF LatchFires
  <1> HIDE DEF fires
  <1>4. b \in Latches /\ b.pose = l.pose /\ b.age = l.age /\ b.fired = (l.fired \/ fires)
    BY <1>3 DEF Latches
  <1> HIDE DEF a, b
  <1>5. /\ LatchAfter(l, pose, dwell) \in Latches /\ LatchAfter(l, pose, dwell).pose = pose
        /\ LatchAfter(l, pose, dwell).age = IF pose # l.pose THEN 0 ELSE l.age
        /\ LatchAfter(l, pose, dwell).fired = (pose = l.pose /\ (l.fired \/ fires))
    BY <1>1, <1>2, <1>4
  <1> QED
    BY <1>5 DEF fires

-----------------------------------------------------------------------------
(* The engine *)

LEMMA EngineFields ==
    ASSUME NEW e \in Engines
    PROVE  /\ e.running \in BOOLEAN /\ e.armed \in BOOLEAN /\ e.stopped \in BOOLEAN
           /\ e.silent \in AgesUpTo(Stale + 1) /\ e.toggled \in 0..ToggleCooldown
           /\ e.profile \in Profiles /\ e.pose \in StabilizedStates
           /\ e.arm \in Latches /\ e.mustRelease \in BOOLEAN
           /\ e.released \in AgesUpTo(ReleaseToArm)
           /\ e.latch \in Latches /\ e.track \in Tracking
           /\ e.since \in [Profiles -> [Keyed -> Nat]] /\ e.drag \in BOOLEAN
           /\ e.pose.stable \in Gestures
  BY DEF Engines, StabilizedStates, Tracking

\* A drag can end, nothing is armed after a stop, and the latch is about a
\* pose that has an action.
DragIsWatched(e) == e.drag => e.armed /\ ~e.stopped /\ e.silent # Missing

LatchHasAction(e) ==
    e.latch.pose # "none" => e.latch.pose \in Discrete /\ Actions[e.profile][e.latch.pose] # Missing

EngineOK(e) ==
    /\ e \in Engines /\ DragIsWatched(e) /\ (e.stopped => ~e.armed) /\ LatchHasAction(e)

LEMMA ResetIsFine ==
    ASSUME NEW e \in Engines
    PROVE  LET r == ReleaseAndReset(e)
           IN  /\ r \in Engines /\ ~r.drag /\ r.latch = NoLatch
               /\ r.running = e.running /\ r.armed = e.armed /\ r.stopped = e.stopped
               /\ r.silent = e.silent /\ r.toggled = e.toggled /\ r.profile = e.profile
               /\ r.pose = e.pose /\ r.arm = e.arm /\ r.mustRelease = e.mustRelease
               /\ r.released = e.released /\ r.since = e.since
  <1> DEFINE r == [e EXCEPT !.drag = FALSE, !.latch = NoLatch, !.track = NoTrack]
  <1>1. NoLatch \in Latches /\ NoTrack \in Tracking
    BY EngineConstants
  <1>2. ReleaseAndReset(e) = r
    BY DEF ReleaseAndReset
  <1>3. r \in Engines
    BY <1>1 DEF Engines, Tracking
  <1>4. /\ ~r.drag /\ r.latch = NoLatch
        /\ r.running = e.running /\ r.armed = e.armed /\ r.stopped = e.stopped
        /\ r.silent = e.silent /\ r.toggled = e.toggled /\ r.profile = e.profile
    BY DEF Engines
  <1>5. /\ r.pose = e.pose /\ r.arm = e.arm /\ r.mustRelease = e.mustRelease
        /\ r.released = e.released /\ r.since = e.since
    BY DEF Engines
  <1> HIDE DEF r
  <1> QED
    BY <1>2, <1>3, <1>4, <1>5

LEMMA StoppedIsFine ==
    ASSUME NEW e \in Engines
    PROVE  LET r == StoppedEngine(e)
           IN  /\ EngineOK(r) /\ ~r.drag /\ r.stopped /\ ~r.armed
               /\ r.latch = NoLatch /\ r.running = e.running /\ r.arm = e.arm
               /\ r.mustRelease = e.mustRelease /\ r.released = e.released
               /\ r.since = e.since /\ r.profile = e.profile
  <1> DEFINE a == [e EXCEPT !.armed = FALSE, !.stopped = TRUE]
  <1>1. /\ a \in Engines /\ ~a.armed /\ a.stopped /\ a.running = e.running /\ a.arm = e.arm
        /\ a.mustRelease = e.mustRelease /\ a.released = e.released
        /\ a.since = e.since /\ a.profile = e.profile
    BY DEF Engines
  <1>2. StoppedEngine(e) = ReleaseAndReset(a)
    BY DEF StoppedEngine
  <1> HIDE DEF a
  <1> DEFINE r == ReleaseAndReset(a)
  <1>3. /\ r \in Engines /\ ~r.drag /\ r.latch = NoLatch
        /\ r.running = a.running /\ r.armed = a.armed /\ r.stopped = a.stopped
        /\ r.profile = a.profile
        /\ r.arm = a.arm /\ r.mustRelease = a.mustRelease
        /\ r.released = a.released /\ r.since = a.since
    BY <1>1, ResetIsFine
  <1> HIDE DEF r
  <1>4. EngineOK(r)
    BY <1>1, <1>3, EngineConstants DEF EngineOK, DragIsWatched, LatchHasAction
  <1> QED
    BY <1>1, <1>2, <1>3, <1>4 DEF r

LEMMA WatchedIsFine ==
    ASSUME NEW e, EngineOK(e)
    PROVE  LET r == Watched(e)
           IN  /\ EngineOK(r) /\ r.running = e.running /\ r.stopped = e.stopped
               /\ r.profile = e.profile /\ r.pose = e.pose
               /\ r.arm = e.arm /\ r.mustRelease = e.mustRelease
               /\ r.released = e.released /\ r.since = e.since
               /\ r.armed => e.armed /\ r.silent = e.silent /\ r.latch = e.latch /\ r.drag = e.drag
               /\ r.armed # e.armed => r.silent = Missing
               /\ (r.latch = e.latch /\ r.drag = e.drag) \/ (r.latch = NoLatch /\ ~r.drag)
  <1> SUFFICES ASSUME NEW r, r = Watched(e)
               PROVE  /\ EngineOK(r) /\ r.running = e.running /\ r.stopped = e.stopped
                      /\ r.profile = e.profile /\ r.pose = e.pose
                      /\ r.arm = e.arm /\ r.mustRelease = e.mustRelease
                      /\ r.released = e.released /\ r.since = e.since
                      /\ r.armed => e.armed /\ r.silent = e.silent /\ r.latch = e.latch /\ r.drag = e.drag
                      /\ r.armed # e.armed => r.silent = Missing
                      /\ (r.latch = e.latch /\ r.drag = e.drag) \/ (r.latch = NoLatch /\ ~r.drag)
    OBVIOUS
  <1> DEFINE a == [e EXCEPT !.silent = Missing, !.armed = FALSE]
             b == [e EXCEPT !.silent = Missing]
             c == ReleaseAndReset(a)
  <1>1. e \in Engines
    BY DEF EngineOK
  <1>2. /\ a \in Engines /\ ~a.armed /\ a.silent = Missing
        /\ a.running = e.running /\ a.stopped = e.stopped /\ a.profile = e.profile
        /\ a.pose = e.pose /\ a.arm = e.arm /\ a.mustRelease = e.mustRelease
        /\ a.released = e.released /\ a.since = e.since
    <2>1. Missing \in AgesUpTo(Stale + 1)
      BY EngineConstants
    <2>2. a \in Engines
      BY <1>1, <2>1 DEF Engines
    <2>3. /\ ~a.armed /\ a.silent = Missing
          /\ a.running = e.running /\ a.stopped = e.stopped /\ a.profile = e.profile
      BY <1>1 DEF Engines
    <2>4. /\ a.pose = e.pose /\ a.arm = e.arm /\ a.mustRelease = e.mustRelease
          /\ a.released = e.released /\ a.since = e.since
      BY <1>1 DEF Engines
    <2> HIDE DEF a
    <2> QED
      BY <2>2, <2>3, <2>4
  <1>3. /\ b \in Engines /\ b.armed = e.armed /\ b.silent = Missing
        /\ b.running = e.running /\ b.stopped = e.stopped /\ b.profile = e.profile
        /\ b.pose = e.pose /\ b.arm = e.arm /\ b.mustRelease = e.mustRelease
        /\ b.released = e.released /\ b.since = e.since
        /\ b.latch = e.latch /\ b.drag = e.drag
    BY <1>1, EngineConstants DEF Engines
  <1>4. Watched(e) = IF ~Silent(e) THEN e ELSE IF e.armed THEN c ELSE b
    BY DEF Watched
  <1> HIDE DEF a, b
  <1>5. /\ c \in Engines /\ ~c.drag /\ c.latch = NoLatch
        /\ c.running = a.running /\ c.armed = a.armed /\ c.stopped = a.stopped
        /\ c.silent = a.silent /\ c.profile = a.profile
        /\ c.pose = a.pose /\ c.arm = a.arm /\ c.mustRelease = a.mustRelease
        /\ c.released = a.released /\ c.since = a.since
    BY <1>2, ResetIsFine
  <1> HIDE DEF c
  <1>6. EngineOK(c)
    BY <1>2, <1>5, EngineConstants DEF EngineOK, DragIsWatched, LatchHasAction
  <1>7. ~e.armed => EngineOK(b)
    BY <1>3 DEF EngineOK, DragIsWatched, LatchHasAction
  <1>8. e.armed \in BOOLEAN
    BY <1>1, EngineFields
  <1>9. CASE ~Silent(e)
    <2>1. r = e
      BY <1>4, <1>9
    <2> QED
      BY <2>1
  <1>10. CASE Silent(e) /\ e.armed
    BY <1>2, <1>4, <1>5, <1>6, <1>10
  <1>11. CASE Silent(e) /\ ~e.armed
    <2>1. r = b /\ ~r.armed
      BY <1>3, <1>4, <1>8, <1>11
    <2> QED
      BY <1>3, <1>7, <1>11, <2>1
  <1> QED
    BY <1>9, <1>10, <1>11

\* The cooldown of a palm is over when its dwell is, and a palm that has
\* acted has ended the drag.
PalmIsReady(e) ==
    e.latch.pose = "palm" /\ ~e.latch.fired =>
        \/ e.since[e.profile]["palm"] >= Actions[e.profile]["palm"].cooldown
        \/ e.since[e.profile]["palm"] >= e.latch.age

PalmHasEnded(e) ==
    e.latch.fired /\ e.latch.pose = "palm"
        /\ Actions[e.profile]["palm"].action = "up" => ~e.drag

PalmOK(e) == PalmIsReady(e) /\ PalmHasEnded(e)

\* Where there is no latch, nothing is to be said of it.
LEMMA NoLatchIsFine ==
    ASSUME NEW e, e.latch = NoLatch
    PROVE  LatchHasAction(e) /\ PalmOK(e)
  BY EngineConstants DEF LatchHasAction, PalmOK, PalmIsReady, PalmHasEnded

LEMMA InProfileIsFine ==
    ASSUME NEW e, EngineOK(e), NEW p \in Profiles
    PROVE  LET r == InProfile(e, p)
           IN  /\ EngineOK(r) /\ (PalmOK(e) => PalmOK(r))
               /\ r.running = e.running /\ r.armed = e.armed /\ r.stopped = e.stopped
               /\ r.silent = e.silent /\ r.profile = p /\ r.pose = e.pose
               /\ r.arm = e.arm /\ r.mustRelease = e.mustRelease
               /\ r.released = e.released
               /\ r.drag => e.drag
               /\ p = e.profile => r = e
  <1>1. e \in Engines
    BY DEF EngineOK
  <1>2. CASE p = e.profile
    BY <1>2 DEF InProfile
  <1>3. CASE p # e.profile
    <2> DEFINE a == ReleaseAndReset(e)
               b == [a EXCEPT !.profile = p]
    <2>1. InProfile(e, p) = b
      BY <1>3 DEF InProfile
    <2>2. /\ a \in Engines /\ ~a.drag /\ a.latch = NoLatch
          /\ a.running = e.running /\ a.armed = e.armed /\ a.stopped = e.stopped
          /\ a.silent = e.silent /\ a.pose = e.pose /\ a.arm = e.arm
          /\ a.mustRelease = e.mustRelease /\ a.released = e.released
      BY <1>1, ResetIsFine
    <2> HIDE DEF a
    <2>3. /\ b \in Engines /\ b.drag = a.drag /\ b.latch = a.latch /\ b.profile = p
          /\ b.running = a.running /\ b.armed = a.armed /\ b.stopped = a.stopped
          /\ b.silent = a.silent /\ b.pose = a.pose /\ b.arm = a.arm
          /\ b.mustRelease = a.mustRelease /\ b.released = a.released
      BY <2>2 DEF Engines
    <2> HIDE DEF b
    <2>4. LatchHasAction(b) /\ PalmOK(b)
      BY <2>2, <2>3, NoLatchIsFine
    <2>5. EngineOK(b)
      BY <2>2, <2>3, <2>4 DEF EngineOK, DragIsWatched
    <2> QED
      BY <1>3, <2>1, <2>2, <2>3, <2>4, <2>5
  <1> QED
    BY <1>2, <1>3

\* Arming starts anew when the pose was away for long enough.
LEMMA RestedIsFine ==
    ASSUME NEW e, EngineOK(e)
    PROVE  LET r == Rested(e)
           IN  /\ EngineOK(r) /\ (PalmOK(e) => PalmOK(r))
               /\ r.running = e.running /\ r.armed = e.armed /\ r.stopped = e.stopped
               /\ r.silent = e.silent /\ r.profile = e.profile /\ r.pose = e.pose
               /\ r.latch = e.latch /\ r.drag = e.drag
               /\ ~e.mustRelease => r = e
               /\ e.mustRelease /\ r.mustRelease =>
                     /\ r.released # Missing => e.pose.stable # "three"
                     /\ r.released # Missing /\ r.released # e.released =>
                           e.released = Missing /\ r.released = 0
               /\ e.mustRelease /\ ~r.mustRelease =>
                     /\ e.pose.stable # "three" /\ r.arm = NoLatch
                     /\ e.released # Missing /\ e.released >= ReleaseToArm
  <1>1. e \in Engines
    BY DEF EngineOK
  <1> DEFINE a == [e EXCEPT !.released = Missing]
             b == [e EXCEPT !.released = 0]
             c == [e EXCEPT !.mustRelease = FALSE, !.released = Missing, !.arm = NoLatch]
             r == Rested(e)
             same(s) == /\ s.running = e.running /\ s.armed = e.armed /\ s.stopped = e.stopped
                        /\ s.silent = e.silent /\ s.profile = e.profile /\ s.pose = e.pose
                        /\ s.latch = e.latch /\ s.drag = e.drag /\ s.since = e.since
  <1>2. r = IF ~e.mustRelease THEN e
            ELSE IF e.pose.stable = "three" THEN a
            ELSE IF e.released = Missing THEN b
            ELSE IF e.released < ReleaseToArm THEN e ELSE c
    BY DEF Rested
  <1>3. a \in Engines /\ same(a) /\ a.mustRelease = e.mustRelease /\ a.released = Missing
    BY <1>1, EngineConstants DEF Engines
  <1>4. b \in Engines /\ same(b) /\ b.mustRelease = e.mustRelease /\ b.released = 0
    BY <1>1, EngineConstants DEF Engines
  <1>5. c \in Engines /\ same(c) /\ ~c.mustRelease /\ c.arm = NoLatch
    <2>1. NoLatch \in Latches /\ Missing \in AgesUpTo(ReleaseToArm)
      BY EngineConstants
    <2>2. c \in Engines
      BY <1>1, <2>1 DEF Engines
    <2>3. /\ c.running = e.running /\ c.armed = e.armed /\ c.stopped = e.stopped
          /\ c.silent = e.silent /\ c.profile = e.profile
      BY <1>1 DEF Engines
    <2>4. /\ c.pose = e.pose /\ c.latch = e.latch /\ c.drag = e.drag /\ c.since = e.since
          /\ ~c.mustRelease /\ c.arm = NoLatch
      BY <1>1 DEF Engines
    <2> HIDE DEF c
    <2> QED
      BY <2>2, <2>3, <2>4
  <1> HIDE DEF a, b, c, r
  <1>6. r \in {e, a, b, c}
    BY <1>2
  <1>7. r \in Engines /\ same(r)
    BY <1>1, <1>3, <1>4, <1>5, <1>6
  <1>8. EngineOK(r)
    BY <1>7 DEF EngineOK, DragIsWatched, LatchHasAction
  <1>9. PalmOK(e) => PalmOK(r)
    BY <1>7 DEF PalmOK, PalmIsReady, PalmHasEnded
  <1>10. e.mustRelease \in BOOLEAN /\ e.released \in AgesUpTo(ReleaseToArm)
    BY <1>1, EngineFields
  <1>11. e.released # Missing /\ ~(e.released < ReleaseToArm) => e.released >= ReleaseToArm
    BY <1>10, EngineConstants DEF AgesUpTo
  <1>12. e.mustRelease /\ r.mustRelease =>
            /\ r.released # Missing => e.pose.stable # "three"
            /\ r.released # Missing /\ r.released # e.released =>
                  e.released = Missing /\ r.released = 0
    BY <1>2, <1>3, <1>4, <1>5
  <1>13. e.mustRelease /\ ~r.mustRelease =>
            /\ e.pose.stable # "three" /\ r.arm = NoLatch
            /\ e.released # Missing /\ e.released >= ReleaseToArm
    BY <1>2, <1>3, <1>4, <1>5, <1>11
  <1>14. ~e.mustRelease => r = e
    BY <1>2
  <1> QED
    BY <1>7, <1>8, <1>9, <1>12, <1>13, <1>14 DEF r

LEMMA ToggleArmIsFine ==
    ASSUME NEW e, EngineOK(e)
    PROVE  LET r == ToggleArm(e)
           IN  /\ EngineOK(r) /\ (PalmOK(e) => PalmOK(r))
               /\ r.running = e.running /\ r.stopped = e.stopped
               /\ r.silent = e.silent /\ r.profile = e.profile /\ r.pose = e.pose
               /\ r.drag => e.drag
               /\ e.mustRelease => r = e
               /\ ~Toggles(e) => /\ r.armed = e.armed /\ r.mustRelease = e.mustRelease
                                 /\ r.latch = e.latch /\ r.released = e.released
               /\ Toggles(e) => /\ ~e.mustRelease /\ r.mustRelease /\ r.released = Missing
                                /\ ~e.stopped /\ e.pose.stable = "three"
                                /\ e.arm.pose = "three" /\ e.arm.age >= HoldToArm
               /\ ~e.mustRelease => /\ r.arm.pose = ArmPose(e)
                                    /\ r.arm.age = IF e.arm.pose = ArmPose(e) THEN e.arm.age ELSE 0
  <1>1. e \in Engines
    BY DEF EngineOK
  <1> DEFINE arm == LatchAfter(e.arm, ArmPose(e), HoldToArm)
             a == [e EXCEPT !.arm = arm]
             armed == ~a.armed
             b == [a EXCEPT !.armed = armed, !.toggled = 0, !.mustRelease = TRUE, !.released = Missing]
             c == ReleaseAndReset(b)
             r == ToggleArm(e)
  <1>2. e.arm \in Latches /\ ArmPose(e) \in Gestures /\ HoldToArm \in Nat /\ e.armed \in BOOLEAN
    BY <1>1, EngineFields, EngineConstants DEF ArmPose
  <1>3. /\ arm \in Latches /\ arm.pose = ArmPose(e)
        /\ arm.age = IF ArmPose(e) # e.arm.pose THEN 0 ELSE e.arm.age
    BY <1>2, LatchIsTyped
  <1>4. r = IF e.mustRelease THEN e ELSE IF Toggles(e) THEN c ELSE a
    BY DEF ToggleArm, Toggled
  <1> HIDE DEF arm
  <1>5. /\ a \in Engines /\ a.arm = arm
        /\ a.running = e.running /\ a.armed = e.armed /\ a.stopped = e.stopped
        /\ a.silent = e.silent /\ a.profile = e.profile /\ a.pose = e.pose
        /\ a.latch = e.latch /\ a.drag = e.drag /\ a.since = e.since
        /\ a.mustRelease = e.mustRelease /\ a.released = e.released
    BY <1>1, <1>3 DEF Engines
  <1> HIDE DEF a
  <1>b. armed \in BOOLEAN /\ armed = ~e.armed
    BY <1>2, <1>5
  <1> HIDE DEF armed
  <1>6. /\ b \in Engines /\ b.arm = arm /\ b.mustRelease /\ b.released = Missing
        /\ b.running = e.running /\ b.armed = armed /\ b.stopped = e.stopped
        /\ b.silent = e.silent /\ b.profile = e.profile /\ b.pose = e.pose
    <2>1. 0 \in 0..ToggleCooldown /\ Missing \in AgesUpTo(ReleaseToArm)
      BY EngineConstants
    <2> QED
      BY <1>5, <1>b, <2>1 DEF Engines
  <1> HIDE DEF b
  <1>7. /\ c \in Engines /\ c.arm = arm /\ c.mustRelease /\ c.released = Missing
        /\ c.running = e.running /\ c.armed = armed /\ c.stopped = e.stopped
        /\ c.silent = e.silent /\ c.profile = e.profile /\ c.pose = e.pose
        /\ ~c.drag /\ c.latch = NoLatch
    BY <1>6, ResetIsFine
  <1> HIDE DEF c, r
  <1>8. Toggles(e) => /\ ~e.mustRelease /\ ~e.stopped /\ e.pose.stable = "three"
                      /\ e.arm.pose = "three" /\ e.arm.age >= HoldToArm
    <2> SUFFICES ASSUME Toggles(e)
                 PROVE  /\ ~e.mustRelease /\ ~e.stopped /\ e.pose.stable = "three"
                        /\ e.arm.pose = "three" /\ e.arm.age >= HoldToArm
      OBVIOUS
    <2>1. ~e.mustRelease /\ LatchFires(e.arm, ArmPose(e), HoldToArm) /\ ~e.stopped
      BY DEF Toggles, MayToggle
    <2>2. ArmPose(e) # "none"
      BY <2>1 DEF LatchFires
    <2>3. e.pose.stable = "three" /\ ArmPose(e) = "three"
      BY <2>2 DEF ArmPose
    <2>4. HoldToArm # 0
      BY EngineConstants
    <2> QED
      BY <2>1, <2>3, <2>4 DEF LatchFires
  <1>9. EngineOK(a) /\ (PalmOK(e) => PalmOK(a))
    BY <1>5 DEF EngineOK, DragIsWatched, LatchHasAction, PalmOK, PalmIsReady, PalmHasEnded
  <1>10. Toggles(e) => EngineOK(c) /\ PalmOK(c)
    <2> SUFFICES ASSUME Toggles(e) PROVE EngineOK(c) /\ PalmOK(c)
      OBVIOUS
    <2>1. LatchHasAction(c) /\ PalmOK(c)
      BY <1>7, NoLatchIsFine
    <2>2. ~c.stopped
      BY <1>7, <1>8
    <2> QED
      BY <1>7, <2>1, <2>2 DEF EngineOK, DragIsWatched
  <1>11. CASE e.mustRelease
    <2>1. r = e /\ ~Toggles(e)
      BY <1>4, <1>8, <1>11
    <2> QED
      BY <1>11, <2>1 DEF r
  <1>12. CASE ~e.mustRelease /\ Toggles(e)
    <2>1. r = c
      BY <1>4, <1>12
    <2> QED
      BY <1>3, <1>7, <1>8, <1>10, <1>12, <2>1 DEF r
  <1>13. CASE ~e.mustRelease /\ ~Toggles(e)
    <2>1. r = a
      BY <1>4, <1>13
    <2> QED
      BY <1>3, <1>5, <1>9, <1>13, <2>1 DEF r
  <1> QED
    BY <1>11, <1>12, <1>13

LEMMA CooledIsTyped ==
    ASSUME NEW e \in Engines, NEW g \in Keyed
    PROVE  LET r == [e EXCEPT !.since[e.profile][g] = 0]
           IN  /\ r \in Engines
               /\ r.running = e.running /\ r.armed = e.armed /\ r.stopped = e.stopped
               /\ r.silent = e.silent /\ r.profile = e.profile /\ r.pose = e.pose
               /\ r.arm = e.arm /\ r.mustRelease = e.mustRelease /\ r.released = e.released
               /\ r.latch = e.latch /\ r.drag = e.drag
               /\ \A h \in Keyed : r.since[e.profile][h] =
                     IF h = g THEN 0 ELSE e.since[e.profile][h]
  <1> DEFINE since == [e.since EXCEPT ![e.profile] = [e.since[e.profile] EXCEPT ![g] = 0]]
             s == [e EXCEPT !.since = since]
             r == [e EXCEPT !.since[e.profile][g] = 0]
  <1>1. e.since \in [Profiles -> [Keyed -> Nat]] /\ e.profile \in Profiles
    BY EngineFields
  <1>2. since \in [Profiles -> [Keyed -> Nat]]
    BY <1>1
  <1>3. \A h \in Keyed : since[e.profile][h] = IF h = g THEN 0 ELSE e.since[e.profile][h]
    BY <1>1
  <1>4. r = s
    OBVIOUS
  <1> HIDE DEF since
  <1>5. /\ s \in Engines /\ s.since = since
        /\ s.running = e.running /\ s.armed = e.armed /\ s.stopped = e.stopped
        /\ s.silent = e.silent /\ s.profile = e.profile /\ s.pose = e.pose
        /\ s.arm = e.arm /\ s.mustRelease = e.mustRelease /\ s.released = e.released
        /\ s.latch = e.latch /\ s.drag = e.drag
    BY <1>2 DEF Engines
  <1> HIDE DEF s
  <1> QED
    BY <1>3, <1>4, <1>5

LEMMA SwipedIsFine ==
    ASSUME NEW e, EngineOK(e), NEW far
    PROVE  LET r == SwipedEngine(e, far)
           IN  /\ EngineOK(r) /\ (PalmOK(e) => PalmOK(r))
               /\ r.running = e.running /\ r.armed = e.armed /\ r.stopped = e.stopped
               /\ r.silent = e.silent /\ r.profile = e.profile /\ r.pose = e.pose
               /\ r.arm = e.arm /\ r.mustRelease = e.mustRelease /\ r.released = e.released
               /\ r.latch = e.latch /\ r.drag = e.drag
  <1> DEFINE same(s) == /\ s \in Engines
                        /\ s.running = e.running /\ s.armed = e.armed /\ s.stopped = e.stopped
                        /\ s.silent = e.silent /\ s.profile = e.profile /\ s.pose = e.pose
                        /\ s.arm = e.arm /\ s.mustRelease = e.mustRelease
                        /\ s.released = e.released /\ s.latch = e.latch /\ s.drag = e.drag
                        /\ s.since[e.profile]["palm"] = e.since[e.profile]["palm"]
             a == [e EXCEPT !.track = NoTrack]
             t == TrackAfter(e.track, far)
             b == [e EXCEPT !.track = t]
             c == [b EXCEPT !.since[b.profile]["swipe"] = 0]
             r == SwipedEngine(e, far)
  <1>1. e \in Engines
    BY DEF EngineOK
  <1>2. t \in Tracking
    <2>1. 0 \in AgesUpTo(SwipeWindow + 1) /\ e.track \in Tracking
      BY <1>1, EngineFields, EngineAssumption DEF AgesUpTo
    <2>2. (e.track.fired \/ Tracks(e.track, far)) \in BOOLEAN
      OBVIOUS
    <2>3. t = [age |-> 0, fired |-> e.track.fired \/ Tracks(e.track, far)]
      BY DEF TrackAfter
    <2> QED
      BY <2>1, <2>2, <2>3 DEF Tracking
  <1>3. r \in {a, b, c}
    BY DEF SwipedEngine, Cooled
  <1> HIDE DEF t, r
  <1>4. same(a)
    BY <1>1, EngineConstants DEF Engines, Tracking
  <1>5. same(b)
    BY <1>1, <1>2 DEF Engines, Tracking
  <1>6. same(c)
    <2> HIDE DEF b
    <2>1. "swipe" \in Keyed /\ "palm" \in Keyed
      BY EngineConstants
    <2>2. b \in Engines
      BY <1>5
    <2>3. /\ c \in Engines
          /\ c.running = b.running /\ c.armed = b.armed /\ c.stopped = b.stopped
          /\ c.silent = b.silent /\ c.profile = b.profile /\ c.pose = b.pose
          /\ c.arm = b.arm /\ c.mustRelease = b.mustRelease /\ c.released = b.released
          /\ c.latch = b.latch /\ c.drag = b.drag
          /\ \A h \in Keyed : c.since[b.profile][h] =
                IF h = "swipe" THEN 0 ELSE b.since[b.profile][h]
      BY <2>1, <2>2, CooledIsTyped
    <2> HIDE DEF c
    <2>4. c.since[b.profile]["palm"] = b.since[b.profile]["palm"]
      BY <2>1, <2>3
    <2> QED
      BY <1>5, <2>3, <2>4
  <1> HIDE DEF a, b, c
  <1>7. same(r)
    BY <1>3, <1>4, <1>5, <1>6
  <1>8. EngineOK(r)
    BY <1>7 DEF EngineOK, DragIsWatched, LatchHasAction
  <1>9. PalmOK(e) => PalmOK(r)
    BY <1>7 DEF PalmOK, PalmIsReady, PalmHasEnded
  <1> QED
    BY <1>7, <1>8, <1>9 DEF r

LEMMA ActionPoseIsTyped ==
    ASSUME NEW e \in Engines
    PROVE  LET g == ActionPose(e)
           IN  /\ g \in Gestures /\ g \in {"none", e.pose.stable}
               /\ Dwell(e, g) \in Nat
               /\ g # "none" => /\ g \in Discrete /\ g \in Keyed /\ g = e.pose.stable
                                /\ Actions[e.profile][g] # Missing
                                /\ Dwell(e, g) = Actions[e.profile][g].dwell
                                /\ Actions[e.profile][g].cooldown \in Nat
                                /\ Actions[e.profile][g].action \in {"click", "other", "down", "up"}
  <1>1. e.profile \in Profiles /\ e.pose.stable \in Gestures
    BY EngineFields
  <1> DEFINE g == ActionPose(e)
  <1>2. /\ g \in Gestures /\ g \in {"none", e.pose.stable}
        /\ g # "none" => /\ g \in Discrete /\ g = e.pose.stable
                         /\ Actions[e.profile][g] # Missing
    BY <1>1, EngineConstants DEF ActionPose
  <1> HIDE DEF g
  <1>3. ASSUME g # "none"
        PROVE  /\ g \in Keyed /\ Dwell(e, g) = Actions[e.profile][g].dwell /\ Dwell(e, g) \in Nat
               /\ Actions[e.profile][g].cooldown \in Nat
               /\ Actions[e.profile][g].action \in {"click", "other", "down", "up"}
    BY <1>1, <1>2, <1>3, EngineConstants, ActionFields DEF Dwell
  <1>4. g = "none" => Dwell(e, g) = 0
    BY EngineConstants DEF Dwell
  <1> QED
    BY <1>2, <1>3, <1>4 DEF g

\* What a pose does: nothing, or what its action is.
LEMMA PerformedIsTyped ==
    ASSUME NEW e \in Engines
    PROVE  /\ Performed(e) \subseteq {"click", "other", "down", "up"}
           /\ ~Performs(e) => Performed(e) = {}
           /\ Performs(e) => ActionPose(e) # "none"
           /\ "down" \in Performed(e) => "up" \notin Performed(e)
           /\ Performs(e) /\ Actions[e.profile][ActionPose(e)].action = "up" =>
                 Performed(e) = IF e.drag THEN {"up"} ELSE {}
  <1>1. Performs(e) => ActionPose(e) # "none"
    BY DEF Performs, LatchFires
  <1>2. Performs(e) => Actions[e.profile][ActionPose(e)].action \in {"click", "other", "down", "up"}
    BY <1>1, ActionPoseIsTyped
  <1> QED
    BY <1>1, <1>2 DEF Performed

\* A profile in which a palm that lets go of the button has no longer
\* cooldown than dwell, as those of gesture_profiles/ have it.
PalmCools == \A p \in Profiles :
    Actions[p]["palm"] # Missing /\ Actions[p]["palm"].action = "up" =>
        Actions[p]["palm"].cooldown <= Actions[p]["palm"].dwell

LEMMA ActedIsFine ==
    ASSUME NEW e, EngineOK(e), e.armed, ~e.stopped, e.silent # Missing
    PROVE  LET r == ActedEngine(e)
           IN  /\ EngineOK(r) /\ (PalmCools /\ PalmOK(e) => PalmOK(r))
               /\ r.running = e.running /\ r.armed = e.armed /\ r.stopped = e.stopped
               /\ r.silent = e.silent /\ r.profile = e.profile /\ r.pose = e.pose
               /\ r.arm = e.arm /\ r.mustRelease = e.mustRelease /\ r.released = e.released
               /\ r.latch = LatchAfter(e.latch, ActionPose(e), Dwell(e, ActionPose(e)))
               /\ r.drag <=> (e.drag \/ "down" \in Performed(e)) /\ "up" \notin Performed(e)
  <1> DEFINE g == ActionPose(e)
             latch == LatchAfter(e.latch, g, Dwell(e, g))
             drag == (e.drag \/ "down" \in Performed(e)) /\ "up" \notin Performed(e)
             a == [e EXCEPT !.latch = latch, !.drag = drag]
             b == [a EXCEPT !.since[a.profile][g] = 0]
             r == ActedEngine(e)
  <1>1. e \in Engines /\ e.latch \in Latches /\ e.profile \in Profiles
    BY EngineFields DEF EngineOK
  <1>2. /\ g \in Gestures /\ Dwell(e, g) \in Nat
        /\ g # "none" => /\ g \in Discrete /\ g \in Keyed
                         /\ Actions[e.profile][g] # Missing
                         /\ Dwell(e, g) = Actions[e.profile][g].dwell
                         /\ Actions[e.profile][g].cooldown \in Nat
    BY <1>1, ActionPoseIsTyped
  <1>3. /\ latch \in Latches /\ latch.pose = g
        /\ latch.age = IF g # e.latch.pose THEN 0 ELSE e.latch.age
        /\ latch.fired = (g = e.latch.pose /\ (e.latch.fired \/ LatchFires(e.latch, g, Dwell(e, g))))
    BY <1>1, <1>2, LatchIsTyped
  <1>4. drag \in BOOLEAN
    OBVIOUS
  <1>5. r = IF Performs(e) THEN b ELSE a
    BY DEF ActedEngine, Cooled
  <1>6. /\ Performs(e) <=> LatchFires(e.latch, g, Dwell(e, g)) /\ Ready(e, g)
    BY DEF Performs
  <1>7. /\ ~Performs(e) => Performed(e) = {}
        /\ Performs(e) => g # "none"
        /\ Performs(e) /\ Actions[e.profile][g].action = "up" =>
              Performed(e) = IF e.drag THEN {"up"} ELSE {}
    BY <1>1, PerformedIsTyped
  <1>8. /\ ~Performs(e) => (drag <=> e.drag)
        /\ Performs(e) /\ Actions[e.profile][g].action = "up" => ~drag
    BY <1>7
  <1> HIDE DEF g, latch, drag
  <1> DEFINE same(s) == /\ s \in Engines /\ s.latch = latch /\ s.drag = drag
                        /\ s.running = e.running /\ s.armed = e.armed /\ s.stopped = e.stopped
                        /\ s.silent = e.silent /\ s.profile = e.profile /\ s.pose = e.pose
                        /\ s.arm = e.arm /\ s.mustRelease = e.mustRelease
                        /\ s.released = e.released
  <1>9. same(a) /\ a.since = e.since
    BY <1>1, <1>3, <1>4 DEF Engines
  <1>10. Performs(e) => same(b)
    <2> SUFFICES ASSUME Performs(e) PROVE same(b)
      OBVIOUS
    <2>1. g \in Keyed
      BY <1>2, <1>7
    <2>2. a \in Engines
      BY <1>9
    <2> HIDE DEF a
    <2>3. /\ b \in Engines
          /\ b.running = a.running /\ b.armed = a.armed /\ b.stopped = a.stopped
          /\ b.silent = a.silent /\ b.profile = a.profile /\ b.pose = a.pose
          /\ b.arm = a.arm /\ b.mustRelease = a.mustRelease /\ b.released = a.released
          /\ b.latch = a.latch /\ b.drag = a.drag
      BY <2>1, <2>2, CooledIsTyped
    <2> HIDE DEF b
    <2> QED
      BY <1>9, <2>3
  <1> HIDE DEF a, b, r
  <1>11. same(r)
    BY <1>5, <1>9, <1>10
  <1>12. EngineOK(r)
    BY <1>2, <1>3, <1>11 DEF EngineOK, DragIsWatched, LatchHasAction
  <1>13. ASSUME PalmCools, PalmOK(e) PROVE PalmOK(r)
    <2>1. CASE g # "palm"
      BY <1>3, <1>11, <2>1 DEF PalmOK, PalmIsReady, PalmHasEnded
    <2>2. CASE g = "palm" /\ e.latch.pose # "palm"
      <3>1. ~r.latch.fired /\ r.latch.age = 0
        BY <1>3, <1>11, <2>2
      <3>2. r.since[r.profile]["palm"] \in Nat
        BY <1>11, EngineFields, EngineConstants
      <3> QED
        BY <3>1, <3>2 DEF PalmOK, PalmIsReady, PalmHasEnded
    <2>3. CASE g = "palm" /\ e.latch.pose = "palm"
      <3> DEFINE since == e.since[e.profile]["palm"]
                 cooldown == Actions[e.profile]["palm"].cooldown
                 dwell == Actions[e.profile]["palm"].dwell
                 fires == LatchFires(e.latch, g, Dwell(e, g))
      <3>1. since \in Nat /\ cooldown \in Nat /\ e.latch.age \in Nat /\ dwell \in Nat
        BY <1>1, <1>2, <2>3, EngineFields, EngineConstants DEF Latches
      <3>2. /\ r.latch.fired = (e.latch.fired \/ fires) /\ r.latch.age = e.latch.age
            /\ r.drag = drag /\ r.profile = e.profile
        BY <1>3, <1>11, <2>3
      <3>3. fires <=> ~e.latch.fired /\ e.latch.age >= dwell
        BY <1>2, <2>3 DEF LatchFires
      <3>4. Ready(e, g) <=> since >= cooldown
        BY <2>3 DEF Ready
      <3>5. /\ ~e.latch.fired => since >= cooldown \/ since >= e.latch.age
            /\ e.latch.fired /\ Actions[e.profile]["palm"].action = "up" => ~e.drag
        BY <1>13, <2>3 DEF PalmOK, PalmIsReady, PalmHasEnded
      <3>6. Actions[e.profile]["palm"].action = "up" => cooldown <= dwell
        BY <1>1, <1>2, <1>13, <2>3, EngineConstants DEF PalmCools
      <3> HIDE DEF fires
      <3>7. PalmIsReady(r)
        <4> SUFFICES ASSUME ~r.latch.fired
                     PROVE  since >= cooldown \/ since >= e.latch.age
          <5>1. ~r.latch.fired => ~Performs(e)
            BY <1>6, <3>2 DEF fires
          <5>2. ~Performs(e) => r.since = e.since
            BY <1>5, <1>9
          <5> QED
            BY <3>2, <5>1, <5>2 DEF PalmIsReady
        <4> QED
          BY <3>2, <3>5
      <3>8. PalmHasEnded(r)
        <4> SUFFICES ASSUME r.latch.fired, Actions[e.profile]["palm"].action = "up"
                     PROVE  ~drag
          BY <3>2 DEF PalmHasEnded
        <4>1. CASE e.latch.fired
          <5>1. ~Performs(e) /\ ~e.drag
            BY <1>6, <3>3, <3>5, <4>1 DEF fires
          <5> QED
            BY <1>8, <5>1
        <4>2. CASE ~e.latch.fired
          <5>a. fires
            BY <3>2, <4>2
          <5>b. e.latch.age >= dwell /\ cooldown <= dwell /\ (since >= cooldown \/ since >= e.latch.age)
            BY <3>3, <3>5, <3>6, <4>2, <5>a
          <5>1. fires /\ since >= cooldown
            <6> HIDE DEF since, cooldown, dwell
            <6> QED
              BY <3>1, <5>a, <5>b
          <5>2. Performs(e)
            BY <1>6, <3>4, <5>1 DEF fires
          <5> QED
            BY <1>8, <2>3, <5>2
        <4> QED
          BY <4>1, <4>2
      <3> QED
        BY <3>7, <3>8 DEF PalmOK
    <2> QED
      BY <2>1, <2>2, <2>3
  <1> QED
    BY <1>11, <1>12, <1>13 DEF r, g, latch, drag

-----------------------------------------------------------------------------
(* The engine keeps its invariant                                           *)

\* The desktop knows of no button down that the dispatcher does not, unless
\* a release has raised; that ended the program.
ButtonIsDrag == button => engine.drag \/ raised
RaisedHasEnded == raised => ~engine.running

\* The hold for arming is not older than the pose, and its rest not longer
\* than the pose was away.
ArmIsShown ==
    ~engine.mustRelease /\ engine.arm.pose = "three" =>
        hand.arm # Missing /\ engine.arm.age <= hand.arm

RestIsShown ==
    /\ ~engine.mustRelease => hand.rested
    /\ engine.mustRelease /\ engine.released # Missing =>
          hand.rest # Missing /\ engine.released <= hand.rest

EngineInv ==
    /\ EngineTypeOK /\ EngineOK(engine) /\ ButtonIsDrag /\ RaisedHasEnded
    /\ ArmIsShown /\ RestIsShown

\* The latch remembers the pose that has acted.
DoneIsLatched ==
    engine.armed /\ ~engine.stopped /\ hand.done # "none" =>
        engine.latch.pose = hand.done /\ engine.latch.fired

\* Profiles in which no pose acts at once, as those of gesture_profiles/ are.
PosesDwell == \A p \in Profiles, g \in Discrete :
    Actions[p][g] # Missing => Actions[p][g].dwell # 0

\* What the action properties say of one step.
TogglesAfterHold ==
    engine'.armed # engine.armed /\ engine'.silent = 0 /\ ~engine'.stopped =>
        /\ hand.arm # Missing /\ hand.arm >= HoldToArm
        /\ hand.rested

StopsForGood == engine.stopped => ~engine'.armed /\ made' \subseteq {"up"}

ActsOnce ==
    made' \cap {"click", "other", "down"} # {} => hand.done # engine'.pose.stable
        \/ engine'.profile # engine.profile

MadeCalls == {"click", "other", "down", "up", "move", "scroll", "swipe"}
Hands == [arm : AgesUpTo(HoldToArm), rest : AgesUpTo(ReleaseToArm),
          rested : BOOLEAN, done : Gestures]

LEMMA EngineInitially ==
    EngineInit => EngineInv /\ PalmOK(engine) /\ DoneIsLatched
  <1> SUFFICES ASSUME EngineInit PROVE EngineInv /\ PalmOK(engine) /\ DoneIsLatched
    OBVIOUS
  <1> DEFINE since == [p \in Profiles |-> [g \in Keyed |->
                          IF Actions[p][g] = Missing THEN 0 ELSE Actions[p][g].cooldown]]
             pose == [stable |-> "none", candidate |-> "none", count |-> 0]
  <1>1. since \in [Profiles -> [Keyed -> Nat]]
    BY ActionFields
  <1>2. pose \in StabilizedStates /\ DefaultProfile \in Profiles
    BY EngineAssumption DEF StabilizedStates
  <1>3. engine = [running |-> TRUE, armed |-> FALSE, stopped |-> FALSE,
                  silent |-> Missing, toggled |-> ToggleCooldown,
                  profile |-> DefaultProfile, pose |-> pose,
                  arm |-> NoLatch, mustRelease |-> FALSE, released |-> Missing,
                  latch |-> NoLatch, track |-> NoTrack, since |-> since, drag |-> FALSE]
    BY DEF EngineInit
  <1> HIDE DEF since, pose
  <1>4. engine \in Engines
    BY <1>1, <1>2, <1>3, EngineConstants DEF Engines, StabilizedStates, Tracking
  <1>5. /\ engine.latch = NoLatch /\ engine.arm = NoLatch /\ ~engine.drag /\ ~engine.stopped
        /\ ~engine.armed /\ ~engine.mustRelease
    BY <1>3
  <1>6. /\ ~button /\ made = {} /\ ~raised
        /\ hand = [arm |-> Missing, rest |-> Missing, rested |-> TRUE, done |-> "none"]
        /\ button \in BOOLEAN /\ raised \in BOOLEAN
    BY DEF EngineInit
  <1>7. hand \in Hands
    BY <1>6, EngineConstants DEF Hands
  <1>8. EngineTypeOK
    BY <1>4, <1>6, <1>7 DEF EngineTypeOK, Hands
  <1>9. LatchHasAction(engine) /\ PalmOK(engine)
    BY <1>5, NoLatchIsFine
  <1>10. EngineOK(engine)
    BY <1>4, <1>5, <1>9 DEF EngineOK, DragIsWatched
  <1>11. ButtonIsDrag /\ RaisedHasEnded /\ ArmIsShown /\ RestIsShown /\ DoneIsLatched
    BY <1>5, <1>6, EngineConstants
      DEF ButtonIsDrag, RaisedHasEnded, ArmIsShown, RestIsShown, DoneIsLatched
  <1> QED
    BY <1>8, <1>9, <1>10, <1>11 DEF EngineInv

\* Frames without a clear hand: only the watchdog changes anything.
LEMMA WatchStep ==
    ASSUME EngineInv, NEW a, EngineOK(a), engine.running,
           a.running = engine.running, a.armed = engine.armed, a.stopped = engine.stopped,
           a.profile = engine.profile, a.arm = engine.arm, a.since = engine.since,
           a.mustRelease = engine.mustRelease, a.released = engine.released,
           a.latch = engine.latch, a.drag = engine.drag,
           Settles(Watched(a), engine.drag /\ ~Watched(a).drag, {}, {}),
           UNCHANGED <<raised, hand>>
    PROVE  /\ EngineInv' /\ (PalmOK(engine) => PalmOK(engine)')
           /\ DoneIsLatched => DoneIsLatched'
           /\ TogglesAfterHold /\ StopsForGood /\ ActsOnce
  <1> DEFINE r == Watched(a)
  <1>1. /\ EngineOK(r) /\ r.running = a.running /\ r.stopped = a.stopped
        /\ r.profile = a.profile
        /\ r.arm = a.arm /\ r.mustRelease = a.mustRelease
        /\ r.released = a.released /\ r.since = a.since
        /\ r.armed => a.armed /\ r.silent = a.silent /\ r.latch = a.latch /\ r.drag = a.drag
        /\ r.armed # a.armed => r.silent = Missing
        /\ (r.latch = a.latch /\ r.drag = a.drag) \/ (r.latch = NoLatch /\ ~r.drag)
    BY WatchedIsFine
  <1>2. /\ engine' = r
        /\ made' = IF engine.drag /\ ~r.drag THEN {"up"} ELSE {}
        /\ button' = (button /\ ~(engine.drag /\ ~r.drag))
        /\ raised' = raised /\ hand' = hand
    BY DEF Settles
  <1> HIDE DEF r
  <1>3. r \in Engines /\ engine \in Engines
    BY <1>1 DEF EngineOK, EngineInv
  <1>4. EngineTypeOK'
    BY <1>2, <1>3 DEF EngineInv, EngineTypeOK
  <1>5. EngineOK(engine)'
    BY <1>1, <1>2 DEF EngineOK, DragIsWatched, LatchHasAction
  <1>6. ButtonIsDrag' /\ RaisedHasEnded'
    <2>1. button' => button /\ ~(engine.drag /\ ~r.drag)
      BY <1>2
    <2>2. /\ button => engine.drag \/ raised
          /\ raised => ~engine.running
      BY DEF EngineInv, ButtonIsDrag, RaisedHasEnded
    <2> QED
      BY <1>1, <1>2, <2>1, <2>2 DEF ButtonIsDrag, RaisedHasEnded
  <1>7. ArmIsShown' /\ RestIsShown'
    BY <1>1, <1>2 DEF ArmIsShown, RestIsShown, EngineInv
  <1>8. PalmOK(engine) => PalmOK(engine)'
    <2>1. CASE r.latch = NoLatch
      <3>1. PalmOK(r)
        BY <2>1, NoLatchIsFine
      <3> QED
        BY <1>2, <3>1 DEF PalmOK, PalmIsReady, PalmHasEnded
    <2>2. CASE r.latch = a.latch /\ r.drag = a.drag
      BY <1>1, <1>2, <2>2 DEF PalmOK, PalmIsReady, PalmHasEnded
    <2> QED
      BY <1>1, <2>1, <2>2
  <1>9. DoneIsLatched => DoneIsLatched'
    BY <1>1, <1>2 DEF DoneIsLatched
  <1>10. TogglesAfterHold
    BY <1>1, <1>2, EngineConstants DEF TogglesAfterHold
  <1>11. StopsForGood
    <2>1. engine.stopped => ~engine.armed
      BY DEF EngineInv, EngineOK
    <2> QED
      BY <1>1, <1>2, <2>1 DEF StopsForGood
  <1>12. ActsOnce
    BY <1>2 DEF ActsOnce
  <1> QED
    BY <1>4, <1>5, <1>6, <1>7, <1>8, <1>9, <1>10, <1>11, <1>12 DEF EngineInv

LEMMA FaintFrameStep ==
    ASSUME EngineInv, FaintFrame \/ EmptyFrame
    PROVE  /\ EngineInv' /\ (PalmOK(engine) => PalmOK(engine)')
           /\ DoneIsLatched => DoneIsLatched'
           /\ TogglesAfterHold /\ StopsForGood /\ ActsOnce
  <1>1. engine \in Engines /\ EngineOK(engine)
    BY DEF EngineInv, EngineOK
  <1>2. CASE EmptyFrame
    <2>1. /\ engine.running /\ UNCHANGED <<raised, hand>>
          /\ Settles(Watched(engine), engine.drag /\ ~Watched(engine).drag, {}, {})
      BY <1>2 DEF EmptyFrame
    <2> QED
      BY <1>1, <2>1, WatchStep
  <1>3. CASE FaintFrame
    <2> DEFINE pose == Stabilized(engine.pose, "none")
               a == [engine EXCEPT !.pose = pose]
    <2>1. /\ engine.running /\ UNCHANGED <<raised, hand>>
          /\ Settles(Watched(a), engine.drag /\ ~Watched(a).drag, {}, {})
      BY <1>3 DEF FaintFrame
    <2>2. pose \in StabilizedStates
      BY <1>1, EngineFields, EngineConstants, StabilizedIsTyped
    <2> HIDE DEF pose
    <2>3. /\ a \in Engines
          /\ a.running = engine.running /\ a.armed = engine.armed /\ a.stopped = engine.stopped
          /\ a.profile = engine.profile /\ a.arm = engine.arm /\ a.since = engine.since
          /\ a.mustRelease = engine.mustRelease /\ a.released = engine.released
          /\ a.latch = engine.latch /\ a.drag = engine.drag /\ a.silent = engine.silent
      BY <1>1, <2>2 DEF Engines, StabilizedStates
    <2> HIDE DEF a
    <2>4. EngineOK(a)
      BY <1>1, <2>3 DEF EngineOK, DragIsWatched, LatchHasAction
    <2> QED
      BY <2>1, <2>3, <2>4, WatchStep
  <1> QED
    BY <1>2, <1>3

LEMMA StopStep ==
    ASSUME EngineInv, StopGestures \/ LeaveGestures
    PROVE  /\ EngineInv' /\ PalmOK(engine)' /\ DoneIsLatched'
           /\ TogglesAfterHold /\ StopsForGood /\ ActsOnce
  <1> DEFINE a == StoppedEngine(engine)
             b == [a EXCEPT !.running = FALSE]
  <1>1. engine \in Engines
    BY DEF EngineInv, EngineOK
  <1>2. /\ EngineOK(a) /\ ~a.drag /\ a.stopped /\ ~a.armed
        /\ a.latch = NoLatch /\ a.running = engine.running /\ a.arm = engine.arm
        /\ a.mustRelease = engine.mustRelease /\ a.released = engine.released
    BY <1>1, StoppedIsFine
  <1>3. \/ Settles(a, engine.drag, {}, {}) /\ engine.running /\ raised' = raised
        \/ Settles(b, engine.drag, {}, {}) /\ raised' = raised
        \/ Settles(b, FALSE, {}, {}) /\ raised' = TRUE
    BY DEF StopGestures, LeaveGestures
  <1>4. hand' = hand
    BY DEF StopGestures, LeaveGestures
  <1> HIDE DEF a
  <1>5. a \in Engines
    BY <1>2 DEF EngineOK
  <1>6. /\ b \in Engines /\ ~b.drag /\ b.stopped /\ ~b.armed
        /\ b.latch = NoLatch /\ ~b.running /\ b.arm = engine.arm
        /\ b.mustRelease = engine.mustRelease /\ b.released = engine.released
    BY <1>2, <1>5 DEF Engines
  <1> HIDE DEF b
  <1>7. PICK r \in {a, b} :
           /\ engine' = r
           /\ made' \subseteq {"up"} /\ button' \in BOOLEAN /\ raised' \in BOOLEAN
           /\ button' => raised' \/ (raised' = raised /\ button /\ ~engine.drag)
           /\ raised' => ~r.running
    <2>1. button \in BOOLEAN /\ raised \in BOOLEAN
      BY DEF EngineInv, EngineTypeOK
    <2>2. raised => ~engine.running
      BY DEF EngineInv, RaisedHasEnded
    <2>3. CASE Settles(a, engine.drag, {}, {}) /\ engine.running /\ raised' = raised
      BY <1>2, <2>1, <2>2, <2>3 DEF Settles
    <2>4. CASE Settles(b, engine.drag, {}, {}) /\ raised' = raised
      BY <1>6, <2>1, <2>4 DEF Settles
    <2>5. CASE Settles(b, FALSE, {}, {}) /\ raised' = TRUE
      BY <1>6, <2>1, <2>5 DEF Settles
    <2> QED
      BY <1>3, <2>3, <2>4, <2>5
  <1>8. /\ r \in Engines /\ ~r.drag /\ r.stopped /\ ~r.armed
        /\ r.latch = NoLatch /\ r.arm = engine.arm
        /\ r.mustRelease = engine.mustRelease /\ r.released = engine.released
    BY <1>2, <1>5, <1>6
  <1>9. EngineTypeOK'
    BY <1>4, <1>7, <1>8 DEF EngineInv, EngineTypeOK
  <1>10. LatchHasAction(r) /\ PalmOK(r)
    BY <1>8, NoLatchIsFine
  <1>11. EngineOK(engine)' /\ PalmOK(engine)'
    BY <1>7, <1>8, <1>10
      DEF EngineOK, DragIsWatched, LatchHasAction, PalmOK, PalmIsReady, PalmHasEnded
  <1>12. ButtonIsDrag' /\ RaisedHasEnded'
    BY <1>7 DEF EngineInv, ButtonIsDrag, RaisedHasEnded
  <1>13. ArmIsShown' /\ RestIsShown'
    BY <1>4, <1>7, <1>8 DEF EngineInv, ArmIsShown, RestIsShown
  <1>14. DoneIsLatched' /\ TogglesAfterHold /\ StopsForGood /\ ActsOnce
    BY <1>7, <1>8 DEF DoneIsLatched, TogglesAfterHold, StopsForGood, ActsOnce
  <1> QED
    BY <1>9, <1>11, <1>12, <1>13, <1>14 DEF EngineInv

\* The filters of a frame one after the other.
Seen(raw) == [engine EXCEPT !.silent = 0, !.pose = Stabilized(@, raw)]
RestedFrame(raw, p) == Rested(InProfile(Seen(raw), p))
ToggledFrame(raw, p) == ToggleArm(RestedFrame(raw, p))

LEMMA FrameChain ==
    ASSUME EngineInv, NEW raw \in Gestures, NEW p \in Profiles,
           NEW e, e = RestedFrame(raw, p),
           NEW b, b = ToggledFrame(raw, p)
    PROVE  /\ EngineOK(b) /\ (PalmOK(engine) => PalmOK(b))
           /\ b.running = engine.running /\ b.stopped = engine.stopped
           /\ b.silent = 0 /\ b.profile = p /\ b.pose = e.pose
           /\ e.pose.stable \in Gestures
           /\ b.drag => engine.drag
           /\ b.armed # engine.armed => Toggles(e)
           /\ ~Toggles(e) /\ p = engine.profile => b.latch = engine.latch
           /\ Toggles(e) => /\ e.pose.stable = "three" /\ ~engine.stopped
                            /\ ~engine.mustRelease
                            /\ engine.arm.pose = "three" /\ engine.arm.age >= HoldToArm
           /\ ~b.mustRelease /\ b.arm.pose = "three" =>
                 /\ e.pose.stable = "three" /\ ~Toggles(e)
                 /\ \/ b.arm.age = 0
                    \/ ~engine.mustRelease /\ engine.arm.pose = "three" /\ b.arm.age = engine.arm.age
           /\ ~b.mustRelease => /\ ~Toggles(e)
                                /\ \/ ~engine.mustRelease
                                   \/ /\ e.pose.stable # "three" /\ engine.released # Missing
                                      /\ engine.released >= ReleaseToArm
           /\ b.mustRelease /\ b.released # Missing =>
                 /\ e.pose.stable # "three" /\ engine.mustRelease
                 /\ (b.released = engine.released \/ b.released = 0)
  <1> DEFINE pose == Stabilized(engine.pose, raw)
             seen == Seen(raw)
             q == InProfile(seen, p)
  <1>1. engine \in Engines /\ EngineOK(engine)
    BY DEF EngineInv, EngineOK
  <1>2. pose \in StabilizedStates /\ pose.stable \in Gestures
    BY <1>1, EngineFields, StabilizedIsTyped DEF StabilizedStates
  <1>3. seen = [engine EXCEPT !.silent = 0, !.pose = pose]
    BY <1>1 DEF Engines, Seen
  <1> HIDE DEF pose, seen
  <1>4. /\ seen \in Engines /\ seen.silent = 0 /\ seen.pose = pose
        /\ seen.running = engine.running /\ seen.armed = engine.armed
        /\ seen.stopped = engine.stopped /\ seen.profile = engine.profile
        /\ seen.arm = engine.arm /\ seen.since = engine.since
        /\ seen.mustRelease = engine.mustRelease /\ seen.released = engine.released
        /\ seen.latch = engine.latch /\ seen.drag = engine.drag
    BY <1>1, <1>2, <1>3, EngineConstants, ZenonT(40) DEF Engines, StabilizedStates
  <1>5. EngineOK(seen)
    BY <1>1, <1>4, EngineConstants DEF EngineOK, DragIsWatched, LatchHasAction
  <1>6. PalmOK(engine) => PalmOK(seen)
    BY <1>4 DEF PalmOK, PalmIsReady, PalmHasEnded
  <1>7. /\ EngineOK(q) /\ (PalmOK(seen) => PalmOK(q))
        /\ q.running = seen.running /\ q.armed = seen.armed /\ q.stopped = seen.stopped
        /\ q.silent = seen.silent /\ q.profile = p /\ q.pose = seen.pose
        /\ q.arm = seen.arm /\ q.mustRelease = seen.mustRelease
        /\ q.released = seen.released
        /\ q.drag => seen.drag
        /\ p = seen.profile => q = seen
    BY <1>5, InProfileIsFine
  <1> HIDE DEF q
  <1>8. /\ EngineOK(e) /\ (PalmOK(q) => PalmOK(e))
        /\ e.running = q.running /\ e.armed = q.armed /\ e.stopped = q.stopped
        /\ e.silent = q.silent /\ e.profile = q.profile /\ e.pose = q.pose
        /\ e.latch = q.latch /\ e.drag = q.drag
        /\ ~q.mustRelease => e = q
        /\ q.mustRelease /\ e.mustRelease =>
              /\ e.released # Missing => q.pose.stable # "three"
              /\ e.released # Missing /\ e.released # q.released =>
                    q.released = Missing /\ e.released = 0
        /\ q.mustRelease /\ ~e.mustRelease =>
              /\ q.pose.stable # "three" /\ e.arm = NoLatch
              /\ q.released # Missing /\ q.released >= ReleaseToArm
    <2>1. e = Rested(q)
      BY DEF q, seen, RestedFrame
    <2> QED
      BY <1>7, <2>1, RestedIsFine
  <1>9. /\ EngineOK(b) /\ (PalmOK(e) => PalmOK(b))
        /\ b.running = e.running /\ b.stopped = e.stopped
        /\ b.silent = e.silent /\ b.profile = e.profile /\ b.pose = e.pose
        /\ b.drag => e.drag
        /\ e.mustRelease => b = e
        /\ ~Toggles(e) => /\ b.armed = e.armed /\ b.mustRelease = e.mustRelease
                          /\ b.latch = e.latch /\ b.released = e.released
        /\ Toggles(e) => /\ ~e.mustRelease /\ b.mustRelease /\ b.released = Missing
                         /\ ~e.stopped /\ e.pose.stable = "three"
                         /\ e.arm.pose = "three" /\ e.arm.age >= HoldToArm
        /\ ~e.mustRelease => /\ b.arm.pose = ArmPose(e)
                             /\ b.arm.age = IF e.arm.pose = ArmPose(e) THEN e.arm.age ELSE 0
    <2>1. b = ToggleArm(e)
      BY DEF ToggledFrame
    <2> QED
      BY <1>8, <2>1, ToggleArmIsFine
  <1>10. NoLatch.pose # "three"
    BY EngineConstants
  <1>11. e.arm.pose = "three" /\ ~e.mustRelease => ~engine.mustRelease /\ e.arm = engine.arm
    BY <1>4, <1>7, <1>8, <1>10
  <1>12. Toggles(e) => /\ e.pose.stable = "three" /\ ~engine.stopped
                       /\ ~engine.mustRelease
                       /\ engine.arm.pose = "three" /\ engine.arm.age >= HoldToArm
    BY <1>4, <1>7, <1>8, <1>9, <1>11
  <1>13. ~b.mustRelease => ~Toggles(e) /\ ~e.mustRelease
    BY <1>9
  <1>14. ASSUME ~b.mustRelease, b.arm.pose = "three"
         PROVE  /\ e.pose.stable = "three" /\ ~Toggles(e)
                /\ \/ b.arm.age = 0
                   \/ ~engine.mustRelease /\ engine.arm.pose = "three" /\ b.arm.age = engine.arm.age
    <2>1. ArmPose(e) = "three" /\ e.pose.stable = "three"
      BY <1>9, <1>13, <1>14 DEF ArmPose
    <2>2. CASE e.arm.pose = "three"
      BY <1>9, <1>11, <1>13, <1>14, <2>1, <2>2
    <2>3. CASE e.arm.pose # "three"
      BY <1>9, <1>13, <1>14, <2>1, <2>3
    <2> QED
      BY <2>2, <2>3
  <1>15. ~b.mustRelease => \/ ~engine.mustRelease
                           \/ /\ e.pose.stable # "three" /\ engine.released # Missing
                              /\ engine.released >= ReleaseToArm
    BY <1>4, <1>7, <1>8, <1>13
  <1>16. b.mustRelease /\ b.released # Missing =>
            /\ e.pose.stable # "three" /\ engine.mustRelease
            /\ (b.released = engine.released \/ b.released = 0)
    <2> SUFFICES ASSUME b.mustRelease, b.released # Missing
                 PROVE  /\ e.pose.stable # "three" /\ engine.mustRelease
                        /\ (b.released = engine.released \/ b.released = 0)
      OBVIOUS
    <2>1. ~Toggles(e) /\ e.mustRelease /\ b.released = e.released
      BY <1>9
    <2>2. q.mustRelease
      BY <1>8, <2>1
    <2>3. /\ q.pose.stable # "three" /\ e.pose = q.pose
          /\ (e.released = q.released \/ e.released = 0)
      BY <1>8, <2>1, <2>2
    <2> QED
      BY <1>4, <1>7, <2>1, <2>2, <2>3
  <1>17. b.armed # engine.armed => Toggles(e)
    BY <1>4, <1>7, <1>8, <1>9
  <1>18. ASSUME ~Toggles(e), p = engine.profile PROVE b.latch = engine.latch
    <2>1. b.latch = e.latch
      BY <1>9, <1>18
    <2>2. e.latch = q.latch
      BY <1>8
    <2>3. q = seen
      BY <1>4, <1>7, <1>18
    <2> QED
      BY <1>4, <2>1, <2>2, <2>3
  <1>19. /\ b.running = engine.running /\ b.stopped = engine.stopped
         /\ b.silent = 0 /\ b.profile = p /\ b.pose = e.pose
         /\ e.pose.stable \in Gestures
         /\ b.drag => engine.drag
    BY <1>2, <1>4, <1>7, <1>8, <1>9
  <1> QED
    BY <1>6, <1>7, <1>8, <1>9, <1>12, <1>13, <1>14, <1>15, <1>16, <1>17, <1>18, <1>19

LEMMA GrownIsAge ==
    ASSUME NEW threshold \in Nat, NEW age \in AgesUpTo(threshold)
    PROVE  /\ Grown(age, threshold) \in AgesUpTo(threshold)
           /\ Grown(age, threshold) = Missing <=> age = Missing
  BY EngineAssumption DEF Grown, AgesUpTo

LEMMA GrownIsNat ==
    ASSUME NEW threshold \in Nat, NEW age \in Nat
    PROVE  Grown(age, threshold) \in Nat
  BY EngineAssumption DEF Grown

LEMMA GrownIsBelow ==
    ASSUME NEW threshold \in Nat, NEW age \in 0..threshold
    PROVE  Grown(age, threshold) \in 0..threshold
  BY EngineAssumption DEF Grown

LEMMA GrownIsMonotone ==
    ASSUME NEW threshold \in Nat, NEW first \in Nat, NEW second \in Nat, first <= second
    PROVE  Grown(first, threshold) <= Grown(second, threshold)
  BY EngineAssumption DEF Grown

LEMMA EngineTickStep ==
    ASSUME EngineInv, EngineTick
    PROVE  /\ EngineInv' /\ (PalmOK(engine) => PalmOK(engine)')
           /\ DoneIsLatched => DoneIsLatched'
           /\ TogglesAfterHold /\ StopsForGood /\ ActsOnce
  <1>1. engine \in Engines /\ EngineOK(engine) /\ hand \in Hands
        /\ button \in BOOLEAN /\ raised \in BOOLEAN
    BY DEF EngineInv, EngineOK, EngineTypeOK, Hands
  <1> DEFINE silent == Grown(engine.silent, Stale + 1)
             toggled == Grown(engine.toggled, ToggleCooldown)
             armAge == IF engine.arm.pose = "none" THEN 0 ELSE Grown(engine.arm.age, HoldToArm)
             arm == [engine.arm EXCEPT !.age = armAge]
             released == Grown(engine.released, ReleaseToArm)
             latchAge == Grown(engine.latch.age, Dwell(engine, engine.latch.pose))
             latch == [engine.latch EXCEPT !.age = latchAge]
             track == [engine.track EXCEPT !.age = Grown(@, SwipeWindow + 1)]
             limit(p, g) == IF Actions[p][g] = Missing THEN 0 ELSE Actions[p][g].cooldown
             since == [p \in Profiles |-> [g \in Keyed |-> Grown(engine.since[p][g], limit(p, g))]]
             r == [engine EXCEPT !.silent = silent, !.toggled = toggled, !.arm = arm,
                                 !.released = released, !.latch = latch, !.track = track,
                                 !.since = since]
  <1>2. engine' = r
    BY DEF EngineTick
  <1>3. /\ engine.silent \in AgesUpTo(Stale + 1) /\ engine.toggled \in 0..ToggleCooldown
        /\ engine.arm \in Latches /\ engine.released \in AgesUpTo(ReleaseToArm)
        /\ engine.latch \in Latches /\ engine.track \in Tracking
        /\ engine.since \in [Profiles -> [Keyed -> Nat]] /\ engine.profile \in Profiles
        /\ engine.arm.age \in Nat /\ engine.latch.age \in Nat /\ engine.latch.pose \in Gestures
    BY <1>1, EngineFields DEF Latches
  <1>4. /\ Stale + 1 \in Nat /\ ToggleCooldown \in Nat /\ HoldToArm \in Nat
        /\ ReleaseToArm \in Nat /\ SwipeWindow + 1 \in Nat /\ Missing \notin Int
    BY EngineConstants
  <1>5. silent \in AgesUpTo(Stale + 1) /\ (silent = Missing <=> engine.silent = Missing)
    BY <1>3, <1>4, GrownIsAge
  <1>6. toggled \in 0..ToggleCooldown
    BY <1>3, <1>4, GrownIsBelow
  <1>7. armAge \in Nat
    BY <1>3, <1>4, GrownIsNat
  <1>8. arm \in Latches /\ arm.pose = engine.arm.pose /\ arm.age = armAge
    BY <1>3, <1>7 DEF Latches
  <1>9. /\ released \in AgesUpTo(ReleaseToArm)
        /\ released = Missing <=> engine.released = Missing
    BY <1>3, <1>4, GrownIsAge
  <1>10. Dwell(engine, engine.latch.pose) \in Nat
    BY <1>3, ActionFields, EngineConstants DEF Dwell
  <1>11. latchAge \in Nat /\ latchAge \in {engine.latch.age, engine.latch.age + 1}
    BY <1>3, <1>4, <1>10, GrownIsNat DEF Grown
  <1>12. /\ latch \in Latches /\ latch.pose = engine.latch.pose /\ latch.age = latchAge
         /\ latch.fired = engine.latch.fired
    BY <1>3, <1>11 DEF Latches
  <1>13. track \in Tracking
    <2>1. engine.track.age \in AgesUpTo(SwipeWindow + 1)
      BY <1>3 DEF Tracking
    <2>2. Grown(engine.track.age, SwipeWindow + 1) \in AgesUpTo(SwipeWindow + 1)
      BY <1>4, <2>1, GrownIsAge
    <2> QED
      BY <1>3, <2>2 DEF Tracking
  <1>14. \A p \in Profiles, g \in Keyed : limit(p, g) \in Nat
    BY ActionFields
  <1>15. since \in [Profiles -> [Keyed -> Nat]]
    <2>1. \A p \in Profiles, g \in Keyed : Grown(engine.since[p][g], limit(p, g)) \in Nat
      BY <1>3, <1>14, GrownIsNat
    <2> HIDE DEF limit
    <2> QED
      BY <2>1
  <1>16. "palm" \in Keyed /\ "palm" \in Discrete
    BY EngineConstants
  <1>17. since[engine.profile]["palm"]
            = Grown(engine.since[engine.profile]["palm"], limit(engine.profile, "palm"))
    BY <1>3, <1>16
  <1> HIDE DEF silent, toggled, armAge, arm, released, latchAge, latch, track, since
  <1>18. r \in Engines
    BY <1>1, <1>5, <1>6, <1>8, <1>9, <1>12, <1>13, <1>15
      DEF Engines, Tracking, StabilizedStates
  <1>19. /\ r.running = engine.running /\ r.armed = engine.armed /\ r.stopped = engine.stopped
         /\ r.silent = silent /\ r.profile = engine.profile /\ r.pose = engine.pose
         /\ r.arm = arm /\ r.mustRelease = engine.mustRelease /\ r.released = released
         /\ r.latch = latch /\ r.drag = engine.drag /\ r.since = since
    BY <1>1 DEF Engines
  <1> HIDE DEF r
  <1>20. /\ made' = {} /\ button' = button /\ raised' = raised
         /\ hand' = [hand EXCEPT !.arm = Grown(hand.arm, HoldToArm),
                                 !.rest = Grown(hand.rest, ReleaseToArm)]
    BY DEF EngineTick
  <1>21. hand.arm \in AgesUpTo(HoldToArm) /\ hand.rest \in AgesUpTo(ReleaseToArm)
    BY <1>1 DEF Hands
  <1>22. /\ Grown(hand.arm, HoldToArm) \in AgesUpTo(HoldToArm)
         /\ Grown(hand.arm, HoldToArm) = Missing <=> hand.arm = Missing
         /\ Grown(hand.rest, ReleaseToArm) \in AgesUpTo(ReleaseToArm)
         /\ Grown(hand.rest, ReleaseToArm) = Missing <=> hand.rest = Missing
    BY <1>4, <1>21, GrownIsAge
  <1>23. /\ hand' \in Hands
         /\ hand'.arm = Grown(hand.arm, HoldToArm) /\ hand'.rest = Grown(hand.rest, ReleaseToArm)
         /\ hand'.rested = hand.rested /\ hand'.done = hand.done
    BY <1>1, <1>20, <1>22 DEF Hands
  <1>24. EngineTypeOK'
    BY <1>1, <1>2, <1>18, <1>20, <1>23 DEF EngineTypeOK, Hands
  <1>25. EngineOK(engine)'
    BY <1>1, <1>2, <1>5, <1>12, <1>18, <1>19 DEF EngineOK, DragIsWatched, LatchHasAction
  <1>26. ButtonIsDrag' /\ RaisedHasEnded'
    BY <1>2, <1>19, <1>20 DEF EngineInv, ButtonIsDrag, RaisedHasEnded
  <1>27. ArmIsShown'
    <2> SUFFICES ASSUME ~engine.mustRelease, engine.arm.pose = "three"
                 PROVE  hand'.arm # Missing /\ armAge <= hand'.arm
      BY <1>2, <1>8, <1>19 DEF ArmIsShown
    <2>1. hand.arm # Missing /\ engine.arm.age <= hand.arm
      BY DEF EngineInv, ArmIsShown
    <2>2. hand.arm \in Nat /\ armAge = Grown(engine.arm.age, HoldToArm)
      BY <1>21, <2>1 DEF AgesUpTo, armAge
    <2>3. Grown(engine.arm.age, HoldToArm) <= Grown(hand.arm, HoldToArm)
      BY <1>3, <1>4, <2>1, <2>2, GrownIsMonotone
    <2> QED
      BY <1>22, <1>23, <2>1, <2>2, <2>3
  <1>28. RestIsShown'
    <2>1. ASSUME engine.mustRelease, engine.released # Missing
          PROVE  hand'.rest # Missing /\ released <= hand'.rest
      <3>1. hand.rest # Missing /\ engine.released <= hand.rest
        BY <2>1 DEF EngineInv, RestIsShown
      <3>2. hand.rest \in Nat /\ engine.released \in Nat
        BY <1>3, <1>21, <2>1, <3>1 DEF AgesUpTo
      <3>3. Grown(engine.released, ReleaseToArm) <= Grown(hand.rest, ReleaseToArm)
        BY <1>4, <3>1, <3>2, GrownIsMonotone
      <3> QED
        BY <1>22, <1>23, <3>1, <3>3 DEF released
    <2>2. ~engine.mustRelease => hand.rested
      BY DEF EngineInv, RestIsShown
    <2> QED
      BY <1>2, <1>9, <1>19, <1>23, <2>1, <2>2 DEF RestIsShown
  <1>29. ASSUME PalmOK(engine) PROVE PalmOK(engine)'
    <2>1. PalmHasEnded(r)
      BY <1>12, <1>19, <1>29 DEF PalmOK, PalmHasEnded
    <2>2. PalmIsReady(r)
      <3> SUFFICES ASSUME engine.latch.pose = "palm", ~engine.latch.fired
                   PROVE  \/ since[engine.profile]["palm"] >= Actions[engine.profile]["palm"].cooldown
                          \/ since[engine.profile]["palm"] >= latchAge
        BY <1>12, <1>19 DEF PalmIsReady
      <3> DEFINE s == engine.since[engine.profile]["palm"]
                 c == Actions[engine.profile]["palm"].cooldown
      <3>1. Actions[engine.profile]["palm"] # Missing
        BY <1>1, <1>16 DEF EngineOK, LatchHasAction
      <3>2. limit(engine.profile, "palm") = c /\ c \in Nat /\ s \in Nat
        BY <1>3, <1>16, <3>1, ActionFields
      <3>3. s >= c \/ s >= engine.latch.age
        BY <1>29 DEF PalmOK, PalmIsReady
      <3>4. since[engine.profile]["palm"] = Grown(s, c)
        BY <1>17, <3>2
      <3> HIDE DEF s, c, limit
      <3>5. Grown(s, c) = IF s < c THEN s + 1 ELSE s
        BY <1>4, <3>2 DEF Grown
      <3>6. Grown(s, c) >= c \/ Grown(s, c) >= latchAge
        BY <1>3, <1>11, <3>2, <3>3, <3>5
      <3> QED
        BY <3>4, <3>6 DEF c
    <2> QED
      BY <1>2, <2>1, <2>2 DEF PalmOK, PalmIsReady, PalmHasEnded
  <1>30. DoneIsLatched => DoneIsLatched'
    BY <1>2, <1>12, <1>19, <1>23 DEF DoneIsLatched
  <1>31. TogglesAfterHold /\ ActsOnce
    BY <1>2, <1>19, <1>20 DEF TogglesAfterHold, ActsOnce
  <1>32. StopsForGood
    BY <1>1, <1>2, <1>19, <1>20 DEF StopsForGood, EngineOK
  <1> QED
    BY <1>24, <1>25, <1>26, <1>27, <1>28, <1>29, <1>30, <1>31, <1>32 DEF EngineInv

\* A frame in the histories.
LEMMA ShowsIsFine ==
    ASSUME hand \in Hands, NEW pose \in Gestures, NEW toggled, NEW reset, NEW performed,
           Shows(pose, toggled, reset, performed)
    PROVE  /\ hand' \in Hands
           /\ pose = "three" => hand'.arm = IF hand.arm = Missing THEN 0 ELSE hand.arm
           /\ pose # "three" => hand'.rest = IF hand.rest = Missing THEN 0 ELSE hand.rest
           /\ hand'.rested <=> ~toggled /\ (hand.rested \/
                 (pose # "three" /\ hand.rest # Missing /\ hand.rest >= ReleaseToArm))
           /\ performed => hand'.done = pose
           /\ ~performed /\ hand'.done # "none" =>
                 ~reset /\ hand.done = pose /\ hand'.done = pose
  <1> DEFINE arm == IF pose # "three" THEN Missing ELSE IF hand.arm = Missing THEN 0 ELSE hand.arm
             rest == IF pose = "three" THEN Missing ELSE IF hand.rest = Missing THEN 0 ELSE hand.rest
             rested == ~toggled /\ (hand.rested \/
                 (pose # "three" /\ hand.rest # Missing /\ hand.rest >= ReleaseToArm))
             done == IF performed THEN pose
                     ELSE IF reset \/ hand.done # pose THEN "none" ELSE hand.done
  <1>1. hand' = [arm |-> arm, rest |-> rest, rested |-> rested, done |-> done]
    BY DEF Shows
  <1>2. /\ hand.arm \in AgesUpTo(HoldToArm) /\ hand.rest \in AgesUpTo(ReleaseToArm)
        /\ hand.rested \in BOOLEAN /\ hand.done \in Gestures
    BY DEF Hands
  <1>3. arm \in AgesUpTo(HoldToArm) /\ rest \in AgesUpTo(ReleaseToArm)
    BY <1>2, EngineConstants
  <1>4. rested \in BOOLEAN
    OBVIOUS
  <1>5. done \in Gestures
    BY <1>2, EngineConstants
  <1>6. /\ performed => done = pose
        /\ ~performed /\ done # "none" => ~reset /\ hand.done = pose /\ done = pose
    OBVIOUS
  <1> HIDE DEF rested, done
  <1>7. hand'.rested = rested /\ hand'.done = done
    BY <1>1
  <1>8. /\ pose = "three" => hand'.arm = IF hand.arm = Missing THEN 0 ELSE hand.arm
        /\ pose # "three" => hand'.rest = IF hand.rest = Missing THEN 0 ELSE hand.rest
    BY <1>1
  <1>9. hand' \in Hands
    BY <1>1, <1>3, <1>4, <1>5 DEF Hands
  <1> QED
    BY <1>6, <1>7, <1>8, <1>9 DEF rested

\* What a frame with a clear hand does to the engine b that its filters gave.
LEMMA ActedStep ==
    ASSUME NEW b, EngineOK(b), b.silent = 0, NEW far,
           NEW s, s = SwipedEngine(b, far), NEW acts, acts = (b.armed /\ ~b.stopped),
           NEW next, next = IF acts THEN ActedEngine(s) ELSE b
    PROVE  /\ EngineOK(next) /\ (PalmCools /\ PalmOK(b) => PalmOK(next))
           /\ EngineOK(s) /\ s.pose = b.pose /\ s.profile = b.profile
           /\ s.latch = b.latch /\ s.drag = b.drag
           /\ next.running = b.running /\ next.armed = b.armed /\ next.stopped = b.stopped
           /\ next.silent = 0 /\ next.profile = b.profile /\ next.pose = b.pose
           /\ next.arm = b.arm /\ next.mustRelease = b.mustRelease
           /\ next.released = b.released
           /\ acts => /\ next.latch = LatchAfter(b.latch, ActionPose(s), Dwell(s, ActionPose(s)))
                      /\ next.drag <=> (b.drag \/ "down" \in Performed(s)) /\ "up" \notin Performed(s)
           /\ ~acts => next.drag = b.drag
  <1>1. /\ EngineOK(s) /\ (PalmOK(b) => PalmOK(s))
        /\ s.running = b.running /\ s.armed = b.armed /\ s.stopped = b.stopped
        /\ s.silent = b.silent /\ s.profile = b.profile /\ s.pose = b.pose
        /\ s.arm = b.arm /\ s.mustRelease = b.mustRelease /\ s.released = b.released
        /\ s.latch = b.latch /\ s.drag = b.drag
    BY SwipedIsFine
  <1>2. CASE ~acts
    BY <1>1, <1>2
  <1>3. CASE acts
    <2>1. s.armed /\ ~s.stopped /\ s.silent # Missing
      BY <1>1, <1>3, EngineConstants
    <2> DEFINE r == ActedEngine(s)
    <2>2. /\ EngineOK(r) /\ (PalmCools /\ PalmOK(s) => PalmOK(r))
          /\ r.running = s.running /\ r.armed = s.armed /\ r.stopped = s.stopped
          /\ r.silent = s.silent /\ r.profile = s.profile /\ r.pose = s.pose
          /\ r.arm = s.arm /\ r.mustRelease = s.mustRelease /\ r.released = s.released
          /\ r.latch = LatchAfter(s.latch, ActionPose(s), Dwell(s, ActionPose(s)))
          /\ r.drag <=> (s.drag \/ "down" \in Performed(s)) /\ "up" \notin Performed(s)
      BY <1>1, <2>1, ActedIsFine, ZenonT(40)
    <2>3. next = r
      BY <1>3
    <2> HIDE DEF r
    <2> QED
      BY <1>1, <1>3, <2>2, <2>3
  <1> QED
    BY <1>2, <1>3

LEMMA PoseFrameStep ==
    ASSUME EngineInv, PoseFrame
    PROVE  /\ EngineInv' /\ (PalmCools /\ PalmOK(engine) => PalmOK(engine)')
           /\ PosesDwell /\ DoneIsLatched => DoneIsLatched'
           /\ TogglesAfterHold /\ StopsForGood
           /\ DoneIsLatched => ActsOnce
  <1>1. PICK raw \in Gestures, p \in Profiles, moved \in BOOLEAN :
            LET seen == [engine EXCEPT !.silent = 0, !.pose = Stabilized(@, raw)]
                e == Rested(InProfile(seen, p))
                b == ToggleArm(e)
                s == SwipedEngine(b, moved)
                acts == b.armed /\ ~b.stopped
                released == engine.drag /\ ~b.drag
            IN  /\ engine.running
                /\ IF acts
                   THEN Settles(ActedEngine(s), released, Performed(s),
                                Continuous(b, moved) \cup IF SwipeActs(b, moved) THEN {"swipe"} ELSE {})
                   ELSE Settles(b, released, {}, {})
                /\ Shows(b.pose.stable, Toggles(e), p # engine.profile \/ Toggles(e),
                         acts /\ Performs(s))
                /\ UNCHANGED raised
    BY DEF PoseFrame
  <1> DEFINE e == RestedFrame(raw, p)
             b == ToggledFrame(raw, p)
             s == SwipedEngine(b, moved)
             acts == b.armed /\ ~b.stopped
             next == IF acts THEN ActedEngine(s) ELSE b
             released == engine.drag /\ ~b.drag
             posed == IF acts THEN Performed(s) ELSE {}
             others == IF acts
                       THEN Continuous(b, moved) \cup IF SwipeActs(b, moved) THEN {"swipe"} ELSE {}
                       ELSE {}
             performed == acts /\ Performs(s)
             reset == p # engine.profile \/ Toggles(e)
  <1>2. engine.running /\ raised' = raised
    BY <1>1
  <1>3. Settles(next, released, posed, others)
    BY <1>1 DEF ToggledFrame, RestedFrame, Seen
  <1>4. Shows(b.pose.stable, Toggles(e), reset, performed)
    BY <1>1 DEF ToggledFrame, RestedFrame, Seen
  <1>4a. /\ s = SwipedEngine(b, moved) /\ acts = (b.armed /\ ~b.stopped)
         /\ next = IF acts THEN ActedEngine(s) ELSE b
    OBVIOUS
  <1> HIDE DEF s, acts, next
  <1>5. /\ EngineOK(b) /\ (PalmOK(engine) => PalmOK(b))
        /\ b.running = engine.running /\ b.stopped = engine.stopped
        /\ b.silent = 0 /\ b.profile = p /\ b.pose = e.pose
        /\ e.pose.stable \in Gestures
        /\ b.drag => engine.drag
        /\ b.armed # engine.armed => Toggles(e)
        /\ ~Toggles(e) /\ p = engine.profile => b.latch = engine.latch
    BY FrameChain
  <1>6. Toggles(e) => /\ e.pose.stable = "three" /\ ~engine.stopped
                      /\ ~engine.mustRelease
                      /\ engine.arm.pose = "three" /\ engine.arm.age >= HoldToArm
    BY FrameChain
  <1>7. /\ ~b.mustRelease /\ b.arm.pose = "three" =>
              /\ e.pose.stable = "three" /\ ~Toggles(e)
              /\ \/ b.arm.age = 0
                 \/ ~engine.mustRelease /\ engine.arm.pose = "three" /\ b.arm.age = engine.arm.age
        /\ ~b.mustRelease => /\ ~Toggles(e)
                             /\ \/ ~engine.mustRelease
                                \/ /\ e.pose.stable # "three" /\ engine.released # Missing
                                   /\ engine.released >= ReleaseToArm
        /\ b.mustRelease /\ b.released # Missing =>
              /\ e.pose.stable # "three" /\ engine.mustRelease
              /\ (b.released = engine.released \/ b.released = 0)
    BY FrameChain
  <1> HIDE DEF e, b
  <1> DEFINE pose == e.pose.stable
             toggled == Toggles(e)
  <1>8. /\ EngineOK(next) /\ (PalmCools /\ PalmOK(b) => PalmOK(next))
        /\ EngineOK(s) /\ s.pose = b.pose /\ s.profile = b.profile
        /\ s.latch = b.latch /\ s.drag = b.drag
        /\ next.running = b.running /\ next.armed = b.armed /\ next.stopped = b.stopped
        /\ next.silent = 0 /\ next.profile = b.profile /\ next.pose = b.pose
        /\ next.arm = b.arm /\ next.mustRelease = b.mustRelease
        /\ next.released = b.released
        /\ acts => /\ next.latch = LatchAfter(b.latch, ActionPose(s), Dwell(s, ActionPose(s)))
                   /\ next.drag <=> (b.drag \/ "down" \in Performed(s)) /\ "up" \notin Performed(s)
        /\ ~acts => next.drag = b.drag
    BY <1>5, <1>4a, ActedStep
  <1>9. /\ engine \in Engines /\ EngineOK(engine) /\ hand \in Hands
        /\ button \in BOOLEAN /\ raised \in BOOLEAN
    BY DEF EngineInv, EngineOK, EngineTypeOK, Hands
  <1>10. b \in Engines /\ s \in Engines /\ next \in Engines
    BY <1>5, <1>8 DEF EngineOK
  <1>11. /\ Performed(s) \subseteq {"click", "other", "down", "up"}
         /\ ~Performs(s) => Performed(s) = {}
         /\ Performs(s) => ActionPose(s) # "none"
         /\ "down" \in Performed(s) => "up" \notin Performed(s)
    BY <1>10, PerformedIsTyped
  <1>12. /\ ActionPose(s) \in Gestures /\ ActionPose(s) \in {"none", pose}
         /\ Dwell(s, ActionPose(s)) \in Nat
         /\ ActionPose(s) # "none" => /\ ActionPose(s) \in Discrete
                                      /\ Actions[p][ActionPose(s)] # Missing
                                      /\ Dwell(s, ActionPose(s)) = Actions[p][ActionPose(s)].dwell
    BY <1>5, <1>8, <1>10, ActionPoseIsTyped
  <1>13. posed \subseteq {"click", "other", "down", "up"} /\ others \subseteq MadeCalls
    BY <1>11 DEF Continuous, MadeCalls
  <1>14. others \cap {"click", "other", "down", "up"} = {}
    BY DEF Continuous
  <1>15. /\ engine' = next
         /\ made' = (IF released THEN {"up"} ELSE {}) \cup posed \cup others
         /\ button' = IF "down" \in posed THEN TRUE
                      ELSE button /\ ~released /\ posed \cap {"up", "click"} = {}
    BY <1>3 DEF Settles
  <1>16. hand' \in Hands
    BY <1>4, <1>5, <1>9, ShowsIsFine
  <1>17. /\ pose = "three" => hand'.arm = IF hand.arm = Missing THEN 0 ELSE hand.arm
         /\ pose # "three" => hand'.rest = IF hand.rest = Missing THEN 0 ELSE hand.rest
         /\ hand'.rested <=> ~toggled /\ (hand.rested \/
               (pose # "three" /\ hand.rest # Missing /\ hand.rest >= ReleaseToArm))
         /\ performed => hand'.done = pose
         /\ ~performed /\ hand'.done # "none" =>
               ~reset /\ hand.done = pose /\ hand'.done = pose
    BY <1>4, <1>5, <1>9, ShowsIsFine
  <1>18. toggled => ActionPose(s) = "none"
    BY <1>6, <1>12, EngineConstants DEF Discrete
  <1> HIDE DEF released, posed, others, performed, reset, pose, toggled
  <1>19. EngineTypeOK'
    <2>1. made' \subseteq MadeCalls
      BY <1>13, <1>15 DEF MadeCalls
    <2>2. button' \in BOOLEAN
      BY <1>9, <1>15
    <2> QED
      BY <1>2, <1>9, <1>10, <1>15, <1>16, <2>1, <2>2 DEF EngineTypeOK, MadeCalls, Hands
  <1>20. EngineOK(engine)' /\ (PalmCools /\ PalmOK(engine) => PalmOK(engine)')
    <2>1. EngineOK(engine')
      BY <1>8, <1>15
    <2>2. PalmCools /\ PalmOK(engine) => PalmOK(engine')
      BY <1>5, <1>8, <1>15
    <2> QED
      BY <2>1, <2>2 DEF EngineOK, DragIsWatched, LatchHasAction, PalmOK, PalmIsReady, PalmHasEnded
  <1>21. ButtonIsDrag' /\ RaisedHasEnded'
    <2>1. ~raised /\ (button => engine.drag)
      BY <1>2 DEF EngineInv, ButtonIsDrag, RaisedHasEnded
    <2>2. ASSUME button' PROVE next.drag
      <3>1. CASE acts
        <4>1. posed = Performed(s)
          BY <3>1 DEF posed
        <4>2. "down" \in posed \/ (button /\ ~released /\ "up" \notin posed)
          BY <1>15, <2>2
        <4>3. button /\ ~released => b.drag
          BY <2>1 DEF released
        <4> QED
          BY <1>8, <1>11, <3>1, <4>1, <4>2, <4>3
      <3>2. CASE ~acts
        <4>1. posed = {}
          BY <3>2 DEF posed
        <4>2. button /\ ~released
          BY <1>15, <2>2, <4>1
        <4> QED
          BY <1>8, <2>1, <3>2, <4>2 DEF released
      <3> QED
        BY <3>1, <3>2
    <2> QED
      BY <1>2, <1>15, <2>1, <2>2 DEF ButtonIsDrag, RaisedHasEnded
  <1>22. hand.arm \in AgesUpTo(HoldToArm) /\ hand.rest \in AgesUpTo(ReleaseToArm)
    BY <1>9 DEF Hands
  <1>23. ArmIsShown'
    <2> SUFFICES ASSUME ~b.mustRelease, b.arm.pose = "three"
                 PROVE  hand'.arm # Missing /\ b.arm.age <= hand'.arm
      BY <1>8, <1>15 DEF ArmIsShown
    <2>1. /\ pose = "three"
          /\ \/ b.arm.age = 0
             \/ ~engine.mustRelease /\ engine.arm.pose = "three" /\ b.arm.age = engine.arm.age
      BY <1>7 DEF pose
    <2>2. hand'.arm = IF hand.arm = Missing THEN 0 ELSE hand.arm
      BY <1>17, <2>1
    <2>3. ~engine.mustRelease /\ engine.arm.pose = "three" =>
              hand.arm # Missing /\ engine.arm.age <= hand.arm
      BY DEF EngineInv, ArmIsShown
    <2>4. hand.arm # Missing => hand.arm \in Nat
      BY <1>22 DEF AgesUpTo
    <2> QED
      BY <2>1, <2>2, <2>3, <2>4, EngineConstants
  <1>24. RestIsShown'
    <2>1. /\ ~engine.mustRelease => hand.rested
          /\ engine.mustRelease /\ engine.released # Missing =>
                hand.rest # Missing /\ engine.released <= hand.rest
      BY DEF EngineInv, RestIsShown
    <2>2. hand.rest # Missing => hand.rest \in Nat
      BY <1>22 DEF AgesUpTo
    <2>3. engine.released # Missing => engine.released \in Nat
      BY <1>9, EngineFields DEF AgesUpTo
    <2>4. ASSUME ~b.mustRelease PROVE hand'.rested
      <3>1. /\ ~toggled
            /\ \/ ~engine.mustRelease
               \/ /\ pose # "three" /\ engine.released # Missing
                  /\ engine.released >= ReleaseToArm
        BY <1>7, <2>4 DEF toggled, pose
      <3>2. CASE hand.rested
        BY <1>17, <3>1, <3>2
      <3>3. CASE ~hand.rested
        <4>1. /\ pose # "three" /\ hand.rest # Missing
              /\ engine.released <= hand.rest /\ engine.released >= ReleaseToArm
              /\ engine.released # Missing
          BY <2>1, <3>1, <3>3
        <4>2. hand.rest >= ReleaseToArm
          BY <2>2, <2>3, <4>1, EngineConstants
        <4> QED
          BY <1>17, <3>1, <4>1, <4>2
      <3> QED
        BY <3>2, <3>3
    <2>5. ASSUME b.mustRelease, b.released # Missing
          PROVE  hand'.rest # Missing /\ b.released <= hand'.rest
      <3>1. /\ pose # "three" /\ engine.mustRelease
            /\ (b.released = engine.released \/ b.released = 0)
        BY <1>7, <2>5 DEF pose
      <3>2. hand'.rest = IF hand.rest = Missing THEN 0 ELSE hand.rest
        BY <1>17, <3>1
      <3> QED
        BY <2>1, <2>2, <2>5, <3>1, <3>2, EngineConstants
    <2> QED
      BY <1>8, <1>15, <2>4, <2>5 DEF RestIsShown
  <1>25. TogglesAfterHold
    <2> SUFFICES ASSUME next.armed # engine.armed
                 PROVE  hand.arm # Missing /\ hand.arm >= HoldToArm /\ hand.rested
      BY <1>15 DEF TogglesAfterHold
    <2>1. /\ ~engine.mustRelease /\ engine.arm.pose = "three"
          /\ engine.arm.age >= HoldToArm
      BY <1>5, <1>6, <1>8
    <2>2. hand.arm # Missing /\ engine.arm.age <= hand.arm /\ hand.rested
      BY <2>1 DEF EngineInv, ArmIsShown, RestIsShown
    <2>3. engine.arm.age \in Nat /\ hand.arm \in Nat
      BY <1>9, <1>22, <2>2, EngineFields DEF AgesUpTo, Latches
    <2> QED
      BY <2>1, <2>2, <2>3, EngineConstants
  <1>26. StopsForGood
    <2> SUFFICES ASSUME engine.stopped PROVE ~next.armed /\ made' \subseteq {"up"}
      BY <1>15 DEF StopsForGood
    <2>1. ~b.armed /\ ~acts
      BY <1>5 DEF EngineOK, acts
    <2>2. posed = {} /\ others = {}
      BY <2>1 DEF posed, others
    <2> QED
      BY <1>8, <1>15, <2>1, <2>2
  <1>27. ASSUME DoneIsLatched, performed, p = engine.profile PROVE hand.done # pose
    <2>1. acts /\ Performs(s) /\ ActionPose(s) # "none" /\ ActionPose(s) = pose
      BY <1>11, <1>12, <1>27 DEF performed
    <2>2. ~toggled
      BY <1>18, <2>1
    <2>3. engine.armed /\ ~engine.stopped /\ s.latch = engine.latch
      BY <1>5, <1>8, <1>27, <2>1, <2>2 DEF toggled, acts
    <2>4. LatchFires(s.latch, ActionPose(s), Dwell(s, ActionPose(s)))
      BY <2>1 DEF Performs
    <2> SUFFICES ASSUME hand.done = pose PROVE FALSE
      OBVIOUS
    <2>5. engine.latch.pose = pose /\ engine.latch.fired
      BY <1>27, <2>1, <2>3 DEF DoneIsLatched
    <2> QED
      BY <2>1, <2>3, <2>4, <2>5 DEF LatchFires
  <1>28. DoneIsLatched => ActsOnce
    <2> SUFFICES ASSUME DoneIsLatched, made' \cap {"click", "other", "down"} # {},
                        next.profile = engine.profile
                 PROVE  hand.done # next.pose.stable
      BY <1>15 DEF ActsOnce
    <2>1. posed # {}
      BY <1>14, <1>15
    <2>2. performed
      BY <1>11, <2>1 DEF posed, performed
    <2> QED
      BY <1>5, <1>8, <1>27, <2>2 DEF pose
  <1>29. ASSUME PosesDwell, DoneIsLatched PROVE DoneIsLatched'
    <2> SUFFICES ASSUME next.armed, ~next.stopped, hand'.done # "none"
                 PROVE  next.latch.pose = hand'.done /\ next.latch.fired
      BY <1>15 DEF DoneIsLatched
    <2>1. acts
      BY <1>8 DEF acts
    <2> DEFINE g == ActionPose(s)
               dwell == Dwell(s, g)
    <2>2. next.latch = LatchAfter(b.latch, g, dwell) /\ b.latch \in Latches
      BY <1>8, <1>10, <2>1, EngineFields
    <2>3. /\ next.latch.pose = g
          /\ next.latch.fired = (g = b.latch.pose /\ (b.latch.fired \/ LatchFires(b.latch, g, dwell)))
      BY <1>12, <2>2, LatchIsTyped
    <2>4. CASE performed
      <3>1. Performs(s) /\ g # "none" /\ g = pose /\ hand'.done = pose
        BY <1>11, <1>12, <1>17, <2>4 DEF performed
      <3>2. dwell # 0
        BY <1>12, <1>29, <3>1 DEF PosesDwell
      <3>3. LatchFires(b.latch, g, dwell)
        BY <1>8, <3>1 DEF Performs
      <3>4. g = b.latch.pose
        BY <3>2, <3>3 DEF LatchFires
      <3> QED
        BY <2>3, <3>1, <3>3, <3>4
    <2>5. CASE ~performed
      <3>1. ~reset /\ hand.done = pose /\ hand'.done = pose
        BY <1>17, <2>5
      <3>2. ~toggled /\ p = engine.profile
        BY <3>1 DEF reset, toggled
      <3>3. engine.armed /\ ~engine.stopped /\ b.latch = engine.latch
        BY <1>5, <1>8, <3>2 DEF toggled
      <3>4. engine.latch.pose = pose /\ engine.latch.fired /\ pose # "none"
        BY <1>29, <3>1, <3>3 DEF DoneIsLatched
      <3>5. pose \in Discrete /\ Actions[p][pose] # Missing
        BY <1>9, <3>2, <3>4 DEF EngineOK, LatchHasAction
      <3>6. g = pose
        BY <1>5, <1>8, <3>5 DEF ActionPose, pose
      <3> QED
        BY <2>3, <3>1, <3>3, <3>4, <3>6
    <2> QED
      BY <2>4, <2>5
  <1> QED
    BY <1>19, <1>20, <1>21, <1>23, <1>24, <1>25, <1>26, <1>28, <1>29 DEF EngineInv

-----------------------------------------------------------------------------
(* The two programs together *)

AgentsInv == StableInv /\ EngineInv

LEMMA StableRests ==
    ASSUME StableInv, UNCHANGED vars
    PROVE  StableInv'
  BY DEF StableInv, vars, TypeOK, PressIsPinch, HeldIsDragged, PressIsShown, PalmIsShown,
         CooldownIsKept

LEMMA EngineRests ==
    ASSUME UNCHANGED engineVars
    PROVE  /\ EngineInv => EngineInv'
           /\ PalmOK(engine) => PalmOK(engine)'
           /\ DoneIsLatched => DoneIsLatched'
  BY DEF engineVars, EngineInv, EngineTypeOK, EngineOK, DragIsWatched, LatchHasAction,
         ButtonIsDrag, RaisedHasEnded, ArmIsShown, RestIsShown, DoneIsLatched,
         PalmOK, PalmIsReady, PalmHasEnded

\* What a step of the stable agent does.
LEMMA StableAgentStep ==
    ASSUME StableInv, [Next]_vars
    PROVE  /\ StableInv'
           /\ [DragsAfterHold]_vars /\ [ArmsAfterHold]_vars /\ [ClicksAfterCooldown]_vars
  <1>1. CASE HandFrame
    BY <1>1, HandFrameStep
  <1>2. CASE NoHandFrame
    BY <1>2, NoHandFrameStep
  <1>3. CASE EmergencyStop
    BY <1>3, EmergencyStopStep
  <1>4. CASE Exit
    BY <1>4, ExitStep
  <1>5. CASE Tick
    BY <1>5, TickStep
  <1>6. CASE UNCHANGED vars
    BY <1>6, StableRests
  <1> QED
    BY <1>1, <1>2, <1>3, <1>4, <1>5, <1>6 DEF Next

\* What a step of the agent with profiles does.
LEMMA ProfileAgentStep ==
    ASSUME EngineInv, [EngineNext]_engineVars
    PROVE  /\ EngineInv'
           /\ PalmCools /\ PalmOK(engine) => PalmOK(engine)'
           /\ PosesDwell /\ DoneIsLatched => DoneIsLatched'
           /\ [TogglesAfterHold]_engineVars /\ [StopsForGood]_engineVars
           /\ DoneIsLatched => [ActsOnce]_engineVars
  <1>1. CASE PoseFrame
    BY <1>1, PoseFrameStep
  <1>2. CASE FaintFrame \/ EmptyFrame
    BY <1>2, FaintFrameStep
  <1>3. CASE StopGestures \/ LeaveGestures
    BY <1>3, StopStep
  <1>4. CASE EngineTick
    BY <1>4, EngineTickStep
  <1>5. CASE UNCHANGED engineVars
    BY <1>5, EngineRests
  <1> QED
    BY <1>1, <1>2, <1>3, <1>4, <1>5 DEF EngineNext

LEMMA OneAgentSteps ==
    [AgentsNext]_agentsVars => [Next]_vars /\ [EngineNext]_engineVars
  BY DEF AgentsNext, agentsVars, StableAgent, ProfileAgent, Next, EngineNext

LEMMA AgentsInitially == AgentsInit => AgentsInv /\ PalmOK(engine) /\ DoneIsLatched
  BY StableInitially, EngineInitially DEF AgentsInit, AgentsInv

LEMMA AgentsStep == AgentsInv /\ [AgentsNext]_agentsVars => AgentsInv'
  BY OneAgentSteps, StableAgentStep, ProfileAgentStep DEF AgentsInv

LEMMA AgentsInvHolds == AgentsSpec => []AgentsInv
<1>1. AgentsInit => AgentsInv
  BY AgentsInitially
<1> QED
  BY <1>1, AgentsStep, PTL DEF AgentsSpec

-----------------------------------------------------------------------------
(* The properties that the run checks *)

\* Neither program leaves a button down.  For the agent with profiles the
\* open palm is a way out only in profiles where its cooldown does not
\* outlast its dwell, which is so in all of gesture_profiles/.
THEOREM NoButtonIsLeftDown ==
    ASSUME PalmCools
    PROVE  AgentsSpec => []NoButtonLeftDown
<1> DEFINE IInv == AgentsInv /\ PalmOK(engine)
<1>1. AgentsInit => IInv
  BY AgentsInitially
<1>2. IInv /\ [AgentsNext]_agentsVars => IInv'
  <2>1. IInv /\ [AgentsNext]_agentsVars => AgentsInv'
    BY AgentsStep
  <2>2. IInv /\ [AgentsNext]_agentsVars => PalmOK(engine)'
    BY OneAgentSteps, ProfileAgentStep DEF AgentsInv
  <2> QED
    BY <2>1, <2>2
<1>3. IInv => NoButtonLeftDown
  <2>1. StableInv => TypeOK /\ ButtonFollowsPinch
    BY DEF StableInv, PressIsPinch, HeldIsDragged, ButtonFollowsPinch
  <2>2. EngineInv => EngineTypeOK /\ HeldButtonIsWatched
    BY DEF EngineInv, EngineOK, DragIsWatched, ButtonIsDrag, HeldButtonIsWatched
  <2>3. PalmOK(engine) => PalmEndsDrag
    BY DEF PalmOK, PalmHasEnded, PalmEndsDrag
  <2> QED
    BY <2>1, <2>2, <2>3 DEF AgentsInv, NoButtonLeftDown
<1> HIDE DEF IInv
<1> QED
  BY <1>1, <1>2, <1>3, PTL DEF AgentsSpec

\* Drags and arming take the hold that is configured for them
\* (IndexPinchAction, HoldDetector, GestureEngine._toggle_arm).
THEOREM PosesAreAlwaysDeliberate == AgentsSpec => PosesAreDeliberate
<1>1. AgentsInv /\ [AgentsNext]_agentsVars =>
          /\ [DragsAfterHold]_vars /\ [ArmsAfterHold]_vars
          /\ [TogglesAfterHold]_engineVars
  BY OneAgentSteps, StableAgentStep, ProfileAgentStep DEF AgentsInv
<1>2. AgentsSpec => /\ [][DragsAfterHold]_vars /\ [][ArmsAfterHold]_vars
                    /\ [][TogglesAfterHold]_engineVars
  BY <1>1, AgentsInvHolds, PTL DEF AgentsSpec
<1> QED
  BY <1>2 DEF PosesAreDeliberate, DragIsDeliberate, ArmingIsDeliberate, ToggleIsDeliberate,
              DragsAfterHold, ArmsAfterHold, TogglesAfterHold

\* A pose acts once and never after a stop, and right and double clicks keep
\* their cooldown (GestureLatch, PinchLatch, emergency_stop).  A pose without
\* dwell acts in two frames, as its first is not marked in the latch; no
\* profile of gesture_profiles/ has one.
THEOREM ActionsAlwaysKeepBounds ==
    ASSUME PosesDwell
    PROVE  AgentsSpec => ActionsKeepBounds
<1> DEFINE IInv == AgentsInv /\ DoneIsLatched
<1>1. AgentsInit => IInv
  BY AgentsInitially
<1>2. IInv /\ [AgentsNext]_agentsVars => IInv'
  <2>1. IInv /\ [AgentsNext]_agentsVars => AgentsInv'
    BY AgentsStep
  <2>2. IInv /\ [AgentsNext]_agentsVars => DoneIsLatched'
    BY OneAgentSteps, ProfileAgentStep DEF AgentsInv
  <2> QED
    BY <2>1, <2>2
<1>3. IInv /\ [AgentsNext]_agentsVars =>
          /\ [ClicksAfterCooldown]_vars
          /\ [ActsOnce]_engineVars /\ [StopsForGood]_engineVars
  BY OneAgentSteps, StableAgentStep, ProfileAgentStep DEF AgentsInv
<1> HIDE DEF IInv
<1>4. AgentsSpec => /\ [][ClicksAfterCooldown]_vars
                    /\ [][ActsOnce]_engineVars /\ [][StopsForGood]_engineVars
  BY <1>1, <1>2, <1>3, PTL DEF AgentsSpec
<1> QED
  BY <1>4 DEF ActionsKeepBounds, OtherClicksSpaced, PoseActsOnce, StopIsFinal,
              ClicksAfterCooldown, ActsOnce, StopsForGood

=============================================================================
