---------------------------- MODULE GestureEngine ----------------------------
(***************************************************************************)
(* GestureAgent and its GestureEngine (gestures/service.py, engine.py,     *)
(* safety.py, stability.py, dispatcher.py, profiles.py): the agent with    *)
(* profiles, which scripts/hand_gesture_agent.py starts.                   *)
(*                                                                         *)
(* Instants of the code are ages here, which stop at the threshold they    *)
(* are compared with.  Where the hand is, and so pointer and the amount of *)
(* scrolling, is left out.  A call of the mouse may raise (the fail-safe   *)
(* corner of PyAutoGUI): that ends the program.                            *)
(***************************************************************************)
EXTENDS Integers

CONSTANTS
    Gestures,           \* what GestureRecognizer reports
    Profiles, DefaultProfile,
    Actions,            \* Actions[p][g]: action, dwell and cooldown, or Missing
    Missing,
    EnterFrames, ReleaseFrames,                         \* frames
    HoldToArm, ReleaseToArm, ToggleCooldown, Stale, SwipeWindow   \* ticks

Discrete == Gestures \ {"none", "point", "two", "three"}
Keyed == Discrete \cup {"swipe"}    \* what has a cooldown

ASSUME EngineAssumption ==
    /\ {"none", "three", "palm"} \subseteq Gestures
    /\ DefaultProfile \in Profiles
    /\ \A p \in Profiles, g \in Keyed : Actions[p][g] = Missing \/
          Actions[p][g] \in [action : {"click", "other", "down", "up"}, dwell : Nat, cooldown : Nat]
    /\ {EnterFrames, ReleaseFrames} \subseteq Nat \ {0}
    /\ {HoldToArm, ReleaseToArm, ToggleCooldown, Stale, SwipeWindow} \subseteq Nat \ {0}
    /\ Missing \notin Int \cup STRING

VARIABLES
    engine,     \* the engine with its safety controller, detectors and dispatcher
    button,     \* the desktop: the left button is down
    made,       \* what was called on the desktop in the last step
    raised,     \* history: a call of the desktop has raised
    hand        \* history: how long three fingers are shown (arm) or not (rest),
                \* rested since the last toggle, done: the pose that has acted

engineVars == <<engine, button, made, raised, hand>>

NoLatch == [pose |-> "none", age |-> 0, fired |-> FALSE]
NoTrack == [age |-> Missing, fired |-> FALSE]

EngineInit ==
    /\ engine = [running |-> TRUE, armed |-> FALSE, stopped |-> FALSE,
                 silent |-> Missing, toggled |-> ToggleCooldown,
                 profile |-> DefaultProfile,
                 pose |-> [stable |-> "none", candidate |-> "none", count |-> 0],
                 arm |-> NoLatch, mustRelease |-> FALSE, released |-> Missing,
                 latch |-> NoLatch, track |-> NoTrack,
                 since |-> [p \in Profiles |-> [g \in Keyed |->
                     IF Actions[p][g] = Missing THEN 0 ELSE Actions[p][g].cooldown]],
                 drag |-> FALSE]
    /\ button = FALSE
    /\ made = {}
    /\ raised = FALSE
    /\ hand = [arm |-> Missing, rest |-> Missing, rested |-> TRUE, done |-> "none"]

-----------------------------------------------------------------------------
(* The filters *)

\* GestureStabilizer.update
Stabilized(p, raw) ==
    LET count == IF raw = p.candidate THEN p.count + 1 ELSE 1
        needed == IF raw = "none" THEN ReleaseFrames ELSE EnterFrames
    IN  IF raw = p.stable \/ count >= needed
        THEN [stable |-> raw, candidate |-> "none", count |-> 0]
        ELSE [p EXCEPT !.candidate = raw, !.count = count]

\* GestureLatch.update: does it fire, and what does it remember.  A new pose
\* without dwell fires at once and is not marked.
LatchFires(l, pose, dwell) ==
    /\ pose # "none"
    /\ IF pose # l.pose THEN dwell = 0 ELSE ~l.fired /\ l.age >= dwell

LatchedUnmarked(l, pose, dwell) ==  \* mutant: fires in every frame
    IF pose # l.pose THEN [NoLatch EXCEPT !.pose = pose] ELSE l

LatchAfter(l, pose, dwell) ==
    IF pose # l.pose THEN [NoLatch EXCEPT !.pose = pose]
    ELSE [l EXCEPT !.fired = @ \/ LatchFires(l, pose, dwell)]

\* SwipeDetector.update; far: the palm has moved since the oldest point of
\* the window, which there is if the last one is young enough.
Tracks(t, far) ==
    ~t.fired /\ t.age # Missing /\ t.age <= SwipeWindow /\ far

TrackAfter(t, far) == [age |-> 0, fired |-> t.fired \/ Tracks(t, far)]

-----------------------------------------------------------------------------
(* The engine.  An operator takes the engine and gives the engine after it. *)

\* _release_and_reset
ReleaseAndReset(e) ==
    [e EXCEPT !.drag = FALSE, !.latch = NoLatch, !.track = NoTrack]

\* emergency_stop
StoppedEngine(e) == ReleaseAndReset([e EXCEPT !.armed = FALSE, !.stopped = TRUE])

\* tick and watchdog_expired
Silent(e) == e.silent # Missing /\ e.silent > Stale

WatchedKeepsArmed(e) ==             \* mutant: disarmed at the second look
    IF Silent(e) THEN [e EXCEPT !.silent = Missing] ELSE e

Watched(e) ==
    IF ~Silent(e) THEN e
    ELSE IF e.armed
    THEN ReleaseAndReset([e EXCEPT !.silent = Missing, !.armed = FALSE])
    ELSE [e EXCEPT !.silent = Missing]

\* _resolve_profile
InProfile(e, p) ==
    IF p = e.profile THEN e ELSE [ReleaseAndReset(e) EXCEPT !.profile = p]

\* _toggle_arm, first part: after a toggle the pose must be left for a while.
Rested(e) ==
    IF ~e.mustRelease THEN e
    ELSE IF e.pose.stable = "three" THEN [e EXCEPT !.released = Missing]
    ELSE IF e.released = Missing THEN [e EXCEPT !.released = 0]
    ELSE IF e.released < ReleaseToArm THEN e
    ELSE [e EXCEPT !.mustRelease = FALSE, !.released = Missing, !.arm = NoLatch]

\* GestureSafetyController.toggle
MayToggle(e) == ~e.stopped /\ e.toggled >= ToggleCooldown

ArmPose(e) == IF e.pose.stable = "three" THEN "three" ELSE "none"

Toggles(e) ==
    ~e.mustRelease /\ LatchFires(e.arm, ArmPose(e), HoldToArm) /\ MayToggle(e)

ToggledAtOnce(e) ==                 \* mutant: the pose need not be left
    ReleaseAndReset([e EXCEPT !.armed = ~@, !.toggled = 0, !.arm = NoLatch])

Toggled(e) ==
    ReleaseAndReset([e EXCEPT !.armed = ~@, !.toggled = 0,
                              !.mustRelease = TRUE, !.released = Missing])

\* _toggle_arm on a rested engine
ToggleArm(e) ==
    LET a == [e EXCEPT !.arm = LatchAfter(@, ArmPose(e), HoldToArm)]
    IN  IF e.mustRelease THEN e ELSE IF Toggles(e) THEN Toggled(a) ELSE a

-----------------------------------------------------------------------------
(* What an armed engine does with a pose *)

Ready(e, g) == e.since[e.profile][g] >= Actions[e.profile][g].cooldown

Cooled(e, g, acts) == IF acts THEN [e EXCEPT !.since[e.profile][g] = 0] ELSE e

\* _swipe_action
SwipeActs(e, far) ==
    /\ e.pose.stable = "palm" /\ Tracks(e.track, far)
    /\ Actions[e.profile]["swipe"] # Missing /\ Ready(e, "swipe")

SwipedEngine(e, far) ==
    IF e.pose.stable # "palm" THEN [e EXCEPT !.track = NoTrack]
    ELSE Cooled([e EXCEPT !.track = TrackAfter(@, far)], "swipe", SwipeActs(e, far))

\* _discrete_action
ActionPose(e) ==
    LET g == e.pose.stable
    IN  IF g \in Discrete /\ Actions[e.profile][g] # Missing THEN g ELSE "none"

Dwell(e, g) == IF g \in Discrete /\ Actions[e.profile][g] # Missing
               THEN Actions[e.profile][g].dwell ELSE 0

Performs(e) ==
    LET g == ActionPose(e)
    IN  LatchFires(e.latch, g, Dwell(e, g)) /\ Ready(e, g)

\* What the action of the pose is, once the dispatcher has had its say.
Performed(e) ==
    IF ~Performs(e) THEN {}
    ELSE CASE Actions[e.profile][ActionPose(e)].action = "down" -> IF e.drag THEN {} ELSE {"down"}
           [] Actions[e.profile][ActionPose(e)].action = "up" -> IF e.drag THEN {"up"} ELSE {}
           [] OTHER -> {Actions[e.profile][ActionPose(e)].action}

ActedEngine(e) ==
    LET g == ActionPose(e)
        a == [e EXCEPT !.latch = LatchAfter(@, g, Dwell(e, g)),
                       !.drag = (@ \/ "down" \in Performed(e)) /\ "up" \notin Performed(e)]
    IN  Cooled(a, g, Performs(e))

\* _continuous_action
Continuous(e, moved) ==
    CASE e.pose.stable = "point" -> {"move"}
      [] e.pose.stable = "two" /\ moved -> {"scroll"}
      [] OTHER -> {}

-----------------------------------------------------------------------------
(* GestureAgent.run *)

\* Calls in the order: release, pointer, swipe, pose.
Settles(next, released, posed, others) ==
    /\ engine' = next
    /\ made' = (IF released THEN {"up"} ELSE {}) \cup posed \cup others
    /\ button' = IF "down" \in posed THEN TRUE
                 ELSE button /\ ~released /\ posed \cap {"up", "click"} = {}

\* The histories: a frame shows the stable pose; reset says that its action
\* may be performed again.
Shows(pose, toggled, reset, performed) ==
    LET three == pose = "three"
        grown(age, shown) == IF ~shown THEN Missing ELSE IF age = Missing THEN 0 ELSE age
    IN  hand' = [arm |-> grown(hand.arm, three), rest |-> grown(hand.rest, ~three),
                 rested |-> ~toggled /\ (hand.rested \/
                     (~three /\ hand.rest # Missing /\ hand.rest >= ReleaseToArm)),
                 done |-> IF performed THEN pose
                          ELSE IF reset \/ hand.done # pose THEN "none" ELSE hand.done]

\* process_frame with a hand that is seen well enough; moved says whether
\* the palm has moved far, or two fingers at all.
PoseFrame == \E raw \in Gestures, p \in Profiles, moved \in BOOLEAN :
    LET seen == [engine EXCEPT !.silent = 0, !.pose = Stabilized(@, raw)]
        e == Rested(InProfile(seen, p))
        b == ToggleArm(e)
        s == SwipedEngine(b, moved)
        acts == b.armed /\ ~b.stopped
        released == engine.drag /\ ~b.drag
    IN  /\ engine.running
        /\ IF acts
           THEN Settles(ActedEngine(s), released, Performed(s),
                        Continuous(b, moved) \cup IF SwipeActs(b, moved) THEN {"swipe"} ELSE {})
           ELSE Settles(b, released, {}, {})
        /\ Shows(b.pose.stable, Toggles(e), p # engine.profile \/ Toggles(e),
                 acts /\ Performs(s))
        /\ UNCHANGED raised

\* process_frame with a hand that is hardly seen: the pose fades and the
\* watchdog looks; without a hand only the latter.
FaintFrame ==
    LET e == Watched([engine EXCEPT !.pose = Stabilized(@, "none")])
    IN  /\ engine.running
        /\ Settles(e, engine.drag /\ ~e.drag, {}, {})
        /\ UNCHANGED <<raised, hand>>

EmptyFrame ==
    LET e == Watched(engine)
    IN  /\ engine.running
        /\ Settles(e, engine.drag /\ ~e.drag, {}, {})
        /\ UNCHANGED <<raised, hand>>

\* Ctrl+Alt+G
StopGestures ==
    /\ engine.running
    /\ Settles(StoppedEngine(engine), engine.drag, {}, {})
    /\ UNCHANGED <<raised, hand>>

\* The finally clause, after a key, an interrupt or an exception; the
\* release of the button may raise too.
LeaveGestures ==
    LET e == [StoppedEngine(engine) EXCEPT !.running = FALSE]
    IN  /\ engine.running
        /\ \/ Settles(e, engine.drag, {}, {}) /\ raised' = raised
           \/ engine.drag /\ Settles(e, FALSE, {}, {}) /\ raised' = TRUE
        /\ UNCHANGED hand

Grown(age, threshold) ==
    IF age = Missing THEN Missing ELSE IF age < threshold THEN age + 1 ELSE age

EngineTick ==
    /\ engine.running
    /\ engine' = [engine EXCEPT
           !.silent = Grown(engine.silent, Stale + 1),
           !.toggled = Grown(engine.toggled, ToggleCooldown),
           !.arm = [engine.arm EXCEPT
               !.age = IF engine.arm.pose = "none" THEN 0 ELSE Grown(@, HoldToArm)],
           !.released = Grown(engine.released, ReleaseToArm),
           !.latch = [engine.latch EXCEPT !.age = Grown(@, Dwell(engine, engine.latch.pose))],
           !.track = [engine.track EXCEPT !.age = Grown(@, SwipeWindow + 1)],
           !.since = [p \in Profiles |-> [g \in Keyed |->
               Grown(engine.since[p][g],
                     IF Actions[p][g] = Missing THEN 0 ELSE Actions[p][g].cooldown)]]]
    /\ hand' = [hand EXCEPT !.arm = Grown(hand.arm, HoldToArm),
                            !.rest = Grown(hand.rest, ReleaseToArm)]
    /\ made' = {}
    /\ UNCHANGED <<button, raised>>

EngineNext ==
    PoseFrame \/ FaintFrame \/ EmptyFrame \/ StopGestures \/ LeaveGestures \/ EngineTick

EngineSpec == EngineInit /\ [][EngineNext]_engineVars

-----------------------------------------------------------------------------

AgesUpTo(n) == 0..n \cup {Missing}

Latches == [pose : Gestures, age : Nat, fired : BOOLEAN]

Engines ==
    [running : BOOLEAN, armed : BOOLEAN, stopped : BOOLEAN,
     silent : AgesUpTo(Stale + 1), toggled : 0..ToggleCooldown, profile : Profiles,
     pose : [stable : Gestures, candidate : Gestures, count : 0..EnterFrames - 1 \cup 0..ReleaseFrames - 1],
     arm : Latches, mustRelease : BOOLEAN, released : AgesUpTo(ReleaseToArm),
     latch : Latches, track : [age : AgesUpTo(SwipeWindow + 1), fired : BOOLEAN],
     since : [Profiles -> [Keyed -> Nat]], drag : BOOLEAN]

\* The fields of the engine keep their ranges.
EngineTypeOK ==
    /\ engine \in Engines
    /\ button \in BOOLEAN /\ raised \in BOOLEAN
    /\ made \subseteq {"click", "other", "down", "up", "move", "scroll", "swipe"}
    /\ hand \in [arm : AgesUpTo(HoldToArm), rest : AgesUpTo(ReleaseToArm),
                 rested : BOOLEAN, done : Gestures]

\* The button is down only for a drag that the dispatcher knows of and that
\* the watchdog, the emergency stop, a change of the profile or of arming
\* will end: the program never leaves it down, unless the release raises
\* ("releases any held mouse button when tracking stops").
HeldButtonIsWatched ==
    (button \/ engine.drag) =>
        \/ raised
        \/ (engine.drag /\ engine.armed /\ ~engine.stopped /\ engine.silent # Missing)

\* An open palm that has been shown for its dwell has ended the drag: its
\* cooldown never keeps the release from being dispatched.
PalmEndsDrag ==
    engine.latch.fired /\ engine.latch.pose = "palm"
        /\ Actions[engine.profile]["palm"].action = "up" => ~engine.drag

\* A pose arms or disarms the agent only after three fingers in every frame
\* with a clear hand for arm_hold_ms,
\* after they were away for arm_release_ms since the last toggle ("Brief
\* recognition flicker therefore cannot immediately disarm the controller").
ToggleIsDeliberate == [][
    engine'.armed # engine.armed /\ engine'.silent = 0 /\ ~engine'.stopped =>
        /\ hand.arm # Missing /\ hand.arm >= HoldToArm
        /\ hand.rested]_engineVars

\* After an emergency stop no pose arms the agent again and nothing but a
\* release is called on the desktop.
StopIsFinal == [][
    engine.stopped => ~engine'.armed /\ made' \subseteq {"up"}]_engineVars

\* A pose that is held acts once, until it is left or the profile changes.
PoseActsOnce == [][
    made' \cap {"click", "other", "down"} # {} => hand.done # engine'.pose.stable
        \/ engine'.profile # engine.profile]_engineVars

=============================================================================
