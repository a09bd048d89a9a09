--------------------------- MODULE GestureAgents ---------------------------
(***************************************************************************)
(* The two programs that turn a hand into mouse and keyboard: the stable   *)
(* agent (scripts/hand_gesture_stable.py) and the agent with profiles      *)
(* (scripts/hand_gesture_agent.py).  The user starts one of them.          *)
(***************************************************************************)
EXTENDS StableGesture, GestureEngine

VARIABLE program    \* which one; does not change

agentsVars == <<program, vars, engineVars>>

AgentsInit ==
    /\ program \in {"stable", "engine"}
    /\ Init /\ (program = "engine" => simple)
    /\ EngineInit

\* A step of the program that was started leaves the other's state alone.
StableAgent == program = "stable" /\ UNCHANGED <<program, engineVars>>
ProfileAgent == program = "engine" /\ UNCHANGED <<program, vars>>

AgentsNext ==
    \/ HandFrame /\ StableAgent
    \/ NoHandFrame /\ StableAgent
    \/ EmergencyStop /\ StableAgent
    \/ Exit /\ StableAgent
    \/ Tick /\ StableAgent
    \/ PoseFrame /\ ProfileAgent
    \/ FaintFrame /\ ProfileAgent
    \/ EmptyFrame /\ ProfileAgent
    \/ StopGestures /\ ProfileAgent
    \/ LeaveGestures /\ ProfileAgent
    \/ EngineTick /\ ProfileAgent

AgentsSpec == AgentsInit /\ [][AgentsNext]_agentsVars

\* Neither program leaves a button down: the pose, the watchdog, a stop or
\* the end lets it go.
NoButtonLeftDown ==
    TypeOK /\ EngineTypeOK /\ ButtonFollowsPinch /\ HeldButtonIsWatched /\ PalmEndsDrag

\* Drags and arming take the hold that is configured for them.
PosesAreDeliberate == DragIsDeliberate /\ ArmingIsDeliberate /\ ToggleIsDeliberate

\* What a pose does is done once or at its distance, and never after a stop.
ActionsKeepBounds == OtherClicksSpaced /\ PoseActsOnce /\ StopIsFinal

=============================================================================
