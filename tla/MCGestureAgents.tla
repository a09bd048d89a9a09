-------------------------- MODULE MCGestureAgents --------------------------
EXTENDS GestureAgents

MCClickCooldown == [f \in Fingers |-> 2]

Does(action, dwell, cooldown) ==
    [action |-> action, dwell |-> dwell, cooldown |-> cooldown]

\* Like gesture_profiles/browser.json and offline_game.json.
MCActions ==
    [browser |->
        [g \in Keyed |->
            CASE g = "fist" -> Does("down", 1, 1)
              [] g = "palm" -> Does("up", 1, 1)
              [] g = "pinch" -> Does("click", 1, 2)
              [] g = "swipe" -> Does("other", 0, 1)],
     game |->
        [g \in Keyed |->
            IF g = "pinch" THEN Does("other", 1, 1) ELSE Missing]]

=============================================================================
