SPECIFICATION AgentsSpec
CONSTANTS
    Poses = {"none", "point", "palm", "fist"}
    Fingers = {"index", "middle"}
    PoseEnter = 2
    PoseRelease = 2
    PinchEnter = 2
    PinchRelease = 2
    ArmHold = 2
    DisarmHold = 2
    Warmup = 1
    NoHandLimit = 2
    SimpleNoHandLimit = 1
    AutoArm = 1
    DragHold = 3
    SwipeDuration = 1
    SwipeCooldown = 2
    ClickCooldown <- MCClickCooldown
    Null = Null
    Gestures = {"none", "three", "fist", "palm", "pinch"}
    Profiles = {"browser", "game"}
    DefaultProfile = "browser"
    Actions <- MCActions
    Missing = Missing
    EnterFrames = 2
    ReleaseFrames = 1
    HoldToArm = 2
    ReleaseToArm = 1
    ToggleCooldown = 3
    Stale = 2
    SwipeWindow = 1
CHECK_DEADLOCK FALSE
INVARIANTS
    NoButtonLeftDown
PROPERTIES
    PosesAreDeliberate
    ActionsKeepBounds
