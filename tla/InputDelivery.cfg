SPECIFICATION MCSpec
CONSTANTS
    None = None
    shift = shift
    ReadOnly = FALSE
    Callers = {c1}
    Sockets = {socket}
    Keys = {k, shift}
    Buttons = {b}
    Merging = {move}
    Pastes = {text}
    Modifiers <- ShiftOnly
    MaxEvents = 2
    MaxWaiting = 1
    MaxPasteBytes = 1
    MaxHeldKeys = 1
    MaxSequence = 3
    MaxEpoch = 1
    TerminalKeys = {"left", "up", "[", "c"}
    MaxDown = 3
    Targets = {ta, tb}
    NoTarget = NoTarget
    MaxOpens = 3
    MaxConnects = 2
    MaxChanges = 1
    Workers = {w1}
INVARIANTS NoStuckInput NoLostWakeup HeldMeansDown ListIsNewest ReconnectUnderWay ClosedIsQuiet NeverStuck
PROPERTY SendsInOrder
CHECK_DEADLOCK FALSE
