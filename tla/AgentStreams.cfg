SPECIFICATION StreamFairSpec
CONSTANTS
    Session = {s1, s2}
    NoSession = NoSession
    Watch = {w1, w2}
    NoWatch = NoWatch
    MaxOutbox = 1
    MaxMounts = 2
    MaxShells = 2
    StreamEnvironments <- Each
INVARIANTS OneEventStream SessionsCleanedUp
PROPERTIES TerminalSpec ShellsEnd TerminalLearnsEnd
CHECK_DEADLOCK FALSE
