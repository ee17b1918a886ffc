SPECIFICATION FairSpec
CONSTANTS
    start = start  play = play  wait = wait
    a1 = a1  a2 = a2  a3 = a3  a4 = a4
    f1 = f1  f2 = f2  NoOne = NoOne
    Thens = {start, play, wait}
    StartClient = start
    NeedClient = {play, wait}
    Plays = {play}
    WaitForRound = {wait}
    BridgeCalls <- MCBridgeCalls
    Awaits = {a1, a2, a3, a4}
    ThenOf <- MCThenOf
    Rejecting = {a2, a3, a4}
    Calls = {start, play, wait, f1, f2}
    FetchCalls = {f1, f2}
    FetchGets = 2
    MaxMessages = 2
CHECK_DEADLOCK FALSE
INVARIANTS
    TypeOK
    NoLateCallback
    ToldOnce
    MessagesInOrder
PROPERTIES
    AwaitsAnswered
