SPECIFICATION FairSpec
CONSTANTS
    start = start  play = play  wait = wait
    a1 = a1  a2 = a2  a3 = a3  a4 = a4
    f1 = f1  f2 = f2  NoOne = NoOne
    Thens = {start, wait}
    StartClient = start
    NeedClient = {wait}
    Plays = {}
    WaitForRound = {wait}
    BridgeCalls <- MCBridgeCalls
    Awaits = {a3}
    ThenOf <- MCThenOf
    Rejecting = {a3}
    Calls = {start, wait, f1}
    FetchCalls = {f1}
    FetchGets = 1
    MaxMessages = 1
CHECK_DEADLOCK FALSE
PROPERTIES
    JSCanAwait
