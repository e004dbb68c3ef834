SPECIFICATION FederationSpec
CONSTANTS
    Targets = {campus}
    Keys = {ready, selector}
    Ready = ready
    Unmarked = {selector}
    Readers = {r1}
    WorstRank = 1
    MaxPending = 2
    Absent = Absent
INVARIANT
    NeverLiveAgain
