SPECIFICATION FairSpec
CONSTANTS
    Requests = {r1}
    Slots = 2
    MaxCalls = 3
    Policies <- MCPolicies
INVARIANTS
    OneAnswerer
    VerdictOfResponse
    SlotsComeBack
PROPERTIES
    GateOpens
    AnsweredInTime
CHECK_DEADLOCK FALSE
