SPECIFICATION Spec

CONSTANTS
    pay = pay
    clerk = clerk
    guest = guest
    lead = lead
    Actions = {pay}
    Agents = {clerk, guest}
    Fields <- SomeFields
    AgentFields <- SomeAgentFields
    Revoked = "agent.revoked"
    Values <- SomeValues
    Suffixes <- EndsIn
    RuleData <- AmountRules
    Absent = Absent
    None = None
    Exact = 8
    MaxRules = 2

CHECK_DEADLOCK FALSE

INVARIANTS
    UnknownIsStricter
