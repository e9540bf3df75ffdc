SPECIFICATION Spec

CONSTANTS
    Procs = {p1, p2, p3}
    org = org
    user = user
    tool = tool
    agent = agent
    v1 = v1
    v2 = v2
    session = session
    plain = plain
    other = other
    Things = {org, user, tool, agent, v1, v2, session}
    Sessions = {session}
    Agents = {agent}
    Tools = {tool}
    Refers <- RefersTo
    Inserts <- InsertsRows
    AgentOf <- AgentOfThing
    Contents <- ContentsOf
    Documents <- CallArguments
    None = None

SYMMETRY Symmetry

INVARIANTS
    TypeOK
    OneOwner
    RevokedGetNothing
    PreviewsAreHonest
