CONSTANT None = None
SPECIFICATION FairSpec
PROPERTIES
    DispatchSettles
    ServicesProgress
    AgentProgress
