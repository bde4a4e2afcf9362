SPECIFICATION FairSpec
CONSTANTS
  Client = {"auth", "dot", "doh"}
  Behaviours <- MCBehaviours
  Timeout = 2
  OSDialLimit = 4
  CtxDeadlines = {1, 3, 100}
  Never <- MCNever
INVARIANT TransportTypeOK
INVARIANT FailoverIsReference
INVARIANT BoundedInTime
PROPERTY ImplementsResolver
PROPERTY ResolveReturns
