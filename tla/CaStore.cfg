SPECIFICATION Spec
CONSTANTS
    k1 = k1
    k2 = k2
    here = here
    there = there
    env1 = env1
    env2 = env2
    env3 = env3
    sub2 = sub2
    sub3 = sub3
    perm2 = perm2
    pub1 = pub1
    bad = bad
    Agents = {1, 2}
    Keys = {k1, k2}
    NoKey = noKey
    Environments = {here, there}
    NoEnvironment = noEnvironment
    Sessions = {env1, env2, sub2, perm2, pub1}
    NoSession = noSession
    Request <- MCRequest
    Configurations <- Changing
    AgentLimit = 3
    EnvironmentLimit = 3
    SubscriptionLimit = 2
    ReplayLimit = 4
    ReplayTtl = 1
    MaxTime = 2
    MaxFailures = 1
    MaxCrashes = 1
    MaxReloads = 1
INVARIANTS
    TypeOK
    DurableMatchesMemory
    ReplayWindowClosed
    OneShotAnsweredOnce
    StoredByConfiguredAgent
    DeliveriesAuthorized
CHECK_DEADLOCK FALSE
