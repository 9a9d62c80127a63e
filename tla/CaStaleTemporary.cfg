SPECIFICATION FairSpec
CONSTANTS
    k1 = k1
    k2 = k2
    here = here
    there = there
    env1 = env1
    env2 = env2
    env3 = env3
    sub2 = sub2
    sub3 = sub3
    perm2 = perm2
    pub1 = pub1
    bad = bad
    Agents = {1, 2, 3}
    Keys = {k1, k2}
    NoKey = noKey
    Environments = {here, there}
    NoEnvironment = noEnvironment
    Sessions = {env1, sub2}
    NoSession = noSession
    Request <- MCRequest
    Configurations <- Steady
    AgentLimit = 3
    EnvironmentLimit = 3
    SubscriptionLimit = 2
    ReplayLimit = 5
    ReplayTtl = 1
    MaxTime = 1
    MaxFailures = 0
    MaxCrashes = 1
    MaxReloads = 0
PROPERTIES
    ServesAgain
CHECK_DEADLOCK FALSE
