SPECIFICATION Spec
CONSTANTS
    c1 = c1
    c2 = c2
    c3 = c3
    cloud = cloud
    local = local
    k1 = k1
    k2 = k2
    big = big
    small = small
    Calls = {c1, c2, c3}
    Providers = {cloud, local}
    Keys = {k1, k2}
    Models = {big, small}
    KeysOf <- One
    Managed = {}
    Primary = {k1}
    Strategy = "round_robin"
    NeedsKey = {cloud}
    Cli = {cloud}
    Switched = {cloud}
    ProviderOf <- Serves
    Chain <- Chains
    Default = small
    Preference <- Order
    Asks <- Crowd
    Demand <- Estimates
    Capacity = 1
    GlobalConcurrency = 2
    PerKeyConcurrency = 1
    FailureThreshold = 1
    MaxTransientRetries = 1
    MaxRateLimitWaits = 1
CHECK_DEADLOCK FALSE
PROPERTIES EveryCallEnds BreakerReopens
