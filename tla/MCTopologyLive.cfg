SPECIFICATION FairSpec
CONSTANTS
    ha = ha  hb = hb  hc = hc  a1 = a1  a2 = a2  b1 = b1  c1 = c1
    ma1 = ma1  ma2 = ma2  mb1 = mb1  mc1 = mc1
    Hosts = {ha, hb}
    Nics = {a1, b1}
    Macs = {ma1, mb1}
    Broadcast = broadcast
    HostOf <- MCHostOf
    NameOf <- MCNameOf
    MacOf <- MCMacOf
    OperState <- MCAllUp
    Physical = {a1, b1}
    Wanted = {a1, b1}
    HostName <- MCHostName
    VlanRanges <- MCVlanA2
    Reach <- MCReach
    Flooding = FALSE
    Lossy = FALSE
    MayPanic = FALSE
INVARIANT ScreenFresh
PROPERTIES Discovery Shown
CHECK_DEADLOCK FALSE
