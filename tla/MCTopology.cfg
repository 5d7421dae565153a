SPECIFICATION FairSpec
CONSTANTS
    ha = ha  hb = hb  hc = hc  a1 = a1  a2 = a2  b1 = b1  c1 = c1
    ma1 = ma1  ma2 = ma2  mb1 = mb1  mc1 = mc1
    Hosts = {ha, hb, hc}
    Nics = {a1, a2, b1, c1}
    Macs = {ma1, ma2, mb1, mc1}
    Broadcast = broadcast
    HostOf <- MCHostOf
    NameOf <- MCNameOf
    MacOf <- MCMacOf
    OperState <- MCOneDown
    Physical = {a1, a2, b1, c1}
    Wanted = {a1, b1, c1}
    HostName <- MCHostName
    VlanRanges <- MCVlanA2
    Reach <- MCTrunk
    Flooding = TRUE
    Lossy = TRUE
    MayPanic = TRUE
INVARIANTS TypeOK SoundInv TopoSound AnsweredIsRecorded
PROPERTIES Implements Quiesces CascadeTerminates
CHECK_DEADLOCK FALSE
