SPECIFICATION FairSpec
INVARIANTS
    NeverChargeConnectedBattery
    ProtectionCutsOutputs
    OutputsFollowRequests
    NoChangeMissed
PROPERTIES
    SupplyRecovers
