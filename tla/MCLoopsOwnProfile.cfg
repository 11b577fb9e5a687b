SPECIFICATION Spec
CONSTANTS
    la = la  lb = lb  lc = lc  ld = ld  le = le  lf = lf  lg = lg
    lh = lh  li = li  lj = lj
    Loops = {la, lb, lc, ld, le, lf, lg, lh, li, lj}
    NoLoop = NoLoop  NoSite = NoSite  NoKey = NoKey
    Parent <- TreeParent
    At <- TreeAt
    Site <- TreeSite
    Total <- TreeTotal
    Configs <- Scenarios
    MaxSnapshots = 2
    profile_regions = 2
    profile_max_samples = 3
    MinObservations = 1
    FastPathInterval = 1
    StablePlanInterval = 1
    MaxEntries = 2
    MinSamples = 1
    MaxCalibrations = 1
    MaxCalls = 4
INVARIANT PlansFromOwnProfile
