SPECIFICATION Spec
CONSTANTS
    Threads = {t1, t2}
    NoThread = NoThread
    Images = {i1}
    route_count = 2
    warmup_samples = 0
    minimum_samples = 1
    sample_window = 1
    holdout_samples = 1
    maximum_verification_failures = 1
    initial_revalidate_interval = 1
    revalidate_interval = 1
    drift_required_samples = 1
    drift_sample_interval = 1
    rotation_seed <- Seeds
    per_shard = 1
    MaxClears = 1
SYMMETRY ThreadSymmetry
INVARIANTS ProbeSlotOwned
PROPERTIES SingleFlight
