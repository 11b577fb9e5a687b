SPECIFICATION Spec
CONSTANTS
    Threads = {t1}
    NoThread = NoThread
    Images = {i1}
    route_count = 3
    warmup_samples = 1
    minimum_samples = 1
    sample_window = 4
    holdout_samples = 2
    maximum_verification_failures = 2
    initial_revalidate_interval = 1
    revalidate_interval = 3
    drift_required_samples = 2
    drift_sample_interval = 2
    rotation_seed <- Seeds
    per_shard = 1
    MaxClears = 0
INVARIANTS VerifiedByHoldout RevalidationIsABBA
PROPERTIES LearningConverges
