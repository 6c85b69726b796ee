SPECIFICATION Spec
CONSTANTS
    Trials = {t1}
    Fingerprints = {f1, f2}
    References = {r1, r2}
    Indexes = {i1}
    Handlers = {d, w1, w2}
    Drivers = {d}
    NoReference = NoReference
    NoFingerprint = NoFingerprint
 
PROPERTY LifecycleSpec
\* With every fingerprint registered and every trial sealed, every request is
\* refused at once: the server is idle, not stuck.
CHECK_DEADLOCK FALSE
