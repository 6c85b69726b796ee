SPECIFICATION Spec
CONSTANTS
    Trials = {t1, t2}
    Fingerprints = {f1, f2}
    References = {r1}
    Indexes = {i1}
    Handlers = {h1, h2, h3}
    Drivers = {h1, h2, h3}
    NoReference = NoReference
    NoFingerprint = NoFingerprint
SYMMETRY Symmetry
INVARIANT TypeOK
INVARIANT OneTrialPerFingerprint
INVARIANT NoStageSkipped
\* With every fingerprint registered and every trial sealed, every request is
\* refused at once: the server is idle, not stuck.
CHECK_DEADLOCK FALSE
