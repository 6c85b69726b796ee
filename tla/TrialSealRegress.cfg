SPECIFICATION Spec
CONSTANTS
    Trials = {t1}
    Fingerprints = {f1}
    References = {r1}
    Indexes = {i1}
    Handlers = {h1, h2}
    Drivers = {h1, h2}
    NoReference = NoReference
    NoFingerprint = NoFingerprint
PROPERTY SealedIsFinal
\* With every fingerprint registered and every trial sealed, every request is
\* refused at once: the server is idle, not stuck.
CHECK_DEADLOCK FALSE
