SPECIFICATION Spec
CONSTANTS
    Trials = {t1}
    Snapshots = {s1, s2, s3}
    Handlers = {h1, h2, h3}
    Clusterings = {c1, c2}
    Findings = {f1}
    NoSnapshot = NoSnapshot
SYMMETRY Symmetry
INVARIANT TypeOK
INVARIANT VersionsContiguous
INVARIANT StampIffPublished
PROPERTY FrozenForever
PROPERTY SoloPublishTakesOver
