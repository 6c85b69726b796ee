SPECIFICATION Spec
CONSTANTS
    Trials = {t1}
    Snapshots = {s1, s2}
    Handlers = {h1, h2}
    Clusterings = {c1}
    Findings = {f1}
    NoSnapshot = NoSnapshot
SYMMETRY Symmetry
INVARIANT AtMostOnePublished
