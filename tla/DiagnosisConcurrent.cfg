SPECIFICATION DiagnosisSpec
CONSTANTS
    Bins = 8
    Trials = {t1, t2}
    Ids = {c1, c2}
    Handlers = {h1, h2}
    Spectra <- OneSpectrum
    NoCluster = NoCluster
    MaxInterps = 2
SYMMETRY Symmetry
INVARIANT BestStoredFirst
PROPERTY SoloClassifyExplains
PROPERTY SoloSnapshotMoment
