SPECIFICATION Spec
CONSTANTS
    Arrivals <- PairArrivals
    Batches <- PairBatches
    Indexes = {0, 1}
    References <- MCReferences
    Thresholds = {5}
    Handlers = {h1, h2}
    NoReference = NoReference
    NoChannel = NoChannel
    NoPulse = NoPulse
SYMMETRY Symmetry
INVARIANT TypeOK
PROPERTY SoloCalibrationAgrees
