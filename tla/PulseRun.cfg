SPECIFICATION Spec
CONSTANTS
    Arrivals <- RunArrivals
    Batches <- RunBatches
    Indexes = {0, 1}
    References <- MCReferences
    Thresholds = {5}
    Handlers = {h1}
    NoReference = NoReference
    NoChannel = NoChannel
    NoPulse = NoPulse
PROPERTY PulsesKept
 
