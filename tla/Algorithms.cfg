SPECIFICATION Spec
CONSTANTS
    Bins = 10
    Bursts <- MCBursts
    MaxBursts = 4
    MergeGaps <- MCMergeGaps
    MergePercents <- MCMergePercents
    CenterPlaces <- MCCenters
    MaxCenters = 3
    Gaps <- MCGaps
    ChannelAmps <- MCChannelAmps
    MaxPulses = 5
    Lags <- MCLags
    TrueLag = 41
    NoStamp = NoStamp
    MaxDischarges = 5
    Edges <- MCEdges
    MaxWindows = 3
    Amps <- MCAmps
    MaxAmps = 5
INVARIANT ExtractPartitions
 
INVARIANT HalvesAgree
INVARIANT CandidatesExclusive
INVARIANT StableMeansPaired
INVARIANT InterferenceFound
INVARIANT DelayRobust
INVARIANT WindowsCover
INVARIANT NoiseFloorRobust
\* An input of the largest size is not made longer.
CHECK_DEADLOCK FALSE
