SPECIFICATION Spec
CONSTANTS
    Bins = 12
    Trials = {t1}
    Ids = {c1, c2, c3}
    Handlers = {h1, h2}
    Spectra <- OneSpectrum
    NoCluster = NoCluster
SYMMETRY Symmetry
INVARIANT TypeOK
INVARIANT VerdictHitsItsCluster
 
PROPERTY SoloMergeConserves
