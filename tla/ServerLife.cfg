SPECIFICATION Spec
CONSTANTS
    Handlers = {h1, h2, h3}
    Main = main
    Trials = {t1}
    Operations <- SomeOperations
    MaxCrashes = 2
INVARIANT TypeOK
INVARIANT SchemaBeforeUse
INVARIANT NoOrphans
PROPERTY RequestsEnd
