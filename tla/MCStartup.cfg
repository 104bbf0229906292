SPECIFICATION Spec
CONSTANTS
    w1 = w1
    w2 = w2
    Workers <- MCWorkers
    Tables <- MCTables
    Revisions <- MCRevisions
    Models <- MCModels
    Indexed <- MCIndexed
    Searchable <- MCSearchable
    Deployments <- MCDeployments
    MaxCrashes = 1
INVARIANTS
    TypeOK
    ServesHead
    StampTellsSchema
    SearchTrusted
PROPERTIES
    StartsHarmless
    ComesUp
