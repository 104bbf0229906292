SPECIFICATION Spec
CONSTANTS
    w1 = w1
    w2 = w2
    Workers <- MCWorkers
    Tables <- MCTables
    Revisions <- MCRevisions
    Models <- MCModels
    Indexed <- AllIndexed
    Searchable <- MCSearchable
    Deployments <- NewDatabase
    MaxCrashes = 1
INVARIANTS
    KnownAtHead
