SPECIFICATION Spec
CONSTANTS
    gcs1 = gcs1
    coll1 = coll1
    flow1 = flow1
    flow2 = flow2
    None = None
    Endpoints <- MCEndpoints
    Collections <- MCCollections
    Owner <- MCOwner
    Flows = {flow1}
    MaxTargets = 1
    Revocable <- MCRevocable
INVARIANTS TypeOK FewRefusals LoginCoversTargets
PROPERTY RemedyHelps
