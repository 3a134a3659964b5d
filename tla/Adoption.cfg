SPECIFICATION AdoptSpec
CONSTANTS
    Pub = {a}
    NoPub = NoPub
    MaxId = 2
    MaxBytes = 3
    Limits = {1}
    Handler = {h1}
    Ops = {}
    Faults = {"restart", "recreate", "store", "backend"}
    Overwrites = {TRUE, FALSE}
INVARIANTS AdoptTypeOK AdoptedBillBound QuotaFromAdoption
