SPECIFICATION Spec
CONSTANTS
    p = p
    q = q
    r = r
    None = None
    Nodes = {p, q, r}
    Ledgers = {0, 1, 2, 3, 4}
    Genesis = 0
    lineage <- MClineage
    Validated <- MCValidated
    MaxSweeps = 0
    MaxTime = 1
    MaxChanges = 1
    Unsettled = {q, r}
    FirstTrusted = {p, q}
    validationCURRENT_WALL = 2
    validationCURRENT_EARLY = 1
    validationSET_EXPIRES = 0
    validationFRESHNESS = 1
INVARIANTS  PreferredIsByBranch OneLedgerPerSequence
PROPERTIES HonestNotAccused
