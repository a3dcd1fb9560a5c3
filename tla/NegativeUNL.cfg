SPECIFICATION Spec
CONSTANTS
    me = me
    va = va
    vb = vb
    vc = vc
    None = None
    Nodes = {me, va, vb, vc}
    Validators = {me, va, vb, vc}
    FirstUNL = {me, va, vb}
    Validating = {me, va}
    Lossy = {}
    Comers = {vc}
    Leavers = {vb}
    Ledgers = {0, 1, 2, 3, 4, 5, 6, 7, 8, 9, 10, 11, 12}
    Genesis = 0
    lineage <- MClineage
    FirstLedger = 3
    FLAG_LEDGER_INTERVAL = 4
    MaxSweeps = 1
    MaxTime = 9
    MaxChanges = 1
    MaxRestarts = 1
    validationCURRENT_WALL = 2
    validationCURRENT_EARLY = 2
    validationSET_EXPIRES = 2
    validationFRESHNESS = 1
INVARIANTS HistoryIsKept ListIsConsistent
PROPERTIES OnlyAbsentVotedOut LimitRespected
CHECK_DEADLOCK FALSE
