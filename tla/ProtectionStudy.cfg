CONSTANTS
    Trials = 1
    MaxEvents = 2
    Networks <- MCNetworks
    Budgets <- MCBudgets
    TopKs = {2}
    MaxRounds = 1
SPECIFICATION Spec
INVARIANTS
    PlansAccepted
    IlpNotBeaten
    EvidenceSound
CHECK_DEADLOCK FALSE
