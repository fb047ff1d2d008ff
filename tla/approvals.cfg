SPECIFICATION Spec
CONSTANTS
    Requests = {r1}
    Calls = {c1, c2, c3, c4}
    alice = alice
    Alice = Alice
    bob = bob
    Principals <- MCPrincipals
    Human <- MCHuman
    Initiators <- MCInitiators
    Approvers <- MCApprovers
    Window = 1
    MaxNow = 2
    None = None
SYMMETRY Symmetry
CHECK_DEADLOCK FALSE
INVARIANTS
    AtMostOneExecution
    ExecutionIsFourEyes
    AuditedApprovalsRan
PROPERTIES
    ShutBeforeClaimIsFinal
    ApprovedAtIsWriteOnce
    ImplementsFourEyes
    ImplementsGateRow
