SPECIFICATION Spec
CONSTANTS
    Chains <- MCChains
    Request = {q1}
    MaxReorgs = 2
INVARIANTS
    ProofsFresh
