SPECIFICATION Spec
CONSTANTS
    Chains <- MCChains
    ReorgLimit = 0
    Request = {r1, r2}
    Exclusive = FALSE
INVARIANT
    AnswersRight
