SPECIFICATION Spec
CONSTANTS
    W1 = W1
    W2 = W2
    Workers <- MCWorkers
    Inputs <- MCInputs
INVARIANT ChoiceIsIntended
CHECK_DEADLOCK FALSE
