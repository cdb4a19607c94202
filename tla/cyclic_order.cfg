SPECIFICATION Spec
CONSTANTS
    W1 = W1
    W2 = W2
    Workers <- MCWorkers
    Inputs <- CyclicInputs
INVARIANT ChoiceIsUnbeaten
CHECK_DEADLOCK FALSE
