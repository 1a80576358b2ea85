SPECIFICATION Spec
CONSTANTS
    UserTasks = {a, b, c}
    Main = main
    Dispatcher = dispatcher
    NULL = NULL
    QUANTUM_VAL = 2
    Prios = {0}
    TicksJanela = 1
    MaxId = 4
SYMMETRY Simetria
INVARIANT IdsDistintos
