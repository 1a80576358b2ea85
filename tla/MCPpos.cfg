SPECIFICATION Spec
CONSTANTS
    UserTasks = {a, b}
    Main = main
    Dispatcher = dispatcher
    NULL = NULL
    QUANTUM_VAL = 2
    Prios = {0}
    TicksJanela = 1
    MaxId = 3
SYMMETRY Simetria
INVARIANTS
    IInv
    TypeOK
    FilasConsistentes
    ContextoIntegro
    PilhaViva
    IdsUnicos
    ContadorExato
    EnvelhecimentoLimitado
PROPERTY ImplementaTarefas
