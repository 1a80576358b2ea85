SPECIFICATION LiveSpec
CONSTANTS
    UserTasks = {a}
    Main = main
    Dispatcher = dispatcher
    NULL = NULL
    QUANTUM_VAL = 2
    Prios = {0, 1}
    TicksJanela = 1
    MaxId = 2
PROPERTIES
    SemInanicao
    ExitRecolhida
    FimQuandoAcabam
