SPECIFICATION Spec
CONSTANTS
    UserTasks = {a}
    Main = main
    Dispatcher = dispatcher
    NULL = NULL
    QUANTUM_VAL = 3
    TicksJanela = 2
    MaxTime = 6
    MaxAtivacoes = 2
INVARIANTS
    TempoConservado
    RajadaCabeNoQuantum
    ProcessadorCabeNaVida
    ImpressoSemUltimaRajada
