SPECIFICATION ALiveSpec
CONSTANTS
    UserTasks = {1, 2}
    Main = main
    Dispatcher = dispatcher
    NULL = NULL
    QUANTUM_VAL = 2
    Prios <- MCPrios
    TicksJanela = 1
    MaxId = 3
    VOLTAS = 1
    Apps = {"dispatcher", "scheduler", "contab_prio", "maintask", "tasks1", "tasks2", "tasks3", "propria"}
INVARIANTS
    PrioridadePedida
    TodasTiveramVez
PROPERTIES
    SemUltrapassagem
    Encerra
