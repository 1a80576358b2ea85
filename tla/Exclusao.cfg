SPECIFICATION LiveSpec
CONSTANTS
    Algoritmos = {"alternancia", "peterson", "semaforo"}
    FILA = 2
    TAM_BUFFER = 3
    MaxConta = 2
INVARIANTS
    ExclusaoMutua
    InsercoesContadas
PROPERTIES
    AlternanciaEstrita
    TodasEntram
