SPECIFICATION LiveSpec
CONSTANTS
    Elems = {e1, e2, e3}
    Filas = {f, g}
    NULL = NULL
INVARIANTS
    TypeOK
    AneisConsistentes
PROPERTIES
    ImplementaFila
    ImprimeVarios
    ChamadaTermina
