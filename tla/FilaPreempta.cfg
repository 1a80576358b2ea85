SPECIFICATION SpecCorte
CONSTANTS
    Criador = criador
    Nova = nova
    Prontas = {a, b, c}
    NULL = NULL
INVARIANT CorteInofensivo
