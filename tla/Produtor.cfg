SPECIFICATION LiveSpec
CONSTANTS
    Produtores = {p1, p2, p3}
    Consumidores = {c1, c2}
INVARIANTS
    VagaConservada
    ItensAnunciados
PROPERTY Continuam
