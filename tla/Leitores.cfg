SPECIFICATION LiveSpec
CONSTANTS
    Escritores = {w1, w2}
    Leitores = {r1, r2, r3}
    Variantes = {"igual", "leitor", "escritor"}
    LIMITE = 5
INVARIANTS
    ExclusaoMutua
    SemaforoConservado
    QuerUsarConta
PROPERTY Progride
