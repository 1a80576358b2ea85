SPECIFICATION LiveSpec
CONSTANT NUMFILO = 5
INVARIANTS
    HashisConservados
    VizinhosNaoComem
PROPERTY AlguemCome
