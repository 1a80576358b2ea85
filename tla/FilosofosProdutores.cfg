SPECIFICATION LiveSpec
CONSTANT NUMFILO = 5
PROPERTY LargaQuandoNaoConsegue
CHECK_DEADLOCK FALSE
