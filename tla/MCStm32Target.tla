--------------------------- MODULE MCStm32Target ----------------------------
EXTENDS Stm32Target

MCRequests == { [cmd |-> SET, reg |-> 1, val |-> 18],
                [cmd |-> GET, reg |-> 1, val |-> 0],
                [cmd |-> SET, reg |-> 2, val |-> 7],
                [cmd |-> GET, reg |-> 2, val |-> 0] }
OneRequest == { [cmd |-> GET, reg |-> 1, val |-> 0] }
=============================================================================
