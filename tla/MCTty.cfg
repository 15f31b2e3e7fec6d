SPECIFICATION MCSpec
CONSTANTS
    r1 = r1  r2 = r2  w1 = w1  w2 = w2  a = a
    Reader <- MCReader
    Writer <- MCWriter
    Plain  <- MCPlain
    Keys  <- MCKeys
    Modes  <- MCModes
    Texts  <- MCTexts
    Counts = {0, 2}
    TY_IBUFLEN = 3
    TY_OBUFLEN = 3
    TY_EBUFLEN = 4
    UART_FIFO_SIZE = 2
    TtyCareless = {}
SYMMETRY MCSymmetry
INVARIANTS UnitsHaveChars OutputGoesOn
PROPERTY TerminalRefined
CHECK_DEADLOCK FALSE
