CONSTANTS
    f1 = f1
    f2 = f2
    Wide = 4
    Bar = 1
    Widths = {0, 5, 7, 11}
    Cells = {1, 2}
    LineColumns = 4
    Height = 2
    BufferMax = 5
    Fingers = {f1}
    Settings <- Some
    Budgets <- Few
SPECIFICATION Spec
CHECK_DEADLOCK FALSE
INVARIANTS
    TypeOK
    FitsWhenActive
    CopiesOnlyLastCommand
    SpecialKeysAsPressed
    TouchActsOnce
