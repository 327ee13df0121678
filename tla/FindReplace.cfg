CONSTANTS
    a = a
    b = b
    x = x
    y = y
    Editors = {a, b}
    Chars = {x, y}
    Newline = Newline
    Nothing = Nothing
    Texts <- MCTexts
    MaxChanges = 1
    MaxFields = 2

SPECIFICATION MCSpec

INVARIANTS
    ShownIsFound
    FocusIsAlive
PROPERTIES
    ReplaceIsExact
