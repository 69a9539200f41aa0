SPECIFICATION Spec
CONSTANTS
    Lengths = {1, 4, 9}
    MaxParagraphs = 2
    Texts <- MCTexts
    Parameters <- MCParameters
INVARIANT RaisesOnlyOnParameters
CHECK_DEADLOCK FALSE
