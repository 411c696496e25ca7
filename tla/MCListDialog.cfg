SPECIFICATION Spec
CONSTANTS
    WordBits = 2
    Fields <- MCFields
    Data <- MCData
    Typed <- MCTyped
    MaxStars = 2
INVARIANTS
    TypeOK
    RowsAsChosen
    OnMeansChosen
    SortAsShown
