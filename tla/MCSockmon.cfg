SPECIFICATION Spec
INVARIANTS
    TypeOK
    AllReleased
    UsedWhileHeld
    MessagesReadable
    StatusTold
PROPERTIES
    QuitEnds
    Refreshes
