\* Counters reach beyond two windows, so shifts of every size below, at and
\* above the window happen from every filter.
CONSTANTS
    WindowSize = 4
    MaxCounter = 10
SPECIFICATION Spec
INVARIANTS
    TypeOK
    AtMostOnce
    BitmapRecordsWindow
PROPERTY ImplementsWindow
