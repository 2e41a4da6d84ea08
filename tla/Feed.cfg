\* One challenge with two entries, edited once; three appearances of the list.
SPECIFICATION Spec
CONSTANTS
    Entries <- SomeEntries
    History <- SomeHistory
    MaxAppear = 3
INVARIANTS MarkersPerAppearance
PROPERTIES ListGoesForward
CHECK_DEADLOCK FALSE
