SPECIFICATION Spec
CONSTANTS
    Letters = {a, b}
    Space = sp
    MaxName = 3
CHECK_DEADLOCK FALSE
INVARIANT AcceptsExactlyTheGenus
PROPERTY CompletesOnce
