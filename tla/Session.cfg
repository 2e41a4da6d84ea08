\* Two users on one device: two presses of Sign in, three launches.
SPECIFICATION FairSpec
CONSTANTS
    Emails = {"ann@x", "bob@x"}
    MaxPresses = 2
    MaxLaunches = 3
INVARIANTS TypeOK ProfileIsOwn DocumentNamesItsAccount AccountsHaveDocuments
PROPERTIES OnboardingKeepsDocuments SignedOutStays RequestsSettle
CHECK_DEADLOCK FALSE
