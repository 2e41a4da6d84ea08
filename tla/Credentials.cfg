\* Two users, three events of users, tokens and network.
CONSTANTS
    Uids = {"ann", "bob"}
    Nobody = "nobody"
    MaxEvents = 3
SPECIFICATION FairSpec
INVARIANTS StreamIsOwn TokensAreLabelled Awaited
PROPERTIES StreamFollowsUser
CHECK_DEADLOCK FALSE
