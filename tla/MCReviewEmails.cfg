SPECIFICATION FairSpec
CONSTANTS
    u1 = u1
    u2 = u2
    u3 = u3
    Users = {u1, u2, u3}
    Author = u1
    Reviews = {r1}
    Reviewer <- MCReviewer
    MaxRetries = 3
    MaxSmtpErrors = 4
    Events = {"subscriptions", "users", "delete", "save back", "soft delete", "restore", "error", "broker", "crash"}
INVARIANTS
    TypeOK
    EachInterestedOnce
    OneMessagePerRun
    OnlyToTheInterested
PROPERTIES
    NothingAboutTheDeleted
    EveryRecipientServed
CHECK_DEADLOCK FALSE
