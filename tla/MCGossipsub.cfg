SPECIFICATION FairSpec
CONSTANTS
    checkedTopic = checkedTopic
    plainTopic = plainTopic
    Topics = {checkedTopic, plainTopic}
    Validated = {checkedTopic}
    Subs = {1, 2}
    NoTopic = NoTopic
    NoSub = NoSub
    MaxMessages = 1
    Sources = {checkedTopic}
CHECK_DEADLOCK FALSE
INVARIANTS
    LiveServed ProcessorOwned HandledChecked
PROPERTIES
    KeepsSubscriptionContract CancelledRemoved StopReturns
