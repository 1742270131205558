SPECIFICATION Spec
CONSTANTS
    checkedTopic = checkedTopic
    plainTopic = plainTopic
    Topics = {checkedTopic, plainTopic}
    Validated = {checkedTopic}
    Subs = {1, 2}
    NoTopic = NoTopic
    NoSub = NoSub
    MaxMessages = 0
    Sources = {checkedTopic}
CHECK_DEADLOCK FALSE
INVARIANTS
    NoMapRace
