SPECIFICATION MCFairSpec
CONSTANTS
    Item = {1, 2}
    User = {1, 2}
    Batch = 1
    Chunk = 1
    MaxAttempts = 2
    MaxPosts = 3
    Scenario <- MCScenario
    Category = {"news", "tips", "market"}
    Wording = {1, 2, 3}
    Akin <- MCAkin
    MinSlots = 1
    MaxSlots = 2
    MaxTries = 2
    Recall = 1
    MaxNights = 1
    PostFaults = 1
    Person = {1, 2, 3}
    Admin = {1}
    Referrer = 1
    RewardAt = 1
    Chat = {"chat1", "chat2", "chat3", "group"}
    MaxConfigs = 2
    Scenarios <- MCChats
INVARIANTS DeliveriesAreSound PostsAreSound
PROPERTIES MessagesAreSound MessagesEnd
CHECK_DEADLOCK FALSE
