SPECIFICATION MCSpec
CONSTANTS
    QueueCap = 2
    MaxData = 2
    MaxRefusals = 1
    Kinds = {"reader", "writer"}
    IdleTime = 2
    MaxReads = 1
    MaxTasks = 2
    MaxRefusedChecks = 1
    Securities <- SomeSecurities
    Addresses <- SomeAddresses
CHECK_DEADLOCK FALSE
PROPERTIES
    RequestSettles
    IdleWatches
    TransportAsDeclared
