SPECIFICATION RetrySpec
CONSTANTS
    ValueTypes <- SampleTypes
    VariantKeys <- SampleVariants
    RuleIds = {"pro"}
    Attributes <- SampleAttributes
    AttributeValues <- SampleTexts
    Texts <- SampleTexts
    Rendered <- SampleRendered
    Containing <- SampleContaining
    BasisPoints = 2
    MaxInteger = 7
    FlagKeys = {"checkout"}
    EnvironmentKeys = {"production"}
    TargetingKeys = {"user"}
    Principals = {"ann"}
    IdempotencyKeys = {"k0", "k1", "k2"}
    Bucket <- SampleBucket
    Requests <- MCRequests
    Clients = {"c1", "c2", "c3"}
    MaxStray = 1
    MaxFaults = 2
    Stored <- MCStored
PROPERTIES
    RetriesConverge
    RecordedAnswersStand
CHECK_DEADLOCK FALSE
