SPECIFICATION Spec
CONSTANTS
    ValueTypes <- SampleTypes
    VariantKeys <- SampleVariants
    RuleIds = {"pro"}
    Attributes <- SampleAttributes
    AttributeValues <- SampleTexts
    Texts <- SampleTexts
    Rendered <- SampleRendered
    Containing <- SampleContaining
    BasisPoints = 2
    MaxInteger = 7
    FlagKeys = {"checkout", "search"}
    EnvironmentKeys = {"production"}
    TargetingKeys = {"user"}
    Principals = {"ann"}
    IdempotencyKeys = {"k0", "k1", "k2"}
    Bucket <- SampleBucket
    Requests <- MCRequests
    Clients = {"c1", "c2"}
    MaxOrphans = 1
    Stored <- MCStored
INVARIANTS
    TypeOK
    LocksSuffice
    NoDeadlock
PROPERTIES
    ImplementsContract
CONSTRAINT
    Suited
