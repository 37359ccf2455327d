SPECIFICATION Spec
CONSTANTS
    ValueTypes <- SampleTypes
    VariantKeys <- SampleVariants
    RuleIds = {"pro"}
    Attributes <- SampleAttributes
    AttributeValues <- SampleTexts
    Texts <- SampleTexts
    Rendered <- SampleRendered
    Containing <- SampleContaining
    BasisPoints = 2
    MaxInteger = 7
    FlagKeys = {"checkout", "search"}
    EnvironmentKeys = {"production"}
    TargetingKeys = {"user"}
    Principals <- MCPrincipals
    IdempotencyKeys = {"k0", "k1", "k2"}
    Bucket <- SampleBucket
    Requests <- MCRequests
    Clients = {"c1"}
    Stored <- MCStored
    Organizations = {"acme", "globex"}
    Actors = {"ann"}
    EvaluationCallers = {"app"}
    AdminCallers = {"console"}
    MaxBatchSize = 2
    MaxVariants = 3
    MaxTargetingRules = 1
    MaxComparisonValues = 1
    Facts <- MCFacts
    Arrivals <- MCArrivals
INVARIANTS
    TypeOK
    CommandsEntitled
    AnswersEntitled
    InvalidRequestsInvalid
PROPERTIES
    ImplementsStore
