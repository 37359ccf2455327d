SPECIFICATION ToolsSpec
CONSTANTS
    ValueTypes <- SampleTypes
    VariantKeys <- SampleVariants
    RuleIds = {"pro"}
    Attributes <- SampleAttributes
    AttributeValues <- SampleTexts
    Texts <- SampleTexts
    Rendered <- SampleRendered
    Containing <- SampleContaining
    BasisPoints = 2
    MaxInteger = 7
    FlagKeys = {"checkout"}
    EnvironmentKeys = {"production"}
    TargetingKeys = {"user"}
    Principals <- MCPrincipals
    IdempotencyKeys = {"k0", "k1", "k2"}
    Bucket <- SampleBucket
    Requests <- MCRequests
    Clients = {c1, c2}
    Stored <- MCStored
    Organizations = {"acme"}
    Actors = {"ann"}
    EvaluationCallers = {"app"}
    AdminCallers = {"agent-tools"}
    MaxBatchSize = 2
    MaxVariants = 3
    MaxTargetingRules = 1
    MaxComparisonValues = 1
    Facts <- MCFacts
    Arrivals <- MCArrivals
    ToolCalls <- MCToolCalls
SYMMETRY Symmetry
INVARIANTS
    RefusedForGood
