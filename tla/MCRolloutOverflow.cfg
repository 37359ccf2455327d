SPECIFICATION Spec
CONSTANTS
    ValueTypes <- MCTypes
    VariantKeys = {"on", "off"}
    RuleIds = {"r1", "r2", "r3"}
    Attributes = {"paid", "beta"}
    AttributeValues <- MCAttributeValues
    Texts <- MCTexts
    Rendered <- MCRendered
    Containing <- MCContaining
    BasisPoints = 4
    MaxInteger = 7
    Values <- MCValues
    Rules <- MCRules
    Shares <- MCWideShares
    MaxVariants = 2
    MaxRules = 2
    MaxRollout = 2
INVARIANT RolloutWithinBuckets
CHECK_DEADLOCK FALSE
