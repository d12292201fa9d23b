SPECIFICATION Spec
CONSTANTS
    Names <- MCNames
    Namespaces <- MCNamespaces
    NamespaceOf <- MCNamespaceOf
    Principals <- MCPrincipals
    Values <- MCValues
    NoValue = "none"
    BurnAddress = "burn"
    ImportKeys <- MCImportKeys
    Lifetime = 2
    GracePeriod = 2
    NamePreorderExpire = 3
    NamespacePreorderExpire = 3
    NamespaceRevealExpire = 3
    ReceiveFeesPeriod = 3
    MaxNamesPerSender = 2
    Pricing <- MCPricing
    NameFee <- MCPrice
    NameTokens <- MCPrice
    NamespaceTokens = 1
    Genesis <- MCGenesis
    Vesting <- MCVesting
    Chains <- MCChains
INVARIANTS
    PreorderUsedOnce
    CommitFollowsCheck
    IndInv
PROPERTIES
    RevokedUntilLapsed
    OwnerKeepsName
    FrozenInGracePeriod
    RevealerKeepsNamespace
CHECK_DEADLOCK FALSE
