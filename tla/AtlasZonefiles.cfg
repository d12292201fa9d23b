CONSTANTS
    Subdomain <- MCSubdomain
    DomainOf <- MCDomainOf
    Hash <- MCHash
    Origin <- MCOrigin
    Records <- MCRecords
    Chains <- MCChains
    MaxFaults <- MCMaxFaults
    QueueBatch = 2

SPECIFICATION Spec
INVARIANTS
    InventoryHonest
    InventoryCoherent
    TableAgreesWithReindex
    AcceptedSucceed
    NoZonefileLost
PROPERTIES
    FinalOnceComplete
    EventuallyIndexed
