CONSTANTS
    Subdomain <- MCSubdomain
    DomainOf <- MCDomainOf
    Hash <- MCHash
    Origin <- MCOrigin
    Records <- MCRecords
    Chains <- ElsewhereChains
    MaxFaults <- MCMaxFaults
    QueueBatch = 2

SPECIFICATION Spec
INVARIANT
    AcceptedIsAHistory
