SPECIFICATION Spec
CONSTANTS
    Invocations <- CommandLines
    SpecFiles <- Files
    RelayChains = {"paseo-local", "paseo"}
    Started = {"relay_chain", "relay_chain_tasks"}
INVARIANTS
    TypeOK
    CollatorIsReady
    NoPanic
PROPERTIES
    PurgeForgets
    FailureStopsNode
    CollatorCollates
