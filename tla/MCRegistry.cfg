CONSTANTS
    Adapters <- MCAdapters
    Devices <- MCDevices
    AdapterOf <- MCAdapterOf
SPECIFICATION Spec
INVARIANTS
    TypeOK
    ListsSound
    DevicesListed
    AgentObjectKept
    AgentGivenOnce
