SPECIFICATION Spec
CONSTANTS
    Filters <- MixedFilters
    Topics <- AllTopics
    Reserved <- Dollar
    Callbacks = {c1, c2}
    OnMessage = on_message
    MaxFilters = 2
INVARIANTS
    TrieShape
PROPERTIES
    ImplementsRegistry
