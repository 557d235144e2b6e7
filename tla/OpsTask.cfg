SPECIFICATION FairSpec
CONSTANTS
    MaxSteps = 3
    MaxCalls <- ThreeSteps
    Goroutines = {g1, g2}
    Handlers = {h1, h2}
    None = None
INVARIANTS
    TypeOK OneActor ConversationIsComplete
PROPERTIES
    CommandsPassGate EndIsFinal TaskEnds
