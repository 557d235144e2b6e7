SPECIFICATION Spec
CONSTANTS
    MaxSteps = 2
    MaxCalls <- TwoSteps
    Goroutines = {g1}
    Handlers = {h1}
    None = None
PROPERTIES
    FailedIsFinal
