SPECIFICATION Spec
CONSTANTS
    StateQueueLength = 3
    ImageOutcomes = {TRUE, FALSE}
PROPERTY ImplementsRegister
