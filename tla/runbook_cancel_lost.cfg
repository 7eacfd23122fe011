SPECIFICATION Spec
CONSTANTS
    Steps <- MCTwoSteps
    Step <- MCTwoStep
    Commands = {p, q}
    MaxChanges = 0
    MaxFaults = 0
    MaxRuns = 2
PROPERTIES
    FinishedStaysFinished
