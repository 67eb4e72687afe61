SPECIFICATION Spec
CONSTANTS
    Workers = {w1, w2}
    NoWorker = NoWorker
PROPERTIES
    RefusalMeansNoFirstLane
