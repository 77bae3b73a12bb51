CONSTANTS
    Threads = {t1, t2}
    Wires = {"string", "bytes"}
    Ids = {1, 2}
    Descriptors = {1, 2}
    MaxLinked <- MCMaxLinked
    MaxId = 4
SPECIFICATION Spec
INVARIANTS SameAnswerForEveryone IdErrorIsTrue
