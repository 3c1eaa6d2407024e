SPECIFICATION Spec
CONSTANTS
    Masters = {m1}
    MaxStarts = 2
    MaxUnanswered = 0
    MaxGraphs = 1
    MaxRestarts = 0
PROPERTY StoppedThreadIsStopped
CHECK_DEADLOCK FALSE
