SPECIFICATION Spec
CONSTANTS
    Nodes <- MCNodes
    Edges <- MCEdges
    NodeFrom <- MCNodeFrom
    NodeTo <- MCNodeTo
    Weights = {1, 2, 4}
    Graphs <- MCGraphs
    Questions <- MCQuestions
INVARIANTS
    TypeOK
    AnswerIsOptimal
    VisitedIsSettled
PROPERTY
    Terminates
CHECK_DEADLOCK FALSE
