SPECIFICATION Spec
CONSTANTS
    MaxMails = 4
    Sizes = {1, 2, 5, 7, 8}
    SizeLimit = 10
    BatchLimit = 3
    Preamble = 2
    Postamble = 1
CHECK_DEADLOCK FALSE
INVARIANTS
    AnswersAreTrue
    AssertsHold
PROPERTIES
    CallsEnd
