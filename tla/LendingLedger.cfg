CONSTANTS
    Brokers = {b1, b2}
    N = 2
    Amounts = {0, 1, 2}
    Changes <- MCChanges
    MaxTotal = 3
SPECIFICATION Spec
CONSTRAINT Bounded
INVARIANTS IInv BooksAreValid
