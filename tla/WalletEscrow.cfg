\* Two processes on two holds, with direct calls, debits and crashes.
SPECIFICATION Spec
CONSTANTS
    p1 = p1
    p2 = p2
    Procs = {p1, p2}
    NumHolds = 2
    Amount <- MCAmount
    NumMoves = 4
    Delta <- MCDelta
    MoveType <- MCMoveType
    MaxBalance = 5
    DirectCalls = TRUE
INVARIANTS TypeOK MoneyAccounted  CreditsCovered
PROPERTY RefinesEscrow

