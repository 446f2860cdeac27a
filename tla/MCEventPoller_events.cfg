\* One descriptor and four calls of addEvent.
SPECIFICATION FairSpec
CONSTANTS
    Fds = {f1}
    Calls = {c1, c2, c3, c4}
    NoCall = NoCall
    Wrap = 6
INVARIANTS TypeOK InterestMatches PendingMatches EndsOnce
PROPERTY HangupEnds
CHECK_DEADLOCK FALSE
