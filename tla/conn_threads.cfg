SPECIFICATION FairConnSpec
CONSTANTS
    Threads = {t1, t2, t3}
    Writers = {w1}
    Free = Free
    Server = Server
INVARIANT LoggedWhileCalm
INVARIANT InsertedIsCommitted
PROPERTY ReadsAreFresh
PROPERTY LockIsReleased
