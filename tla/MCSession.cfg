CONSTANT MaxDials = 2
SPECIFICATION FairSpec
INVARIANTS TypeOK NoOrphanCall IdleHoldsNoCall DialsBalance OutcomeIsHonest
PROPERTIES LineProtocol CloseEndsSession LostClientEndsSession BoardHangupNoticed DialEnds
