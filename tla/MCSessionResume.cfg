CONSTANT MaxDials = 1
SPECIFICATION FairSpec
PROPERTY ResumedCallIsLive
