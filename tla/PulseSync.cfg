SPECIFICATION FairSpec
CONSTANT MaxSent = 5
INVARIANTS NoneInvented ExactlyOnce
PROPERTY Arrives
