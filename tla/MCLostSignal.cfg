SPECIFICATION FairSpec
PROPERTY InterruptIsNoticed
