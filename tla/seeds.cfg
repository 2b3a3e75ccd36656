\* Three development seeds at once.
CONSTANTS
    s1 = s1  s2 = s2  s3 = s3
    Runs = {s1, s2, s3}
    DEVELOPMENT_ASSETS <- Assets
SPECIFICATION FairSpec
INVARIANTS SeedInv SomeRunGoesOn EndedMeansSeeded
PROPERTIES EveryRunEnds
