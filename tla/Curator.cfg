SPECIFICATION FairSpec
CONSTANTS
    Worker = {w1, w2}
    Sop = {s1, s2}
    Databases = 2
    n1 = n1
    Skill = {n1}
    Home <- Homes
    Title <- Titles
    None = None
    ScanConcurrency = 1
    MaxEvents = 1
INVARIANT GraduationIsSafe
PROPERTIES ScanMarkedMeansScanned UnusedIsArchived
