CONSTANTS
    Journals = {j1, j2}
    None = None
    Batches = 2
    MaxOutstanding = 2
    MaxRuns = 2
    MaxFaults = 3
    MaxTotal = 1
    MinRollback = 1
    MaxClosed = 0
    MaxBatch = 2
SPECIFICATION FairPurgeSpec
INVARIANTS OneLineage AnnouncedBeforeMoved JournalsTellTheTruth NothingNeededIsPurged
PROPERTIES ActivatingSettles
CHECK_DEADLOCK FALSE
