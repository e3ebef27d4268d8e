CONSTANTS
    Parent <- MCParent
    Starts = {1, 2}
    MaxRows = 2
    MaxEdits = 3
    MaxSaves = 2
    MaxUploads = 2
    MaxGen = 2
    MaxFaults = 1
    MaxJobs = 2
SPECIFICATION Spec
CHECK_DEADLOCK FALSE
INVARIANTS
    OneEventPerForm
    SavedMeansStored
    SavedFormIsCurrent
    CopyIsCurrent
PROPERTIES
    EditorSettles
