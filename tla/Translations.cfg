SPECIFICATION MCSpec
CONSTANTS
    Strangers = {"z"}
    MaxLen = 3
    MaxKeys = 2
    Alphabet = {"'", "x", "0", "8", "a", "-", ".", "e", " "}
    MaxText = 5
    Width = 4
    MaxExp = 9
CHECK_DEADLOCK FALSE
INVARIANTS OneShotRunsWhatWasGiven SteppedIsQueried ErrorIsTheIncident DefaultIsSqlites SchemaIsAnswered
