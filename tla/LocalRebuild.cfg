CONSTANTS
    file1 = file1
    file2 = file2
    t1 = t1
    t2 = t2
    t3 = t3
    NoText = NoText
    NoHash = NoHash
    NoRow = NoRow
    LocalFiles = {file1}
    FileTexts = {t1, t2, t3}
    Text <- Distinct
    Versions = {1, 2}
    Failing = {"write"}
    MaxStamps = 3
    MaxFullBuilds = 4
    MaxFailures = 2
SPECIFICATION LocalSpec
INVARIANTS ForcedIsFull
