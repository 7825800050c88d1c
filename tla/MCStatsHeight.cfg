\* The reported block height while blocks are registered in any order:
\* three blocks after genesis, each a Number of 3..5, repeats included;
\* rings of one entry and one-second windows, since only the height is asked.
CONSTANTS
    StatsCount = 1
    MaxBlockTime = 10000
    Durations <- MCOneSecond
    MaxTxPerBlock = 1
    MaxBlocks = 3
SPECIFICATION Spec
PROPERTY ReportedHeightMonotone
CHECK_DEADLOCK FALSE
