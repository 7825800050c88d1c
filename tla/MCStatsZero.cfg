\* The first /api/stats: BlockTime() starts calculateBlockTime and reads
\* blockTime[0] before the goroutine's first loop has set it.
CONSTANTS
    StatsCount = 2
    MaxBlockTime = 10000
    Durations <- MCDurations
    MaxTxPerBlock = 2
    MaxBlocks = 3
SPECIFICATION Spec
INVARIANT ReportedBlockTimeNonZero
