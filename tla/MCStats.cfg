\* Rings of 2 (an entry moves on and a window can repeat the newest),
\* windows of 1 or 1.5 s, so that one transaction in a long window rounds
\* to 0 TPS, and two blocks of up to two transactions each.
CONSTANTS
    StatsCount = 2
    MaxBlockTime = 10000
    Durations <- MCDurations
    MaxTxPerBlock = 2
    MaxBlocks = 2
SPECIFICATION FairSpec
INVARIANT TypeOK
INVARIANT TPSNeverZeroAfterTraffic
PROPERTY BlockTimeMeasured
