--------------------------- MODULE MCFrameDecoder ---------------------------
EXTENDS FrameDecoder

\* Every data blob packed to the same Size.
MCSameSize(i) == 1

\* Data blobs of two sizes, so that a lost blob can be the largest of its
\* group and a stale slot can hold a blob of another size.
MCMixedSize(i) == 1 + ((i \div 2) % 2)

=============================================================================
