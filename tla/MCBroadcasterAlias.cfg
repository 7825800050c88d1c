\* Batches of up to 4 data blobs: a batch that starts inside a coding group
\* reaches that group's first slot one Frame later. One signer, whose
\* Transporter relays nothing.
CONSTANTS
    FrameSize = 6
    NumData = 2
    MaxMissing = 1
    MaxBatch = 4
    MaxIndex = 14
    p = p
    s1 = s1
    s2 = s2
    Producer = p
    Signer <- MCSignerOne
SPECIFICATION Spec
INVARIANT ParityOverOwnGroup
