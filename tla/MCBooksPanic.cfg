\* A client's 256-byte datagram and a ValidVDFValue request read in one
\* batch by the producer's Messaging task.
CONSTANTS
    m = m
    a = a
    Account <- MCAccount
    Mint = m
    Tokens = 2
    Amounts = {1, 2}
    Fees = {0, 2}
    MaxSize = 3
    MaxSubmit = 3
    Datagrams <- MCDatagrams
    MaxRead = 2
SPECIFICATION Spec
INVARIANT MessagingNeverPanics
CHECK_DEADLOCK FALSE
