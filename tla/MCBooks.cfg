\* Producer and signer books: the mint and one other account, a ring of
\* three VDF values, three client transactions; reads of up to two
\* datagrams at the Messaging socket. A panic ends the producer for good.
CONSTANTS
    m = m
    a = a
    Account <- MCAccount
    Mint = m
    Tokens = 2
    Amounts = {1, 2}
    Fees = {0, 2}
    MaxSize = 3
    MaxSubmit = 3
    Datagrams <- MCDatagrams
    MaxRead = 2
SPECIFICATION Spec
INVARIANT TypeOK
INVARIANT NoNegativeBalance
INVARIANT NoForgedDebit
INVARIANT SignaturesApplied
CHECK_DEADLOCK FALSE
