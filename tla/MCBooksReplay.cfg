\* Replay protection with the ring wrapping: two VDF values in the ring,
\* so the first block after the genesis blocks evicts a value, and five
\* client transactions, enough to apply a transfer, evict its value, have
\* a late UpdateLastBlock goroutine register it again and resend it. One
\* transfer amount and fee, and only ValidVDFValue requests.
CONSTANTS
    m = m
    a = a
    Account <- MCAccount
    Mint = m
    Tokens = 2
    Amounts = {1}
    Fees = {0}
    MaxSize = 2
    MaxSubmit = 5
    Datagrams <- MCDatagramsVDF
    MaxRead = 1
SPECIFICATION Spec
INVARIANT NoReplay
CHECK_DEADLOCK FALSE
