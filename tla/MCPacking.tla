----------------------------- MODULE MCPacking -----------------------------
EXTENDS Packing

(* maxTransactionsInBlock = BlobRealDataSize / transactionSize - 2 with   *)
(* BlobRealDataSize = 65536 - 32 - 8 - 4 and transactionSize = 176.        *)
MCMaxTransactionsInBlock == (65536 - 32 - 8 - 4) \div 176 - 2

(* An output the Generator must cut in two, one of a single transaction,  *)
(* and one with every transaction rejected.                                *)
MCTxCounts == {0, 1, MCMaxTransactionsInBlock + 1}
=============================================================================
