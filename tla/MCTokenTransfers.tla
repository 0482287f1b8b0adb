--------------------------- MODULE MCTokenTransfers ---------------------------
(* TokenTransfers with three accounts of each kind anybody can set up.          *)
EXTENDS TokenTransfers

CONSTANTS X1, X2, X3, USDC, WSOL, PDA, W1, TOKENKEG, FAKE

=============================================================================
