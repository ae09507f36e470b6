------------------------------ MODULE MCTxPath ------------------------------
(* TxPath under TLC.  MaxUnits bounds the data of the connection.          *)
EXTENDS TxPath
=============================================================================
