------------------------------ MODULE MCLedger ------------------------------
EXTENDS Ledger
CONSTANTS t1, t2
=============================================================================
