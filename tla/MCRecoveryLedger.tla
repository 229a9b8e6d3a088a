------------------------- MODULE MCRecoveryLedger -------------------------
EXTENDS RecoveryLedger
=============================================================================
