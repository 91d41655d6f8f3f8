----------------------------- MODULE MCDirectory -----------------------------
EXTENDS Operator
=============================================================================
