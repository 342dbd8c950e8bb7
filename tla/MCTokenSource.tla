---------------------------- MODULE MCTokenSource ----------------------------
EXTENDS TokenSource
=============================================================================
