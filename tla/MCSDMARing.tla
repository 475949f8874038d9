----------------------------- MODULE MCSDMARing -----------------------------
EXTENDS SDMARing
=============================================================================
