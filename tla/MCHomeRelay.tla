----------------------------- MODULE MCHomeRelay -----------------------------
EXTENDS HomeRelay
=============================================================================
