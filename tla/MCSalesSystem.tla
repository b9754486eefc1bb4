---------------------------- MODULE MCSalesSystem ----------------------------
EXTENDS SalesSystem
=============================================================================
