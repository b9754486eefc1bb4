---------------------------- MODULE MCStorefront ----------------------------
EXTENDS Storefront
=============================================================================
