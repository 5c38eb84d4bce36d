------------------------------ MODULE MCReload ------------------------------
EXTENDS Reload
=============================================================================
