------------------------- MODULE MCRuntimeRegistry -------------------------
EXTENDS RuntimeRegistry
============================================================================
