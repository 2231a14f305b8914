------------------------------ MODULE MCEngine ------------------------------
\* Small instances of Engine, with the store's files under it.
EXTENDS Engine
=============================================================================
