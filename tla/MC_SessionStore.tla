--------------------------- MODULE MC_SessionStore ---------------------------
EXTENDS SessionStore
=============================================================================
