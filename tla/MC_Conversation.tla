------------------------- MODULE MC_Conversation -------------------------
EXTENDS Conversation
=============================================================================
