------------------------ MODULE MC_AutonomousEngine ------------------------
EXTENDS AutonomousEngine
=============================================================================
