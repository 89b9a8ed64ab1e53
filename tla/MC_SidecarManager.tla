------------------------ MODULE MC_SidecarManager ------------------------
EXTENDS SidecarManager
==========================================================================
