--------------------------- MODULE MCStopFeatures ---------------------------
(* Two runs of the script that may meet each other and a static import.     *)
EXTENDS StopFeatures

CONSTANTS s1, s2

MCScripts == {s1, s2}
=============================================================================
