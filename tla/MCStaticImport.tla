--------------------------- MODULE MCStaticImport ---------------------------
(* Two runs of the script and an import of another directory; three of the  *)
(* eight files, the last one imported by COPY.                              *)
EXTENDS StaticImport

CONSTANTS s1, s2, m1

MCScripts == {s1, s2}
MCManual == {m1}
MCFileSeq == <<"agency", "stops", "trips">>
MCCopyFiles == {"trips"}
=============================================================================
