------------------------ MODULE MCArchitectureRules ------------------------
(* All graphs of N modules, in layers of which two have the same rank.      *)
EXTENDS ArchitectureRules

FourLayers == {"domain", "data", "infrastructure", "other"}
=============================================================================
