--------------------------- MODULE MCEnginePager ---------------------------
(* The small clusters of MCEngine, with a pager.                           *)
EXTENDS MCEngine, EnginePager
=============================================================================
