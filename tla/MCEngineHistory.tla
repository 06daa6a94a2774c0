--------------------------- MODULE MCEngineHistory ---------------------------
(* The small clusters of MCEngine, with the history of the latest pages.   *)
EXTENDS MCEngine, EngineHistory
=============================================================================
