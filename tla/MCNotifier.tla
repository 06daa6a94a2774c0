----------------------------- MODULE MCNotifier -----------------------------
(* Notifier on a small instance: keys are interchangeable, and one of the  *)
(* kinds of provider has no maximum for its pauses.                        *)
EXTENDS Notifier, TLC

MaxBackoffOf == [k \in Kind |-> IF k = "event" THEN 0 ELSE 6]

Symmetry == Permutations(Key)
=============================================================================
