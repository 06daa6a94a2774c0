---------------------------- MODULE MCDelivery ----------------------------
(* Two goroutines, two providers and a few notifications for TLC.          *)
EXTENDS Delivery, TLC

N(key, action) == [key |-> key, action |-> action]

(* A page, which may go through the enrichment, and a digest, which never   *)
(* does; the second provider is routed the digest only.                    *)
PageAndDigest == {N("web", "Create"), N("digest", "DigestFlush")}
DigestOnly    == [p \in Entry |-> IF p = 2 THEN {} ELSE {"web"}]

(* The first provider is tried twice.                                       *)
TwiceAndOnce  == [p \in Entry |-> IF p = 1 THEN 2 ELSE 1]
FirstToSecond == [p \in Entry |-> IF p = 1 THEN 2 ELSE 0]
=============================================================================
