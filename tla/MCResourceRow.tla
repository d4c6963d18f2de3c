--------------------------- MODULE MCResourceRow ---------------------------
(* An instance of ResourceRow small enough for TLC. *)
EXTENDS ResourceRow

CONSTANTS ann, bob, w1

TwoNames  == {ann, bob}
OneWorker == {w1}
=============================================================================
