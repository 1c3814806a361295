----------------------------- MODULE MCIdempotency -----------------------------
(* Idempotency with a few deliveries of two requests.                      *)
EXTENDS Idempotency, TLC

===============================================================================
