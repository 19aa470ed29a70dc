----------------------------- MODULE MCDelivery -----------------------------
(* A small instance of Delivery for TLC. *)
EXTENDS Delivery, TLC

MCOffered == {"run", "span", "sample", "complete"} \X Runs

(* Request threads are interchangeable. *)
MCSymmetry == Permutations(Handlers)
=============================================================================
