----------------------------- MODULE MC_Encoder -----------------------------
(***************************************************************************)
(* Bounds for Encoder: two Coders; three types, so that a cache of two     *)
(* slots evicts; T1 accepts a registered codec, so the Coders may bind it  *)
(* differently; T3's value fails half way; one buffered and one raw sink;  *)
(* a bufio buffer smaller than one value, so a failed Write can leave part *)
(* of it on the raw sink.  The Coders are interchangeable.                 *)
(***************************************************************************)
EXTENDS Encoder, TLC

CONSTANTS T1, T2, T3

(* buildCodec's codec for a type. *)
MCBuilt == [t \in Types |-> <<"built", t>>]

MCSymmetry == Permutations(Coders)
=============================================================================
