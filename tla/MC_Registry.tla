---------------------------- MODULE MC_Registry ----------------------------
(***************************************************************************)
(* Model of a Coder used for:                                              *)
(*   type T struct { Next *T `xdr:"opt"` }     (a recursive type)          *)
(*   type U struct { A T; B int32 }            (registrable)               *)
(*   type B struct { S int8 `xdr:"union:switch"`; ... }  (builder panics)  *)
(* Keys: xType{T,""}, xType{*T,"opt"}, xType{*T,""}, xType{U,""},          *)
(* xType{int32,""}, xType{B,""}.                                           *)
(***************************************************************************)
EXTENDS Registry, TLC

CONSTANTS T, PT, U, I, B, kT, kOptPT, kPT, kU, kI, kB

MCTypes == {T, PT, U, I}
MCKeys == {kT, kOptPT, kPT, kU, kI}
MCTypesB == MCTypes \cup {B}
MCKeysB == MCKeys \cup {kB}

MCTypeOf == (kT :> T @@ kOptPT :> PT @@ kPT :> PT @@ kU :> U @@ kI :> I @@ kB :> B)
MCBaseKey == (T :> kT @@ PT :> kPT @@ U :> kU @@ I :> kI @@ B :> kB)

(* buildCodec: struct T -> field Next under "opt"; makeOptCodec -> the     *)
(* pointer with the opt stripped; makePtrCodec -> T; struct U -> T, int32; *)
(* B panics before looking any field up.                                   *)
MCDeps == (kT :> <<kOptPT>> @@ kOptPT :> <<kPT>> @@ kPT :> <<kT>>
           @@ kU :> <<kT, kI>> @@ kI :> <<>> @@ kB :> <<>>)

MCSymmetry == Permutations(Threads)
=============================================================================
