------------------------------ MODULE MC_Wire ------------------------------
(* Bounds for Wire: bytes of 2 bits (a word holds 0..255, a hyper        *)
(* 0..65535), bodies of length 0, 1, 3 and 4 (each padding case and one *)
(* exactly at maxLen = 3), negative and positive signed values, and a    *)
(* uint 2 that a bool reader must refuse.                                *)
EXTENDS Wire

MCBodies == {<<>>, <<2>>, <<1, 2, 3>>, <<3, 1, 2, 3>>}
MCIntVals == {-1, 1}
MCHyperVals == {-2}
(* No element, one, and two: the last is over a maxlen of 1.            *)
MCElemSeqs == {<<>>, <<-1>>, <<1, -1>>}
(* Maps of no entry, of one, and of two entries, which Go may visit in  *)
(* either order and which are over a maxlen of 1.                        *)
MCMapVals == {<<>>, 0 :> -1, (0 :> 1) @@ (2 :> -1)}
====
