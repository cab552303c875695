-------------------------- MODULE RegistryAbstract --------------------------
(***************************************************************************)
(* What the codec registry of internal/coder promises its callers, with    *)
(* the placeholders, the builders and the goroutines abstracted away: each *)
(* xType is bound to a codec at most once and keeps it, and the per-type   *)
(* fast path of the encoder (knownBaseCodecs) is only ever filled with the *)
(* codec bound to xType{t, ""}, in the same step that binds it.            *)
(***************************************************************************)
CONSTANTS
    Keys,     \* xType{Type, EncodedTag} values
    Types,    \* reflect.Types
    TypeOf,   \* [Keys -> Types]
    BaseKey,  \* [Types -> Keys]: xType{t, ""}
    Codecs,   \* codec values
    None

VARIABLES
    codec,    \* [Keys -> Codecs \cup {None}]: the codec a key is bound to
    base      \* [Types -> Codecs \cup {None}]: the encoder's per-type entry

Init ==
    /\ codec = [k \in Keys |-> None]
    /\ base = [ty \in Types |-> None]

(* A key with no codec is bound to one (a user registration, or a built    *)
(* codec published under a non-empty tag).                                 *)
Bind(k, c) ==
    /\ codec[k] = None
    /\ codec' = [codec EXCEPT ![k] = c]
    /\ UNCHANGED base

(* The codec built for xType{t, ""} is bound to the key and to the type.   *)
BindBase(k, c) ==
    /\ codec[k] = None
    /\ BaseKey[TypeOf[k]] = k
    /\ codec' = [codec EXCEPT ![k] = c]
    /\ base' = [base EXCEPT ![TypeOf[k]] = c]

(* Some unbound key is bound, to the codec it holds afterwards.  Naming    *)
(* that codec as codec'[k], rather than ranging over Codecs, makes Spec a  *)
(* property TLC checks cheaply on the registry's steps; it is not meant to *)
(* be run on its own.                                                      *)
Next == \E k \in Keys :
            /\ codec[k] = None
            /\ codec'[k] \in Codecs
            /\ Bind(k, codec'[k]) \/ BindBase(k, codec'[k])

Spec == Init /\ [][Next]_<<codec, base>>
=============================================================================
