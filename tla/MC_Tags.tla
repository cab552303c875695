------------------------------ MODULE MC_Tags ------------------------------
(***************************************************************************)
(* Struct types for makeStructCodec.  Fields are built from the tags the  *)
(* repository's tests and documentation use, plus the degenerate ones the  *)
(* parser must refuse.                                                     *)
(***************************************************************************)
EXTENDS Tags

T(k) == [k |-> k, v |-> <<>>]
TV(k, n) == [k |-> k, v |-> <<n>>]
UV(vals) == [k |-> "u_vals", v |-> vals]
Fd(ty, tg) == [ty |-> ty, tag |-> tg]

I32 == <<"int32">>
PI32 == <<"ptr", "int32">>
Bytes == <<"slice", "uint8">>

Skipped == Fd(I32, SkipTag)

(* Fields of ordinary structs. *)
StructFields == {
    Fd(I32, <<T("")>>),                              \* `xdr:""`
    Skipped,
    Fd(PI32, <<T("")>>),                             \* transparent pointer
    Fd(PI32, <<T("opt")>>),                          \* "opt"
    Fd(PI32, <<T("opt"), T("")>>),                   \* "opt/"
    Fd(Bytes, <<T("opaque")>>),                      \* "opaque"
    Fd(Bytes, <<T(""), T("opaque")>>),               \* "/opaque"
    Fd(Bytes, <<TV("maxlen", 4), T("opaque")>>),     \* "maxlen:4/opaque"
    Fd(<<"array", "uint8">>, <<T("opaque")>>),       \* [N]byte "opaque"
    Fd(<<"string">>, <<TV("len", 4)>>),              \* "len:4"
    Fd(<<"map", "int32">>, <<T("")>>),
    Fd(I32, <<T("opt")>>),                           \* refused: not a pointer
    Fd(I32, <<T(""), T("")>>)                        \* refused: trailing tag
}

(* Switch fields and arms of unions. *)
SwitchFields == {
    Fd(I32, <<T("u_switch")>>),
    Fd(<<"bool">>, <<T("u_switch")>>),
    Fd(<<"int8">>, <<T("u_switch")>>)                \* accepted, then panics
}
ArmFields == {
    Skipped,
    Fd(I32, <<UV(<<1>>)>>),                          \* "union:1"
    Fd(I32, <<UV(<<1, 2>>)>>),                       \* "union:1,2"
    Fd(I32, <<UV(<<2, 2>>)>>),                       \* "union:2,2"
    Fd(<<"bool">>, <<T("u_true")>>),
    Fd(I32, <<T("u_false")>>),
    Fd(<<"string">>, <<T("u_default"), TV("maxlen", 4)>>),
    Fd(PI32, <<T("u_default"), T("opt")>>),
    Fd(I32, <<T("u_bad")>>),
    Fd(I32, <<T("")>>),                              \* refused: no union word
    Fd(I32, <<T("u_switch")>>)                       \* refused: second switch
}

MCStructs ==
    (BoundedSeq(StructFields, 2) \ {<<>>})
    \cup {<<s>> \o a : s \in SwitchFields \cup {Skipped}, a \in BoundedSeq(ArmFields, 2)}
    \cup {<<Fd(I32, <<UV(<<1>>)>>)>>}                \* an arm outside any union

(* The example of the XDRTag documentation: Foo *[]byte `xdr:"opt/len:4"`. *)
DocStructs == {<<Fd(<<"ptr", "slice", "uint8">>, <<T("opt"), TV("len", 4)>>)>>}

(* A map with a length limit: `xdr:"maxlen:4"` on map[int32]int32. *)
MapStructs == {<<Fd(<<"map", "int32">>, <<TV("maxlen", 4)>>)>>}
=============================================================================
