------------------------------ MODULE MC_Records ------------------------------
(* Bounds for Records: bytes of 2 bits (int8 is -2..1, int16 -8..7,       *)
(* int32 -128..127).  The record is                                       *)
(*   struct { A int8; U U1; V U2; H uint16; C uint32 }  with              *)
(*   U1 { S int32 `union:switch`; X int16 `union:0,0xff`;                 *)
(*        Y bool `union:1` }   (0xff is int32(-1) at this width)          *)
(*   U2 { S bool `union:switch`; X uint16 `union:true`;                   *)
(*        Y uint8 `union:default` }                                       *)
(* so the int32 switch values -1, 1 and 2 reach an arm through the uint32 *)
(* conversion, directly, and not at all; false reaches the default arm;   *)
(* the other fields hold the ends of their ranges.                        *)
EXTENDS Records

CONSTANTS a1, a2, U1, U2

MCLayout == <<"i8", U1, U2, "u16", "u32">>
MCSwitchKind == (U1 :> "i32" @@ U2 :> "bool")
MCArmKind == (U1 :> (a1 :> "i16" @@ a2 :> "bool") @@ U2 :> (a1 :> "u16" @@ a2 :> "u8"))
MCCases == (U1 :> (a1 :> {0, W - 1} @@ a2 :> {1}) @@ U2 :> (a1 :> {1} @@ a2 :> {}))
MCDefault == (U1 :> None @@ U2 :> a2)
MCKindVals == ("i8" :> {-2} @@ "i16" :> {-Radix * 2} @@ "i32" :> {-1, 1, 2}
               @@ "u8" :> {0, Radix - 1} @@ "u16" :> {Radix * Radix - 1} @@ "u32" :> {W - 1})
PeerValue(a, sw2) ==
    <<a, [sw |-> 1, arm |-> (a1 :> 0 @@ a2 :> 1)], [sw |-> sw2, arm |-> (a1 :> 0 @@ a2 :> 0)],
      0, 0>>
(* A peer sending the word 2 as U2's bool switch.                         *)
MCPeerBool == {PeerValue(0, 2)}
(* A peer's int32 3 sent where the record has the int8 A.                 *)
MCPeerNarrow == {PeerValue(1 + Radix \div 2, 0)}
====
