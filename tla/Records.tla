------------------------------- MODULE Records -------------------------------
(***************************************************************************)
(* The struct and union codecs of internal/coder (structCodec, unionCodec: *)
(* encodeReflect / encodeUnsafe, Decode / decodeUnsafe) over the           *)
(* primitive int, uint and bool codecs, for one record type whose fields   *)
(* are listed in Layout.  A writer encodes values of it into a stream; a   *)
(* reader decodes them, in order, into one destination it reuses, as a     *)
(* caller looping on Decoder.Decode(&v) does.  The stream may end early.   *)
(*                                                                         *)
(* Stream entries are 32-bit words (Wire checks their bytes); a word holds *)
(* 4 bytes of ByteBits bits, so an int8 field is one byte of it.  A        *)
(* union's table (cases, defaultCase) is the one makeStructCodec builds    *)
(* from the union: tags, which Tags checks: Cases[u][a] is the set of      *)
(* uint32 case values of arm a of union u.  Peer values are written by a   *)
(* peer whose schema has int32 where the record has int8, or that sends    *)
(* a non-0/1 word as a bool; the writer stops at its first failed Encode.  *)
(***************************************************************************)
EXTENDS Integers, Sequences, SequencesExt

CONSTANTS
    ByteBits,    \* bits per byte (8 in the code)
    Layout,      \* Seq of field kinds: "i8".."i32", "u8".."u32", "bool", a union
    Unions,      \* the union types among the fields
    SwitchKind,  \* [Unions -> kind of the switch field: "i32", "u32" or "bool"]
    Arms,        \* body fields of a union
    ArmKind,     \* [Unions -> [Arms -> kinds]]
    Cases,       \* [Unions -> [Arms -> SUBSET uint32]]: union:<v,...> values
    Default,     \* [Unions -> the union:default arm, or None]
    KindVals,    \* [integer kinds -> SUBSET Int]: the Go values of each kind
    Peer,        \* values a peer may send beyond the record's domain
    MaxItems,    \* values the writer sends
    CanCut,      \* whether the stream may end early
    None

Radix == 2 ^ ByteBits
W == Radix ^ 4
ToSigned(u, w) == IF u >= w \div 2 THEN u - w ELSE u

VARIABLES
    out,    \* words written to the encoder's io.Writer
    sent,   \* history: [v, err] of each Encode call
    ends,   \* history: length of out after each Encode call
    cut,    \* None, or the number of words the reader can ever get
    rpos,   \* words the decoder has consumed
    dest,   \* the destination value the reader decodes into
    got     \* history: [err, pos, before, after] of each Decode call

vars == <<out, sent, ends, cut, rpos, dest, got>>

Vals(k) == IF k = "bool" THEN {0, 1} ELSE KindVals[k]
Scalars == UNION {KindVals[k] : k \in DOMAIN KindVals} \cup {0, 1}
UnionVals(k) == [sw : Vals(SwitchKind[k]),
                 arm : {f \in [Arms -> Scalars] : \A a \in Arms : f[a] \in Vals(ArmKind[k][a])}]
FieldVals(k) == IF k \in Unions THEN UnionVals(k) ELSE Vals(k)
RECURSIVE ValuesUpTo(_)
ValuesUpTo(j) == IF j = 0 THEN {<<>>}
                 ELSE {s \o <<x>> : s \in ValuesUpTo(j - 1), x \in FieldVals(Layout[j])}
Values == ValuesUpTo(Len(Layout))

(* Mutant: the word taken without the uint32 conversion of a negative int.*)
WordNoWrap(k, x) == x
(* The word EncodeInt(int32(v.Int())), EncodeUnsignedInt(uint32(v.Uint()))*)
(* or EncodeBool(v.Bool()) writes for a field of kind k.                  *)
Word(k, x) == x % W

(* Mutant: swVal of a signed switch taken without the uint32 conversion.  *)
SwValNoWrap(k, x) == IF SwitchKind[k] = "bool" THEN (IF x = 1 THEN 1 ELSE 0) ELSE x
(* swVal: 1 iff a bool switch is true, uint32(swv.Int()), swv.Uint() or   *)
(* the uint32 pointer bitcast of swp in the unsafe build.               *)
SwVal(k, x) == IF SwitchKind[k] = "bool" THEN (IF x = 1 THEN 1 ELSE 0) ELSE x % W

(* c.cases[swVal], falling back to c.defaultCase (-1 when there is none). *)
Arm(k, s) ==
    IF \E a \in Arms : s \in Cases[k][a] THEN CHOOSE a \in Arms : s \in Cases[k][a] ELSE Default[k]

(* unionCodec.encodeReflect / encodeUnsafe: the switch field is written   *)
(* before the arm is looked up, so a failed Encode leaves it on the wire. *)
EncodeUnion(k, u) ==
    LET a == Arm(k, SwVal(k, u.sw)) IN
    IF a = None THEN [w |-> <<Word(SwitchKind[k], u.sw)>>, err |-> "arm_undefined"]
    ELSE [w |-> <<Word(SwitchKind[k], u.sw), Word(ArmKind[k][a], u.arm[a])>>, err |-> "none"]

EncodeField(k, x) ==
    IF k \in Unions THEN EncodeUnion(k, x) ELSE [w |-> <<Word(k, x)>>, err |-> "none"]

(* structCodec.encodeReflect / encodeUnsafe: fields in order, returning at *)
(* the first error.                                                       *)
RECURSIVE EncodeFrom(_, _)
EncodeFrom(v, j) ==
    IF j > Len(Layout) THEN [w |-> <<>>, err |-> "none"]
    ELSE LET r == EncodeField(Layout[j], v[j])
             t == EncodeFrom(v, j + 1)
         IN  IF r.err # "none" THEN r ELSE [w |-> r.w \o t.w, err |-> t.err]

(* DecodeUnsignedInt at word p: a missing word reads as 0 with io.EOF.     *)
Avail == IF cut = None THEN Len(out) ELSE cut
ReadWord(p) == IF p < Avail THEN [u |-> out[p + 1], err |-> "none"] ELSE [u |-> 0, err |-> "eof"]

(* The value range of a field kind, and whether it is signed.            *)
Width(k) == CASE k \in {"i8", "u8"} -> Radix [] k \in {"i16", "u16"} -> Radix ^ 2
              [] OTHER -> W
Signed(k) == k \in {"i8", "i16", "i32"}
(* Mutant: a narrow signed field stored as uint8(i) / uint16(i).          *)
GoValUnsignedNarrow(k, u) ==
    IF k = "bool" THEN (IF u = 1 THEN 1 ELSE 0)
    ELSE IF k = "i32" THEN ToSigned(u % Width(k), Width(k)) ELSE u % Width(k)
(* The primitive codecs' Decode: DecodeBool, or DecodeInt/DecodeUnsignedInt*)
(* and v.SetInt(int64(i)) / SetUint, or the stores int8(i), uint16(i)...  *)
(* of the unsafe build: the value is truncated to the field's width, and  *)
(* stored even when the read failed.                                       *)
GoVal(k, u) ==
    IF k = "bool" THEN (IF u = 1 THEN 1 ELSE 0)
    ELSE IF Signed(k) THEN ToSigned(u % Width(k), Width(k)) ELSE u % Width(k)
DecodePrim(k, p) ==
    LET r == ReadWord(p) IN
    [x |-> GoVal(k, r.u), pos |-> p + 1,
     err |-> IF r.err = "none" /\ k = "bool" /\ r.u \notin {0, 1} THEN "invalid" ELSE r.err]

(* unionCodec.Decode / decodeUnsafe: the switch is stored, then the arm    *)
(* chosen by the table is decoded; every other arm is left as it was.      *)
DecodeUnion(k, old, p) ==
    LET s  == DecodePrim(SwitchKind[k], p)
        u1 == [old EXCEPT !.sw = s.x]
        a  == Arm(k, SwVal(k, s.x))
        r  == DecodePrim(ArmKind[k][a], s.pos)
    IN  CASE s.err # "none" -> [x |-> u1, pos |-> s.pos, err |-> s.err]
          [] a = None       -> [x |-> u1, pos |-> s.pos, err |-> "arm_undefined"]
          [] OTHER          -> [x |-> [u1 EXCEPT !.arm[a] = r.x], pos |-> r.pos, err |-> r.err]

DecodeField(k, old, p) == IF k \in Unions THEN DecodeUnion(k, old, p) ELSE DecodePrim(k, p)

(* structCodec.Decode / decodeUnsafe: fields in order into v, returning at *)
(* the first error with the earlier fields already stored.                *)
RECURSIVE DecodeFrom(_, _, _)
DecodeFrom(d, j, p) ==
    IF j > Len(Layout) THEN [x |-> d, pos |-> p, err |-> "none"]
    ELSE LET r == DecodeField(Layout[j], d[j], p) IN
         IF r.err # "none" THEN [x |-> [d EXCEPT ![j] = r.x], pos |-> r.pos, err |-> r.err]
         ELSE DecodeFrom([d EXCEPT ![j] = r.x], j + 1, r.pos)

Init ==
    /\ out = <<>> /\ sent = <<>> /\ ends = <<>> /\ cut = None /\ rpos = 0
    /\ dest \in Values
    /\ got = <<>>

(* encoder.Encode(v) -> getBaseCodec(t).Encode: the words of v up to the  *)
(* first error reach the writer.                                          *)
Write(v) ==
    LET r == EncodeFrom(v, 1) IN
    /\ cut = None
    /\ Len(sent) < MaxItems
    /\ \A j \in DOMAIN sent : sent[j].err = "none"
    /\ out' = out \o r.w
    /\ sent' = Append(sent, [v |-> v, err |-> r.err])
    /\ ends' = Append(ends, Len(out'))
    /\ UNCHANGED <<cut, rpos, dest, got>>

Cut(n) ==
    /\ CanCut /\ cut = None
    /\ n \in rpos..Len(out)
    /\ cut' = n
    /\ UNCHANGED <<out, sent, ends, rpos, dest, got>>

(* decoder.Decode(&dest) of the next value, until the first error.        *)
Read ==
    LET r == DecodeFrom(dest, 1, rpos) IN
    /\ Len(got) < Len(sent)
    /\ \A j \in DOMAIN got : got[j].err = "none"
    /\ dest' = r.x
    /\ rpos' = r.pos
    /\ got' = Append(got, [err |-> r.err, pos |-> r.pos, before |-> dest, after |-> r.x])
    /\ UNCHANGED <<out, sent, ends, cut>>

Next == (\E v \in Values \cup Peer : Write(v)) \/ Read \/ (\E n \in 0..Len(out) : Cut(n))

Spec == Init /\ [][Next]_vars

-----------------------------------------------------------------------------
Shaped(d) ==
    /\ DOMAIN d = DOMAIN Layout
    /\ \A j \in DOMAIN Layout :
          IF Layout[j] \in Unions THEN d[j].sw \in Int /\ DOMAIN d[j].arm = Arms
          ELSE d[j] \in Int
TypeOK ==
    /\ out \in Seq(0..W - 1) /\ sent \in Seq([v : Values \cup Peer, err : {"none", "arm_undefined"}])
    /\ ends \in Seq(Nat) /\ Len(ends) = Len(sent)
    /\ cut \in 0..Len(out) \cup {None} /\ rpos \in Nat
    /\ Shaped(dest)
    /\ \A j \in DOMAIN got : got[j].err \in {"none", "eof", "invalid", "arm_undefined"}
                           /\ Shaped(got[j].before) /\ Shaped(got[j].after)

(* Spec 4.4 and 6: a union's discriminant is one 32-bit word, 1 iff a     *)
(* bool switch is true, else the two's-complement bit pattern of the      *)
(* switch; it selects the arm whose case value it is, or the default arm. *)
SpecWord(x) == IF x < 0 THEN x + W ELSE x
SpecArm(k, x) == IF \E a \in Arms : SpecWord(x) \in Cases[k][a]
                 THEN CHOOSE a \in Arms : SpecWord(x) \in Cases[k][a] ELSE Default[k]
SpecField(k, x) ==
    IF k \in Unions THEN <<SpecWord(x.sw), SpecWord(x.arm[SpecArm(k, x.sw)])>> ELSE <<SpecWord(x)>>
SpecWire(v) == FlattenSeq([j \in DOMAIN Layout |-> SpecField(Layout[j], v[j])])
NoArm(v) == \E j \in DOMAIN Layout : Layout[j] \in Unions /\ SpecArm(Layout[j], v[j].sw) = None
Start(j) == IF j = 1 THEN 0 ELSE ends[j - 1]

(* What structCodec/unionCodec.Encode writes is the wire form of spec 6:  *)
(* an Encode succeeds exactly when every union in the value has an arm    *)
(* for its discriminant, and then its words are the fields' words in      *)
(* order, each union's discriminant followed by the arm it selects.       *)
WireAsSpecified ==
    \A j \in DOMAIN sent : sent[j].v \in Values =>
        /\ sent[j].err = "arm_undefined" <=> NoArm(sent[j].v)
        /\ sent[j].err = "none" => SubSeq(out, Start(j) + 1, ends[j]) = SpecWire(sent[j].v)

(* A Decode into a reused destination that returns no error gives back    *)
(* the value written at that position: every field, each union's switch   *)
(* and active arm as sent, the other arms as the destination held them    *)
(* (spec 4.4: they are not touched), and the reader left exactly where    *)
(* the next value starts.                                                 *)
Agree(after, before, v) ==
    \A j \in DOMAIN Layout :
        IF Layout[j] \in Unions
        THEN /\ after[j].sw = v[j].sw
             /\ \A a \in Arms : after[j].arm[a] =
                    IF a = SpecArm(Layout[j], v[j].sw) THEN v[j].arm[a] ELSE before[j].arm[a]
        ELSE after[j] = v[j]
DecodedAsSent ==
    \A j \in DOMAIN got : got[j].err = "none" =>
        /\ sent[j].err = "none" /\ got[j].pos = ends[j]
        /\ Agree(got[j].after, got[j].before, sent[j].v)
====
