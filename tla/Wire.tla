-------------------------------- MODULE Wire --------------------------------
(***************************************************************************)
(* The wire layer of internal/coder: the encoder's Encode* primitives      *)
(* writing to an io.Writer, and the decoder's Decode* primitives reading   *)
(* the same bytes back through io.ReadFull, while the transport may end    *)
(* the stream early (the sink fails or the source is closed).              *)
(*                                                                         *)
(* The writer emits a schema of items; the reader decodes them in order    *)
(* with the same schema, except that an unsigned int may be read as a     *)
(* bool (a peer sending a discriminant where a bool is expected).  After   *)
(* its first error the reader stops, as every caller does.                 *)
(*                                                                         *)
(* Bytes are ByteBits wide (the code's 8 scaled down so that a hyper fits  *)
(* TLC's integers); a word is still 4 bytes and every length, padding and  *)
(* sign computation is done as in the code.  Float/Double are their bit    *)
(* patterns (math.Float32bits) and so behave as UnsignedInt/UnsignedHyper; *)
(* strings are their opaque byte view.  Bools are 0/1.                     *)
(*                                                                         *)
(* On top of the primitives sit the composite codecs that call them: the   *)
(* arrayCodec, sliceCodec, optCodec (over ptrCodec) and mapCodec of int32  *)
(* elements (uint32 keys), and the maxlen checks of opaqueSliceCodec and   *)
(* varStringCodec.  An item's max is the reader's codec limit; its wmax is *)
(* the writer's, None for a peer whose codec has no limit.                 *)
(***************************************************************************)
EXTENDS Integers, Sequences, FiniteSets, SequencesExt

CONSTANTS
    ByteBits,    \* bits per byte (8 in the code)
    MaxItems,    \* number of items the writer emits
    IntVals,     \* int32 values
    UIntVals,    \* uint32 values
    HyperVals,   \* int64 values
    Bodies,      \* byte strings for opaque/string items
    MaxLens,     \* maxLen arguments of DecodeOpaque / OpaqueReader
    ElemSeqs,    \* int32 elements of array, slice and opt items
    MapVals,     \* uint32 -> int32 maps of map items
    MaxCounts,   \* maxlen of slice and map codecs
    Kinds,       \* the item kinds the schema uses
    CanCut,      \* whether the transport may end the stream early
    None

Radix == 2 ^ ByteBits
W32 == Radix ^ 4
W64 == Radix ^ 8
AllKinds == {"int", "uint", "bool", "hyper", "opaque", "fopaque", "stream",
             "array", "slice", "opt", "map", "c64", "c128"}

VARIABLES
    out,    \* bytes the encoder has written to its io.Writer
    sent,   \* history: the items encoded, in order
    ends,   \* history: offset in out just after each item
    cut,    \* None, or the number of bytes the reader can ever get
    rpos,   \* bytes the decoder has consumed
    sub,    \* None, or the opaqueReader the caller holds
    got     \* results of the decoder, one per item it tried

vars == <<out, sent, ends, cut, rpos, sub, got>>

(* A sequence, or a map from uint32 keys: a function on naturals. *)
ValOK(v) == DOMAIN v \subseteq Nat /\ \A i \in DOMAIN v : v[i] \in Int
Size(v) == Cardinality(DOMAIN v)
ResultOK(r) ==
    /\ DOMAIN r = {"as", "err", "val", "pos", "alloc"}
    /\ r.as \in AllKinds /\ r.err \in {"none", "eof", "invalid", "length"}
    /\ ValOK(r.val) /\ r.pos \in Nat /\ r.alloc \in Nat

(* Big-endian encoding of n in k bytes, and back. *)
RECURSIVE BE(_, _)
BE(n, k) == IF k = 0 THEN <<>> ELSE BE(n \div Radix, k - 1) \o <<n % Radix>>
RECURSIVE FromBE(_)
FromBE(s) == IF s = <<>> THEN 0 ELSE FromBE(Front(s)) * Radix + Last(s)

(* Two's complement reinterpretation, as Go's int32(u) / uint32(i). *)
ToSigned(u, w) == IF u >= w \div 2 THEN u - w ELSE u

Zeros(n) == [i \in 1..n |-> 0]

(* encoder.EncodeInt: four bytes i>>24, i>>16, i>>8, i *)
EncodeInt(i) == BE(i % W32, 4)
(* EncodeUnsignedInt(u) == EncodeInt(int32(u)) *)
EncodeUnsignedInt(u) == EncodeInt(ToSigned(u, W32))
(* EncodeBool: EncodeInt(1) for true, EncodeInt(0) for false *)
EncodeBool(b) == EncodeInt(b)
EncodeHyper(h) == BE(h % W64, 8)
(* Mutant: padding of 4 - (len & 3), a whole word for an aligned body. *)
EncodeFixedOpaquePadAlways(b) == b \o Zeros(4 - (Len(b) % 4))
(* EncodeFixedOpaque: the body, then pad[0:(4 - (len & 3)) & 3] *)
EncodeFixedOpaque(b) == b \o Zeros((4 - (Len(b) % 4)) % 4)
(* EncodeOpaque: EncodeUnsignedInt(len), then the fixed form *)
EncodeOpaque(b) == EncodeUnsignedInt(Len(b)) \o EncodeFixedOpaque(b)

(* arrayCodec.Encode: each element through intCodec, EncodeInt. *)
Ints(s) == FlattenSeq([i \in DOMAIN s |-> EncodeInt(s[i])])
(* sliceCodec.Encode: EncodeUnsignedInt(uint32(l)), then the elements. *)
EncodeSlice(s) == EncodeUnsignedInt(Len(s)) \o Ints(s)
(* optCodec.Encode: EncodeBool(!isNil), then ptrCodec on to the pointee. *)
EncodeOptional(s) == EncodeBool(IF s = <<>> THEN 0 ELSE 1) \o Ints(s)
(* mapCodec.Encode: the count, then key and value of each entry in the   *)
(* order v.MapRange() visits them, which Go leaves unspecified.          *)
EncodeMap(m, order) ==
    EncodeUnsignedInt(Size(m))
    \o FlattenSeq([i \in DOMAIN order |->
                     EncodeUnsignedInt(order[i]) \o EncodeInt(m[order[i]])])

(* complex64Codec / complex128Codec.Encode: EncodeFloat (EncodeDouble) of *)
(* the real part, then of the imaginary part, each as its bit pattern.    *)
EncodeComplex(v, n) == BE(v[1], n) \o BE(v[2], n)

(* The codecs' checks before any output: opaqueSliceCodec, varStringCodec,*)
(* sliceCodec and mapCodec refuse a value longer than their maxlen with a *)
(* LengthError and write nothing.                                         *)
(* Mutant: a value one over maxlen let through. *)
RefusedOffByOne(it) == it.wmax # None /\ Size(it.val) > it.wmax + 1
Refused(it) == it.wmax # None /\ Size(it.val) > it.wmax

Wrote(it) ==
    CASE it.kind = "int"     -> EncodeInt(it.val[1])
      [] it.kind = "uint"    -> EncodeUnsignedInt(it.val[1])
      [] it.kind = "bool"    -> EncodeBool(it.val[1])
      [] it.kind = "hyper"   -> EncodeHyper(it.val[1])
      [] it.kind \in {"opaque", "stream"} -> EncodeOpaque(it.val)
      [] it.kind = "fopaque" -> EncodeFixedOpaque(it.val)
      [] it.kind = "array"   -> Ints(it.val)
      [] it.kind = "slice"   -> EncodeSlice(it.val)
      [] it.kind = "opt"     -> EncodeOptional(it.val)
      [] it.kind = "c64"     -> EncodeComplex(it.val, 4)
      [] it.kind = "c128"    -> EncodeComplex(it.val, 8)
(* The bytes an item's Encode may write: one per visiting order of a map. *)
Encodings(it) ==
    IF it.kind = "map" THEN {EncodeMap(it.val, o) : o \in SetToSeqs(DOMAIN it.val)}
    ELSE {Wrote(it)}

Plain(k, vs) == {[kind |-> k, val |-> v, max |-> None, wmax |-> None] : v \in vs}
Limited(k, vs, ms) ==
    UNION {{[kind |-> k, val |-> v, max |-> m, wmax |-> w] : v \in vs, w \in {m, None}} :
           m \in ms}
Schema ==
    Plain("int", {<<v>> : v \in IntVals}) \cup Plain("uint", {<<v>> : v \in UIntVals})
    \cup Plain("bool", {<<0>>, <<1>>}) \cup Plain("hyper", {<<v>> : v \in HyperVals})
    \cup Limited("opaque", Bodies, MaxLens)
    \cup {[kind |-> "stream", val |-> b, max |-> m, wmax |-> None] : b \in Bodies, m \in MaxLens}
    \cup Plain("fopaque", Bodies) \cup Plain("array", ElemSeqs)
    \cup Limited("slice", ElemSeqs, MaxCounts) \cup Limited("map", MapVals, MaxCounts)
    \cup Plain("opt", {s \in ElemSeqs : Len(s) <= 1})
    \cup Plain("c64", {<<a, b>> : a, b \in UIntVals})
    \cup Plain("c128", {<<h % W64, u>> : h \in HyperVals, u \in UIntVals})

Init ==
    /\ out = <<>>
    /\ sent = <<>>
    /\ ends = <<>>
    /\ cut = None
    /\ rpos = 0
    /\ sub = None
    /\ got = <<>>

(* The writer encodes the next item of its schema; all of its Write calls  *)
(* fail once the sink is gone.                                             *)
Write(it) ==
    /\ cut = None
    /\ it.kind \in Kinds
    /\ ~Refused(it)
    /\ Len(sent) < MaxItems
    /\ \E w \in Encodings(it) : out' = out \o w
    /\ sent' = Append(sent, it)
    /\ ends' = Append(ends, Len(out'))
    /\ UNCHANGED <<cut, rpos, sub, got>>

(* The transport ends the stream after any byte already written.          *)
Cut(n) ==
    /\ CanCut
    /\ cut = None
    /\ n \in rpos..Len(out)
    /\ cut' = n
    /\ UNCHANGED <<out, sent, ends, rpos, sub, got>>

(***************************************************************************)
(* The reader.  io.ReadFull(r, buf) from offset p: it blocks until n bytes *)
(* are there or the stream has ended; at the end it returns the bytes it   *)
(* got (the rest of buf stays zero) and io.EOF / io.ErrUnexpectedEOF.      *)
(***************************************************************************)
Avail == IF cut = None THEN Len(out) ELSE cut
(* Mutant: a read waits for more bytes than it needs. *)
ReadyStrict(p, n) == p + n < Avail \/ cut # None
Ready(p, n) == p + n <= Avail \/ cut # None
(* Mutant: a ReadFull assumed to have filled its buffer. *)
TookAll(p, n) == n
Took(p, n) == IF p + n <= Avail THEN n ELSE Avail - p
FullErr(p, n) == IF p + n <= Avail THEN "none" ELSE "eof"
Filled(p, n) == SubSeq(out, p + 1, p + Took(p, n)) \o Zeros(n - Took(p, n))

(* (n + 3) & ^3 *)
RoundUp4(n) == ((n + 3) \div 4) * 4

Cur == Len(got) + 1
Failed == \E j \in DOMAIN got : got[j].err # "none"
(* The caller asks for the next item the writer sent, holding no reader.  *)
Reading(kinds) ==
    /\ sub = None
    /\ ~Failed
    /\ Cur <= Len(sent)
    /\ sent[Cur].kind \in kinds

(* alloc: the elements (bytes for an opaque) the decoder allocated before *)
(* reading the body.                                                       *)
RecordAlloc(as, err, val, pos, alloc) ==
    /\ got' = Append(got, [as |-> as, err |-> err, val |-> val, pos |-> pos,
                           alloc |-> alloc])
    /\ rpos' = pos
    /\ sub' = None
    /\ UNCHANGED <<out, sent, ends, cut>>
Record(as, err, val, pos) == RecordAlloc(as, err, val, pos, 0)

(* DecodeUnsignedInt: one ReadFull of 4 bytes, the value built big-endian *)
(* from the buffer whether or not the read failed.                        *)
DecodeUnsignedInt ==
    /\ Reading({"uint"})
    /\ Ready(rpos, 4)
    /\ Record("uint", FullErr(rpos, 4), <<FromBE(Filled(rpos, 4))>>,
              rpos + Took(rpos, 4))

(* DecodeInt: int32(u) of DecodeUnsignedInt *)
DecodeInt ==
    /\ Reading({"int"})
    /\ Ready(rpos, 4)
    /\ Record("int", FullErr(rpos, 4),
              <<ToSigned(FromBE(Filled(rpos, 4)), W32)>>, rpos + Took(rpos, 4))

(* DecodeBool: 0 and 1 are false and true with the read's error; any    *)
(* other word is the read's error, or InvalidValue if there was none.   *)
DecodeBool ==
    /\ Reading({"bool", "uint"})
    /\ Ready(rpos, 4)
    /\ LET u == FromBE(Filled(rpos, 4))
           e == FullErr(rpos, 4)
       IN  Record("bool",
                  IF u \in {0, 1} \/ e # "none" THEN e ELSE "invalid",
                  <<IF u = 1 THEN 1 ELSE 0>>, rpos + Took(rpos, 4))

(* DecodeHyper: int64 of one ReadFull of 8 bytes *)
DecodeHyper ==
    /\ Reading({"hyper"})
    /\ Ready(rpos, 8)
    /\ Record("hyper", FullErr(rpos, 8),
              <<ToSigned(FromBE(Filled(rpos, 8)), W64)>>, rpos + Took(rpos, 8))

(* Mutant: a body of exactly maxLen bytes refused. *)
DecodeOpaqueAtMax ==
    /\ Reading({"opaque"})
    /\ LET max == sent[Cur].max
           e   == FullErr(rpos, 4)
           l   == FromBE(Filled(rpos, 4))
           p   == rpos + Took(rpos, 4)
       IN  /\ Ready(rpos, 4)
           /\ CASE e # "none" -> Record("opaque", e, <<>>, p)
                [] l = 0      -> Record("opaque", "none", <<>>, p)
                [] l >= max   -> Record("opaque", "length", <<>>, p)
                [] OTHER      ->
                     /\ Ready(p, RoundUp4(l))
                     /\ RecordAlloc("opaque", "none",
                                    SubSeq(Filled(p, RoundUp4(l)), 1, l),
                                    p + Took(p, RoundUp4(l)), RoundUp4(l))

(* DecodeOpaque(maxLen): the length word, then early returns for a read  *)
(* error, for l = 0 and for l > maxLen; otherwise one ReadFull of        *)
(* (l+3)&^3 bytes whose error is dropped, and buf[0:l] with a nil error. *)
DecodeOpaque ==
    /\ Reading({"opaque"})
    /\ LET max == sent[Cur].max
           e   == FullErr(rpos, 4)
           l   == FromBE(Filled(rpos, 4))
           p   == rpos + Took(rpos, 4)
       IN  /\ Ready(rpos, 4)
           /\ CASE e # "none" -> Record("opaque", e, <<>>, p)
                [] l = 0      -> Record("opaque", "none", <<>>, p)
                [] l > max    -> Record("opaque", "length", <<>>, p)
                [] OTHER      ->
                     /\ Ready(p, RoundUp4(l))
                     /\ RecordAlloc("opaque", "none",
                                    SubSeq(Filled(p, RoundUp4(l)), 1, l),
                                    p + Took(p, RoundUp4(l)), RoundUp4(l))

(* DecodeFixedOpaque(buf): ReadFull of len(buf) bytes, returning its     *)
(* error; then ReadFull of the ((n+3)&^3)-n padding bytes, if any.       *)
DecodeFixedOpaque ==
    /\ Reading({"fopaque"})
    /\ LET n  == Len(sent[Cur].val)
           e  == FullErr(rpos, n)
           p  == rpos + Took(rpos, n)
           pd == RoundUp4(n) - n
       IN  /\ Ready(rpos, n)
           /\ IF e # "none"
                THEN Record("fopaque", e, Filled(rpos, n), p)
                ELSE /\ Ready(p, pd)
                     /\ Record("fopaque", FullErr(p, pd), Filled(rpos, n),
                               p + Took(p, pd))

(***************************************************************************)
(* The composite codecs' Decode, each one call with its loop of element   *)
(* decodes; every loop returns at the first failed element.               *)
(***************************************************************************)
(* intCodec.Decode n times from offset p: DecodeInt stores int32(u) even  *)
(* when its read failed.                                                  *)
RECURSIVE ReadInts(_, _)
ReadInts(p, n) ==
    IF n = 0 THEN [val |-> <<>>, err |-> "none", pos |-> p]
    ELSE LET x == <<ToSigned(FromBE(Filled(p, 4)), W32)>>
             q == p + Took(p, 4)
             r == ReadInts(q, n - 1)
         IN  IF FullErr(p, 4) # "none" THEN [val |-> x, err |-> FullErr(p, 4), pos |-> q]
             ELSE [r EXCEPT !.val = x \o @]

(* mapCodec.Decode's loop: a key (uintCodec), then its value (intCodec),  *)
(* then SetMapIndex, so a repeated key keeps the value sent last.         *)
RECURSIVE ReadPairs(_, _, _)
ReadPairs(m, p, n) ==
    LET k  == FromBE(Filled(p, 4))
        q  == p + Took(p, 4)
        x  == ToSigned(FromBE(Filled(q, 4)), W32)
        q2 == q + Took(q, 4)
    IN  CASE n = 0                 -> [val |-> m, err |-> "none", pos |-> p]
          [] FullErr(p, 4) # "none" -> [val |-> m, err |-> FullErr(p, 4), pos |-> q]
          [] FullErr(q, 4) # "none" -> [val |-> m, err |-> FullErr(q, 4), pos |-> q2]
          [] OTHER                 -> ReadPairs((k :> x) @@ m, q2, n - 1)

(* arrayCodec.Decode: the destination's length of elements. *)
DecodeArray ==
    /\ Reading({"array"})
    /\ Ready(rpos, 4 * Len(sent[Cur].val))
    /\ LET r == ReadInts(rpos, Len(sent[Cur].val))
       IN  Record("array", r.err, r.val, r.pos)

(* sliceCodec.Decode: the count word, then early returns for a read error, *)
(* for l = 0 (a nil slice) and for l > maxlen; otherwise MakeSlice(l)      *)
(* before any element is read, and the elements into it.                  *)
DecodeSlice ==
    /\ Reading({"slice"})
    /\ Ready(rpos, 4)
    /\ LET e == FullErr(rpos, 4)
           l == FromBE(Filled(rpos, 4))
           p == rpos + Took(rpos, 4)
       IN  CASE e # "none"        -> Record("slice", e, <<>>, p)
             [] l = 0             -> Record("slice", "none", <<>>, p)
             [] l > sent[Cur].max -> Record("slice", "length", <<>>, p)
             [] OTHER ->
                  /\ Ready(p, 4 * l)
                  /\ LET r == ReadInts(p, l)
                     IN  RecordAlloc("slice", r.err, r.val \o Zeros(l - Len(r.val)),
                                     r.pos, l)

(* optCodec.Decode: the destination is set to nil, then DecodeBool; a     *)
(* present value goes to ptrCodec.Decode, which allocates a new int32 and *)
(* decodes into it.                                                        *)
DecodeOptional ==
    /\ Reading({"opt"})
    /\ Ready(rpos, 4)
    /\ LET u == FromBE(Filled(rpos, 4))
           e == FullErr(rpos, 4)
           p == rpos + Took(rpos, 4)
       IN  CASE e # "none"      -> Record("opt", e, <<>>, p)
             [] u \notin {0, 1} -> Record("opt", "invalid", <<>>, p)
             [] u = 0           -> Record("opt", "none", <<>>, p)
             [] OTHER ->
                  /\ Ready(p, 4)
                  /\ LET r == ReadInts(p, 1) IN RecordAlloc("opt", r.err, r.val, r.pos, 1)

(* Mutant: MakeMapWithSize(l) before the maxlen check. *)
DecodeMapAllocFirst ==
    /\ Reading({"map"})
    /\ Ready(rpos, 4)
    /\ LET e == FullErr(rpos, 4)
           l == FromBE(Filled(rpos, 4))
           p == rpos + Took(rpos, 4)
       IN  CASE e # "none"        -> Record("map", e, <<>>, p)
             [] l > sent[Cur].max -> RecordAlloc("map", "length", <<>>, p, l)
             [] OTHER ->
                  /\ Ready(p, 8 * l)
                  /\ LET r == ReadPairs(<<>>, p, l)
                     IN  RecordAlloc("map", r.err, r.val, r.pos, l)

(* mapCodec.Decode: the count word, a read error or l > maxlen returns    *)
(* early; otherwise MakeMapWithSize(l) and l key/value pairs into it.     *)
DecodeMap ==
    /\ Reading({"map"})
    /\ Ready(rpos, 4)
    /\ LET e == FullErr(rpos, 4)
           l == FromBE(Filled(rpos, 4))
           p == rpos + Took(rpos, 4)
       IN  CASE e # "none"        -> Record("map", e, <<>>, p)
             [] l > sent[Cur].max -> Record("map", "length", <<>>, p)
             [] OTHER ->
                  /\ Ready(p, 8 * l)
                  /\ LET r == ReadPairs(<<>>, p, l)
                     IN  RecordAlloc("map", r.err, r.val, r.pos, l)

(* complex64Codec.Decode: DecodeFloat of each part, each one ReadFull of  *)
(* n bytes; it returns at the first error, and stores the value only when *)
(* both reads succeeded (every other primitive codec stores what it read). *)
DecodeComplex(k, n) ==
    /\ Reading({k})
    /\ Ready(rpos, n)
    /\ LET q == rpos + Took(rpos, n)
           e == FullErr(q, n)
       IN  IF FullErr(rpos, n) # "none" THEN Record(k, FullErr(rpos, n), <<>>, q)
           ELSE /\ Ready(q, n)
                /\ Record(k, e,
                          IF e = "none" THEN <<FromBE(Filled(rpos, n)), FromBE(Filled(q, n))>>
                          ELSE <<>>,
                          q + Took(q, n))
DecodeComplex64 == DecodeComplex("c64", 4)
(* complex128Codec.Decode: the same over DecodeDouble. *)
DecodeComplex128 == DecodeComplex("c128", 8)

(***************************************************************************)
(* The streaming variant: OpaqueReader(maxLen) hands the caller an        *)
(* opaqueReader, a LimitedReader of l bytes with padLen of padding; the   *)
(* caller reads chunks of it and must Close it.                           *)
(***************************************************************************)
OpaqueReader ==
    /\ Reading({"stream"})
    /\ Ready(rpos, 4)
    /\ LET e == FullErr(rpos, 4)
           l == FromBE(Filled(rpos, 4))
           p == rpos + Took(rpos, 4)
       IN  CASE e # "none"         -> Record("stream", e, <<>>, p)
             [] l > sent[Cur].max -> Record("stream", "length", <<>>, p)
             [] OTHER ->
                  /\ sub' = [n |-> l, padLen |-> RoundUp4(l) - l, body |-> <<>>]
                  /\ rpos' = p
                  /\ UNCHANGED <<out, sent, ends, cut, got>>

(* opaqueReader.Read: LimitedReader.Read caps the buffer at N and reads  *)
(* whatever the source has, at least one byte (it blocks until then).    *)
SubRead(c) ==
    /\ sub # None
    /\ c \in 1..sub.n
    /\ rpos + c <= Avail
    /\ sub' = [sub EXCEPT !.n = @ - c, !.body = @ \o SubSeq(out, rpos + 1, rpos + c)]
    /\ rpos' = rpos + c
    /\ UNCHANGED <<out, sent, ends, cut, got>>

(* opaqueReader.Close: N += padLen, then io.Copy to Discard, which stops *)
(* at N = 0 or at the source's io.EOF and reports nil for the latter.    *)
Close ==
    /\ sub # None
    /\ Ready(rpos, sub.n + sub.padLen)
    /\ Record("stream", "none", sub.body, rpos + Took(rpos, sub.n + sub.padLen))

Writer == \E it \in Schema : Write(it)
Reader ==
    \/ DecodeUnsignedInt \/ DecodeInt \/ DecodeBool \/ DecodeHyper
    \/ DecodeOpaque \/ DecodeFixedOpaque
    \/ OpaqueReader \/ (\E c \in 1..4 : SubRead(c)) \/ Close
    \/ DecodeArray \/ DecodeSlice \/ DecodeOptional \/ DecodeMap
    \/ DecodeComplex64 \/ DecodeComplex128

Next ==
    \/ Writer
    \/ Reader
    \/ \E n \in 0..Len(out) : Cut(n)

(* The reader goroutine runs whenever a read can return. *)
Spec == Init /\ [][Next]_vars /\ WF_vars(Reader)

-----------------------------------------------------------------------------
TypeOK ==
    /\ out \in Seq(0..Radix - 1)
    /\ sent \in Seq(Schema) /\ ends \in Seq(Nat) /\ Len(ends) = Len(sent)
    /\ cut \in Nat \cup {None}
    /\ rpos \in 0..Avail
    /\ sub \in {None} \cup [n : Nat, padLen : 0..3, body : Seq(0..Radix - 1)]
    /\ \A j \in DOMAIN got : ResultOK(got[j])
    /\ Len(got) <= Len(sent)

(* Round trip: an item whose bytes all reached the reader and that the   *)
(* Decode* call reports as read without error is the value the Encode*   *)
(* call wrote (for an opaqueReader, the caller got a prefix of it), and  *)
(* the reader stands exactly where the writer's next item starts - the   *)
(* length prefixes and the padding on both sides agree.                  *)
Agrees(r, it) ==
    IF it.kind = "stream" THEN IsPrefix(r.val, it.val) ELSE r.val = it.val
CompleteItemsRoundTrip ==
    \A j \in DOMAIN got :
        got[j].err = "none" /\ ends[j] <= Avail =>
            got[j].pos = ends[j] /\ Agrees(got[j], sent[j])

(* Every error a Decode* call returns has its cause on the wire: EOF     *)
(* only for an item whose bytes did not all arrive, LengthError only for *)
(* a body longer than maxLen, InvalidValue only for a bool that is not   *)
(* 0 or 1.                                                                *)
Explained(r, j) ==
    CASE r.err = "eof"     -> ends[j] > Avail
      [] r.err = "length"  -> Size(sent[j].val) > sent[j].max
      [] r.err = "invalid" -> r.as = "bool" /\ sent[j].val[1] \notin {0, 1}
      [] OTHER             -> TRUE
NoSpuriousErrors == \A j \in DOMAIN got : Explained(got[j], j)

(* The writer's and the reader's length checks agree: a value that the  *)
(* writer's opaqueSliceCodec, varStringCodec, sliceCodec or mapCodec let *)
(* through under the same maxlen as the reader's is never refused by the *)
(* reader's DecodeOpaque, sliceCodec or mapCodec with a LengthError.     *)
LimitsAgree ==
    \A j \in DOMAIN got : sent[j].wmax = sent[j].max => got[j].err # "length"

(* Whatever count word arrives, even from a peer with no limit, a decoder *)
(* allocates room for at most its codec's maxlen elements (for an opaque, *)
(* the maxlen rounded up to a word) before reading the body.             *)
Room(it) == IF it.kind = "opaque" THEN RoundUp4(it.max) ELSE it.max
AllocationBounded ==
    \A j \in DOMAIN got : sent[j].max # None => got[j].alloc <= Room(sent[j])

(* Spec 4.1: a read that hits premature end-of-input surfaces that as an *)
(* error - no Decode* call reports success for an item cut short.        *)
TruncationSurfaced ==
    \A j \in DOMAIN got : got[j].err = "none" => ends[j] <= Avail

(* Every item the writer sends is eventually decoded, unless the reader *)
(* has already failed: no read blocks once its bytes are there.          *)
ReaderKeepsUp ==
    \A n \in 1..MaxItems : Len(sent) >= n ~> (Len(got) >= n \/ Failed)

====
