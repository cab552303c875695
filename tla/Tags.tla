-------------------------------- MODULE Tags --------------------------------
(***************************************************************************)
(* The tag layer (internal/tags) and its two users: the codec builders,    *)
(* which read one layer of a tag each (buildCodec and the make*Codec       *)
(* functions), and makeStructCodec, which parses the tags of a struct's    *)
(* fields one at a time, classifies the struct as a struct or a union and  *)
(* builds the union's case table.                                          *)
(*                                                                         *)
(* A tag is the byte string the code builds (XDRTag): a kind byte, then a  *)
(* 32-bit value for kinds 0x80-0xBF, or a 32-bit count and that many       *)
(* values for kinds 0xC0 and up.  A Go type is the sequence of the kinds   *)
(* of its layers, outermost first (<<"ptr", "slice", "uint8">> is         *)
(* *[]byte).  A struct tag is the sequence of its "/"-separated tokens  *)
(* (SkipTag for "-").                                                                 *)
(***************************************************************************)
EXTENDS Integers, Sequences, SequencesExt, FiniteSets

CONSTANTS
    Structs,    \* the structs makeStructCodec may be given: sequences of
                \* fields [ty |-> layer kinds, tag |-> tokens]
    None

VARIABLES
    st,         \* the struct type t being built
    i,          \* the loop index i (1-based)
    isUnion,    \* "maybe", "not" or "in"
    f,          \* the field that decided isUnion (0 if none yet)
    tag,        \* its parsed tag
    phase,      \* "classify", "struct", "union" or "done"
    result,     \* what makeStructCodec returned, None while it runs
    xts,        \* the parsed tag of every field parsed so far
    cases,      \* the union's cases map, as a set of <<value, field>> pairs
    defaultCase,\* the union's default field, or 0 for -1
    calls       \* the <<type, tag>> getCodec lookups made so far

vars == <<st, i, isUnion, f, tag, phase, result, xts, cases, defaultCase, calls>>

(* XDRTagKind values: iota within each range. *)
Noop == 0
Skip == 1
Opt == 2
Opaque == 3
UnionSwitch == 4
UnionDefault == 5
LenK == 134
MaxLenK == 135
UnionCases == 200

Containers == {"array", "map", "ptr", "slice"}
Primitives == {"bool", "int8", "uint8", "int32", "uint32", "int64"}

(***************************************************************************)
(* The byte encoding of tags.                                              *)
(***************************************************************************)
U32(v) == <<(v \div 2^24) % 256, (v \div 2^16) % 256, (v \div 2^8) % 256, v % 256>>

(* valAt: the 32-bit value at byte offset offs (0-based, as in Go) *)
ValAt(t, offs) ==
    ((t[offs + 1] * 256 + t[offs + 2]) * 256 + t[offs + 3]) * 256 + t[offs + 4]

Empty(t) == t = <<>>
Kind(t) == IF Len(t) > 0 THEN t[1] ELSE Noop

ThisLen(t) ==
    CASE Len(t) = 0 -> 0
      [] t[1] < 128 -> 1
      [] t[1] < 192 -> 5
      [] OTHER      -> 5 + ValAt(t, 1) * 4

TagNext(t) == IF Len(t) = ThisLen(t) THEN <<>> ELSE SubSeq(t, ThisLen(t) + 1, Len(t))
OnlyValue(t) == ValAt(t, 1)
Value(t, n) == ValAt(t, 1 + 4 * n)
(* ValueRange: [lo, hi) of the indexes Value accepts *)
ValueRange(t) ==
    CASE t[1] < 128 -> <<0, 0>>
      [] t[1] < 192 -> <<0, 1>>
      [] OTHER      -> <<1, 1 + ValAt(t, 1)>>
Values(t) == LET r == ValueRange(t) IN [j \in 1..(r[2] - r[1]) |-> Value(t, r[1] + j - 1)]

(* Append: valueless kinds take no values, single-valued kinds one, and   *)
(* multi-valued kinds a count followed by the values.                     *)
AppendTag(t, k, vals) ==
    CASE k < 128 -> Append(t, k)
      [] k < 192 -> t \o <<k>> \o U32(vals[1])
      [] OTHER   -> t \o <<k>> \o U32(Len(vals)) \o
                    FoldLeft(LAMBDA acc, v : acc \o U32(v), <<>>, vals)

PrependTag(t, k, vals) == AppendTag(<<>>, k, vals) \o t

(* Mutant: mark moved past every entry, Noop or not. *)
RECURSIVE TrimEndKeepNoop(_, _, _)
TrimEndKeepNoop(ct, e, mark) ==
    IF Empty(ct) THEN mark
    ELSE TrimEndKeepNoop(TagNext(ct), e + ThisLen(ct), e + ThisLen(ct))

(* Trimmed: cut after the last entry whose kind is not Noop. *)
RECURSIVE TrimEnd(_, _, _)
TrimEnd(ct, e, mark) ==
    IF Empty(ct) THEN mark
    ELSE LET e2 == e + ThisLen(ct)
         IN  TrimEnd(TagNext(ct), e2, IF Kind(ct) # Noop THEN e2 ELSE mark)
Trimmed(t) == SubSeq(t, 1, TrimEnd(t, 0, 0))

(* Reference reading of the layout described above XDRTag: the list of *)
(* (kind, values) entries a tag holds, and their packing.              *)
RECURSIVE Entries(_)
Entries(t) ==
    IF Empty(t) THEN <<>>
    ELSE <<[k |-> Kind(t), vals |-> Values(t)]>> \o Entries(TagNext(t))
Pack(es) == FoldLeft(LAMBDA acc, e : AppendTag(acc, e.k, e.vals), <<>>, es)

(***************************************************************************)
(* ParseTag.  A token is [k |-> kind, v |-> values]: kinds "", "opt",      *)
(* "opaque", "len", "maxlen", "bogus" (any unknown word) and the union     *)
(* words "u_switch", "u_false", "u_true", "u_default", "u_vals" (a list    *)
(* of values) and "u_bad" (a list that does not parse).  The type cursor   *)
(* is the remaining suffix of the field's layer kinds.                     *)
(***************************************************************************)
(* The whole tag "-" *)
SkipTag == <<[k |-> "-", v |-> <<>>]>>

UnionWords == {"u_switch", "u_false", "u_true", "u_default", "u_vals", "u_bad"}

ValidForUnionSwitch(k) == k \in {"bool", "int8", "int32", "int64", "uint8", "uint32"}
CanBeOpt(k) == k \in {"iface", "ptr"}

Fail(xt) == [err |-> TRUE, xt |-> xt]
Ok(xt, ty) == [err |-> FALSE, xt |-> xt, ty |-> ty]

(* One token applied at the cursor: the tag it appends and the cursor after. *)
LayerStep(p, ty, xt) ==
    LET k == ty[1] IN
    CASE p.k = "" -> Ok(AppendTag(xt, Noop, <<>>), ty)
      [] p.k = "opt" ->
            IF CanBeOpt(k) THEN Ok(AppendTag(xt, Opt, <<>>), ty) ELSE Fail(xt)
      [] p.k = "opaque" ->
            LET arr == k \in {"array", "slice"}
                ty2 == IF arr THEN Tail(ty) ELSE ty
                xt2 == IF arr THEN AppendTag(xt, Noop, <<>>) ELSE xt
            IN  IF ty2[1] \in {"int8", "uint8"}
                THEN Ok(AppendTag(xt2, Opaque, <<>>), ty2) ELSE Fail(xt2)
      [] p.k = "len" ->
            IF k \in {"string", "slice"} THEN Ok(AppendTag(xt, LenK, p.v), ty)
            ELSE Fail(xt)
      [] p.k = "maxlen" ->
            IF k \in {"string", "slice"} THEN Ok(AppendTag(xt, MaxLenK, p.v), ty)
            ELSE Fail(xt)
      [] OTHER -> Fail(xt)

(* The loop over the layer tokens, descending one type level between two. *)
RECURSIVE ParseLayers(_, _, _)
ParseLayers(parts, ty, xt) ==
    IF parts = <<>> THEN [err |-> FALSE, xt |-> xt]
    ELSE LET r == LayerStep(Head(parts), ty, xt) IN
         CASE r.err -> r
           [] Len(parts) = 1 -> [err |-> FALSE, xt |-> r.xt]
           [] r.ty[1] \in Containers -> ParseLayers(Tail(parts), Tail(r.ty), r.xt)
           [] OTHER -> Fail(r.xt)

(* Mutant: a tag without a union word leaves isUnion unbound. *)
UnionHeadNoBind(u, ty, isU) ==
    CASE u.k \notin UnionWords /\ isU = "in" -> [err |-> TRUE, xt |-> <<>>, isU |-> isU]
      [] u.k \notin UnionWords -> [err |-> FALSE, xt |-> <<>>, isU |-> isU]
      [] u.k = "u_switch" ->
            IF isU # "maybe" \/ ~ValidForUnionSwitch(ty[1])
            THEN [err |-> TRUE, xt |-> <<>>, isU |-> isU]
            ELSE [err |-> FALSE, xt |-> AppendTag(<<>>, UnionSwitch, <<>>), isU |-> "in"]
      [] isU # "in" \/ u.k = "u_bad" -> [err |-> TRUE, xt |-> <<>>, isU |-> isU]
      [] u.k = "u_false" -> [err |-> FALSE, xt |-> AppendTag(<<>>, UnionCases, <<0>>), isU |-> isU]
      [] u.k = "u_true" -> [err |-> FALSE, xt |-> AppendTag(<<>>, UnionCases, <<1>>), isU |-> isU]
      [] u.k = "u_default" -> [err |-> FALSE, xt |-> AppendTag(<<>>, UnionDefault, <<>>), isU |-> isU]
      [] OTHER -> [err |-> FALSE, xt |-> AppendTag(<<>>, UnionCases, u.v), isU |-> isU]

(* The union word, if any: the tag it starts and the new isUnion. *)
UnionHead(u, ty, isU) ==
    CASE u.k \notin UnionWords /\ isU = "in" -> [err |-> TRUE, xt |-> <<>>, isU |-> isU]
      [] u.k \notin UnionWords -> [err |-> FALSE, xt |-> <<>>, isU |-> "not"]
      [] u.k = "u_switch" ->
            IF isU # "maybe" \/ ~ValidForUnionSwitch(ty[1])
            THEN [err |-> TRUE, xt |-> <<>>, isU |-> isU]
            ELSE [err |-> FALSE, xt |-> AppendTag(<<>>, UnionSwitch, <<>>), isU |-> "in"]
      [] isU # "in" \/ u.k = "u_bad" -> [err |-> TRUE, xt |-> <<>>, isU |-> isU]
      [] u.k = "u_false" -> [err |-> FALSE, xt |-> AppendTag(<<>>, UnionCases, <<0>>), isU |-> isU]
      [] u.k = "u_true" -> [err |-> FALSE, xt |-> AppendTag(<<>>, UnionCases, <<1>>), isU |-> isU]
      [] u.k = "u_default" -> [err |-> FALSE, xt |-> AppendTag(<<>>, UnionDefault, <<>>), isU |-> isU]
      [] OTHER -> [err |-> FALSE, xt |-> AppendTag(<<>>, UnionCases, u.v), isU |-> isU]

(* Mutant: the result returned untrimmed. *)
ParseTagUntrimmed(ty, stag, isU) ==
    IF stag = SkipTag THEN [err |-> FALSE, xt |-> <<Skip>>, isU |-> isU]
    ELSE LET h == UnionHead(stag[1], ty, isU)
             r == ParseLayers(IF stag[1].k \in UnionWords THEN Tail(stag) ELSE stag, ty, h.xt)
         IN  IF h.err THEN h ELSE [err |-> r.err, xt |-> r.xt, isU |-> h.isU]

ParseTag(ty, stag, isU) ==
    IF stag = SkipTag THEN [err |-> FALSE, xt |-> <<Skip>>, isU |-> isU]
    ELSE LET h == UnionHead(stag[1], ty, isU)
             r == ParseLayers(IF stag[1].k \in UnionWords THEN Tail(stag) ELSE stag, ty, h.xt)
         IN  IF h.err THEN h ELSE [err |-> r.err, xt |-> Trimmed(r.xt), isU |-> h.isU]

(***************************************************************************)
(* getCodec, buildCodec and the make*Codec builders, one type layer at a   *)
(* time.  A codec is [d |-> description, calls |-> getCodec lookups].  The *)
(* description is a sequence of [c, n] records, outer layer first, n a     *)
(* length or limit.  A builder that refuses its tag yields "rejected"; a   *)
(* tag on a type that admits none, "badtag"; a type with no codec (an      *)
(* interface), "badtype".  Lookups are <<type, tag>> pairs; map keys are   *)
(* int32 in every struct of the model.                                     *)
(***************************************************************************)
Leaf(c, n) == [d |-> <<[c |-> c, n |-> n]>>, calls |-> {}]
Wrap(c, n, inner) == [d |-> <<[c |-> c, n |-> n]>> \o inner.d, calls |-> inner.calls]
Unbounded == -1     \* ^uint32(0)

(* Mutant: makeOptCodec looking up the element tag without Trimmed. *)
OptTagUntrimmed(key) == PrependTag(TagNext(key), Noop, <<>>)
OptTag(key) == Trimmed(PrependTag(TagNext(key), Noop, <<>>))

LimitOf(key) == IF Kind(key) = MaxLenK THEN OnlyValue(key) ELSE Unbounded

MakeStringCodec(key) ==
    CASE ~Empty(TagNext(key)) -> Leaf("rejected", 0)
      [] Kind(key) = LenK -> Leaf("fstring", OnlyValue(key))
      [] Kind(key) \in {MaxLenK, Noop} -> Leaf("vstring", LimitOf(key))
      [] OTHER -> Leaf("rejected", 0)

RECURSIVE GetCodec(_, _), Build(_, _), MakeOptCodec(_, _), MakePtrCodec(_, _),
          MakeArrayCodec(_, _), MakeSliceCodec(_, _), MakeMapCodec(_, _)

GetCodec(ty, key) ==
    LET b == Build(ty, key) IN [d |-> b.d, calls |-> {<<ty, key>>} \cup b.calls]

Build(ty, key) ==
    CASE Kind(key) = Opt -> MakeOptCodec(ty, key)
      [] ty[1] = "ptr" -> MakePtrCodec(ty, key)
      [] ty[1] = "string" -> MakeStringCodec(key)
      [] ty[1] = "array" -> MakeArrayCodec(ty, key)
      [] ty[1] = "slice" -> MakeSliceCodec(ty, key)
      [] ty[1] = "map" -> MakeMapCodec(ty, key)
      [] ~Empty(key) -> Leaf("badtag", 0)
      [] ty[1] \in Primitives \cup {"struct"} -> Leaf(ty[1], 0)
      [] OTHER -> Leaf("badtype", 0)

MakeOptCodec(ty, key) == Wrap("opt", 0, GetCodec(ty, OptTag(key)))

MakePtrCodec(ty, key) == Wrap("ptr", 0, GetCodec(Tail(ty), TagNext(key)))

MakeArrayCodec(ty, key) ==
    CASE Kind(key) # Noop -> Leaf("rejected", 0)
      [] Kind(TagNext(key)) = Opaque -> Leaf("fopaque", 0)
      [] OTHER -> Wrap("array", 0, GetCodec(Tail(ty), TagNext(key)))

MakeSliceCodec(ty, key) ==
    CASE Kind(key) \notin {MaxLenK, Noop} -> Leaf("rejected", 0)
      [] Kind(TagNext(key)) = Opaque -> Leaf("vopaque", LimitOf(key))
      [] OTHER -> Wrap("slice", LimitOf(key), GetCodec(Tail(ty), TagNext(key)))

MakeMapCodec(ty, key) ==
    IF Kind(key) \notin {MaxLenK, Noop} THEN Leaf("rejected", 0)
    ELSE LET kc == GetCodec(<<"int32">>, <<>>)
             vc == GetCodec(Tail(ty), TagNext(key))
         IN  [d |-> <<[c |-> "map", n |-> LimitOf(key)]>> \o vc.d,
              calls |-> kc.calls \cup vc.calls]

(***************************************************************************)
(* makeStructCodec.  Each loop iteration is one action; makeField is the  *)
(* getCodec lookups of the field's type under its tag.                     *)
(***************************************************************************)
N == Len(st)
Fld(j) == st[j]
Parsed(j) == ParseTag(Fld(j).ty, Fld(j).tag, isUnion)
MakeField(j, t) == GetCodec(Fld(j).ty, t).calls

TypeOK ==
    /\ st \in Structs
    /\ i \in 1..N + 1
    /\ isUnion \in {"maybe", "not", "in"}
    /\ f \in 0..N
    /\ tag \in Seq(0..255)
    /\ phase \in {"classify", "struct", "union", "done"}
    /\ result \in {None, "empty", "struct", "union", "error", "panic"}
    /\ xts \in [1..N -> Seq(0..255) \cup {None}]
    /\ cases \subseteq Nat \X (1..N)
    /\ defaultCase \in 0..N
    /\ \A c \in calls : c[2] \in Seq(0..255)

Init ==
    /\ st \in Structs
    /\ i = 1
    /\ isUnion = "maybe"
    /\ f = 0
    /\ tag = <<>>
    /\ phase = "classify"
    /\ result = None
    /\ xts = [j \in 1..N |-> None]
    /\ cases = {}
    /\ defaultCase = 0
    /\ calls = {}

Return(r) == phase' = "done" /\ result' = r

(* Any of the three loops: a tag that does not parse returns an errorCodec. *)
ParseError ==
    /\ phase \in {"classify", "struct", "union"}
    /\ i <= N
    /\ phase = "classify" => isUnion = "maybe"
    /\ Parsed(i).err
    /\ Return("error")
    /\ UNCHANGED <<st, i, isUnion, f, tag, xts, cases, defaultCase, calls>>

(* Mutant: f taken after the loop's i++. *)
ClassifyAfterIncrement ==
    /\ phase = "classify"
    /\ i <= N /\ isUnion = "maybe"
    /\ LET r == Parsed(i) IN
       /\ ~r.err
       /\ isUnion' = r.isU
       /\ f' = i + 1 /\ tag' = r.xt
       /\ xts' = [xts EXCEPT ![i] = r.xt]
    /\ i' = i + 1
    /\ UNCHANGED <<st, phase, result, cases, defaultCase, calls>>

(* The classifying loop: parse, remember f and tag, i++. *)
Classify ==
    /\ phase = "classify"
    /\ i <= N /\ isUnion = "maybe"
    /\ LET r == Parsed(i) IN
       /\ ~r.err
       /\ isUnion' = r.isU
       /\ f' = i /\ tag' = r.xt
       /\ xts' = [xts EXCEPT ![i] = r.xt]
    /\ i' = i + 1
    /\ UNCHANGED <<st, phase, result, cases, defaultCase, calls>>

LoopDone == phase = "classify" /\ (i > N \/ isUnion # "maybe")

EmptyStruct ==
    /\ LoopDone /\ isUnion = "maybe"
    /\ Return("empty")
    /\ UNCHANGED <<st, i, isUnion, f, tag, xts, cases, defaultCase, calls>>

StartStruct ==
    /\ LoopDone /\ isUnion = "not"
    /\ phase' = "struct"
    /\ calls' = calls \cup MakeField(f, tag)
    /\ UNCHANGED <<st, i, isUnion, f, tag, result, xts, cases, defaultCase>>

(* The switch kind: only int32, uint32 and bool have one. *)
StartUnion ==
    /\ LoopDone /\ isUnion = "in"
    /\ IF Fld(f).ty[1] \in {"int32", "uint32", "bool"}
       THEN /\ phase' = "union"
            /\ calls' = calls \cup MakeField(f, TagNext(tag))
            /\ UNCHANGED result
       ELSE Return("panic") /\ UNCHANGED calls
    /\ UNCHANGED <<st, i, isUnion, f, tag, xts, cases, defaultCase>>

SkipField ==
    /\ phase \in {"struct", "union"}
    /\ i <= N
    /\ ~Parsed(i).err /\ Kind(Parsed(i).xt) = Skip
    /\ xts' = [xts EXCEPT ![i] = Parsed(i).xt]
    /\ i' = i + 1
    /\ UNCHANGED <<st, isUnion, f, tag, phase, result, cases, defaultCase, calls>>

StructField ==
    /\ phase = "struct"
    /\ i <= N
    /\ LET r == Parsed(i) IN
       /\ ~r.err /\ Kind(r.xt) # Skip
       /\ xts' = [xts EXCEPT ![i] = r.xt]
       /\ calls' = calls \cup MakeField(i, r.xt)
    /\ i' = i + 1
    /\ UNCHANGED <<st, isUnion, f, tag, phase, result, cases, defaultCase>>

(* A value already in cases, or repeated within the list, is a duplicate. *)
Duplicated(vals) ==
    \E a \in 1..Len(vals) :
        \/ \E c \in cases : c[1] = vals[a]
        \/ \E b \in 1..(a - 1) : vals[b] = vals[a]

(* Mutant: the duplicate check dropped. *)
UnionCasesFieldNoDupCheck ==
    /\ phase = "union"
    /\ i <= N
    /\ LET r == Parsed(i) IN
       /\ ~r.err /\ Kind(r.xt) = UnionCases
       /\ xts' = [xts EXCEPT ![i] = r.xt]
       /\ calls' = calls \cup MakeField(i, TagNext(r.xt))
       /\ cases' = cases \cup {<<v, i>> : v \in Range(Values(r.xt))}
       /\ i' = i + 1
       /\ UNCHANGED <<phase, result>>
    /\ UNCHANGED <<st, isUnion, f, tag, defaultCase>>

UnionCasesField ==
    /\ phase = "union"
    /\ i <= N
    /\ LET r == Parsed(i) IN
       /\ ~r.err /\ Kind(r.xt) = UnionCases
       /\ xts' = [xts EXCEPT ![i] = r.xt]
       /\ calls' = calls \cup MakeField(i, TagNext(r.xt))
       /\ IF Duplicated(Values(r.xt))
          THEN Return("error") /\ UNCHANGED <<cases, i>>
          ELSE /\ cases' = cases \cup {<<v, i>> : v \in Range(Values(r.xt))}
               /\ i' = i + 1
               /\ UNCHANGED <<phase, result>>
    /\ UNCHANGED <<st, isUnion, f, tag, defaultCase>>

UnionDefaultField ==
    /\ phase = "union"
    /\ i <= N
    /\ LET r == Parsed(i) IN
       /\ ~r.err /\ Kind(r.xt) = UnionDefault
       /\ xts' = [xts EXCEPT ![i] = r.xt]
       /\ calls' = calls \cup MakeField(i, TagNext(r.xt))
       /\ IF defaultCase # 0
          THEN Return("error") /\ UNCHANGED <<defaultCase, i>>
          ELSE /\ defaultCase' = i
               /\ i' = i + 1
               /\ UNCHANGED <<phase, result>>
    /\ UNCHANGED <<st, isUnion, f, tag, cases>>

Finish ==
    /\ phase \in {"struct", "union"}
    /\ i > N
    /\ Return(phase)
    /\ UNCHANGED <<st, i, isUnion, f, tag, xts, cases, defaultCase, calls>>

Next ==
    \/ ParseError \/ Classify \/ EmptyStruct \/ StartStruct \/ StartUnion
    \/ SkipField \/ StructField \/ UnionCasesField \/ UnionDefaultField
    \/ Finish

Spec == Init /\ [][Next]_vars

(***************************************************************************)
(* Properties.  The references below read the struct's source tags the    *)
(* way section 4.2 and 4.4 of the specification describe them.            *)
(***************************************************************************)
IsSkip(j) == Fld(j).tag = SkipTag
Word(j) == IF IsSkip(j) THEN "" ELSE Fld(j).tag[1].k
FirstUnskipped == {j \in 1..N : ~IsSkip(j) /\ \A j2 \in 1..(j - 1) : IsSkip(j2)}
CaseValues(j) ==
    CASE Word(j) = "u_true" -> {1}
      [] Word(j) = "u_false" -> {0}
      [] Word(j) = "u_vals" -> Range(Fld(j).tag[1].v)
      [] OTHER -> {}
CaseCount(j) == IF Word(j) = "u_vals" THEN Len(Fld(j).tag[1].v) ELSE Cardinality(CaseValues(j))

(* Every tag ParseTag produced reads back, entry by entry with Kind,      *)
(* ValueRange/Value and Next, as the entries it packs, and ends in an     *)
(* entry other than Noop (Append, thisLen, Next and Trimmed agree).       *)
TagLayout ==
    \A j \in 1..N : xts[j] # None =>
        LET es == Entries(xts[j]) IN
        /\ Pack(es) = xts[j]
        /\ es # <<>> => es[Len(es)].k # Noop

(* The record is classified as section 4.4 says: it is a union exactly    *)
(* when its first non-skipped field carries union:switch, and empty when  *)
(* every field is skipped (the classifying loop and ParseTag's isUnion).  *)
ClassifiedAsSpec ==
    result \in {"empty", "struct", "union"} =>
        /\ (result = "empty") <=> FirstUnskipped = {}
        /\ (result = "union") <=> \E j \in FirstUnskipped : Word(j) = "u_switch"

(* A union that is built maps each case value to the one arm declaring    *)
(* it, and has as default the one union:default arm; a union with a       *)
(* repeated case value or two defaults is refused (makeStructCodec's     *)
(* cases and defaultCase).                                                 *)
UnionTableMatchesTags ==
    result = "union" =>
        /\ cases = UNION {{<<v, j>> : v \in CaseValues(j)} : j \in {j2 \in 1..N : ~IsSkip(j2)}}
        /\ \A j1, j2 \in 1..N : j1 # j2 /\ ~IsSkip(j1) /\ ~IsSkip(j2) =>
              CaseValues(j1) \cap CaseValues(j2) = {}
        /\ \A j \in 1..N : ~IsSkip(j) => CaseCount(j) = Cardinality(CaseValues(j))
        /\ {j \in 1..N : Word(j) = "u_default"} = IF defaultCase = 0 THEN {} ELSE {defaultCase}

(* Tags are canonical cache keys (section 4.2): two getCodec lookups of   *)
(* one type that build the same working codec use the same tag, so the    *)
(* registry never holds two codecs for one schema (makeOptCodec's         *)
(* Trimmed, ParseTag's Trimmed).                                           *)
Working(c) == \A x \in Range(Build(c[1], c[2]).d) : x.c \notin {"rejected", "badtag", "badtype"}
CanonicalLookups ==
    \A a, b \in calls :
        a[1] = b[1] /\ Working(a) /\ Build(a[1], a[2]).d = Build(b[1], b[2]).d => a[2] = b[2]

(* A layer modifier ParseTag accepts for a string, array, slice or map    *)
(* layer is one that layer's builder accepts (the XDRTag doc: len applies  *)
(* to a slice or string, "opt/len:4" on *[]byte).                          *)
AcceptedTagsCompile ==
    \A c \in calls : \A x \in Range(Build(c[1], c[2]).d) : x.c # "rejected"

(* Every tag section 4.2 allows parses: modifiers fit their layers (len   *)
(* on strings and slices, maxlen on strings, slices and maps, opt on      *)
(* pointers and interfaces, opaque on bytes or arrays/slices of bytes).    *)
RECURSIVE SpecLayers(_, _)
SpecLayers(parts, ty) ==
    parts = <<>> \/
    LET p == Head(parts)  k == ty[1]
        byteArr == k \in {"array", "slice"} /\ ty[2] \in {"int8", "uint8"}
        fits == CASE p.k = "" -> TRUE
                  [] p.k = "opt" -> k \in {"ptr", "iface"}
                  [] p.k = "opaque" -> k \in {"int8", "uint8"} \/ byteArr
                  [] p.k = "len" -> k \in {"string", "slice"}
                  [] p.k = "maxlen" -> k \in {"string", "slice", "map"}
                  [] OTHER -> FALSE
        ty2 == IF p.k = "opaque" /\ byteArr THEN Tail(ty) ELSE ty
    IN  /\ fits
        /\ Len(parts) > 1 => ty2[1] \in Containers /\ SpecLayers(Tail(parts), Tail(ty2))
SpecAllows(j) ==
    \/ IsSkip(j)
    \/ /\ Word(j) \notin UnionWords
       /\ SpecLayers(Fld(j).tag, Fld(j).ty)
SpecTagsAccepted ==
    result = "error" => \E j \in 1..N : ~SpecAllows(j)

====
