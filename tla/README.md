# TLA+ models of go-onc/xdr

This directory holds TLA+ models of the XDR (RFC 4506) codec library under
`src/`, the TLC configurations that check them, and `PROJECT.json`, which
records the components, the runs, the mutants, the source map, the findings
and the hazards.

## 1. Inventory

### Components and their state

| Component | Source | State |
|---|---|---|
| Coder registry | `internal/coder/coder.go` 35-158, `unnamed/part_007` (deferredCodec), `part_005`/`part_012` (toXCodec) | `knownCodecs` (a sync.Map from (type, encoded tag) to codec) and `knownBaseCodecs` (a sync.Map from type to codec). Each `deferredCodec` placeholder holds `real` (an atomic.Value) and a WaitGroup. |
| Codec construction | `coder.go` 160-231, `part_009` makeStructCodec, `part_010`/`part_011` makeField | None of its own. It calls `getCodec` for every child type, so it re-enters the registry recursively. |
| Wire encoder | `part_013` 175-398 | The `io.Writer`, a scratch buffer, the 4-slot codec cache and its slot index. Encoders are pooled with sync.Pool. |
| Wire decoder | `part_013` 1-174 | The `io.Reader`. Decoders are pooled with sync.Pool. |
| opaqueReader | `internal/coder/opaquereader.go` | A LimitedReader (`N` bytes left) and `padLen`. |
| Tag parser | `part_014` | XDRTag, a byte string of (kind, value count, values). ParseTag turns struct tags into it. Immutable. |
| Struct/union codecs | `part_009`, `part_010`, `part_011` | Field lists, the case map, the default arm and the switch kind. Immutable once built. |
| Container codecs | `part_003` (array/slice), `part_004` (map), `part_008` (string), `part_006`/`codec_ptr.go` (pointer, optional) | Length and maxlen limits. Immutable. |
| Primitive codecs | `codec_primitive.go` | None. |
| Errors, public API | `internal/errors`, `utils.go`, `part_001`, `part_002` | Error values, a default Coder and interface declarations. |

### How the components interact

- `Encoder.Encode` looks the type up in the encoder's codec cache. On a miss
  it calls `getBaseCodec`: first `knownBaseCodecs.Load`, then `getNewCodec`.
- `Decoder.Decode` calls `getCodec`: first `knownCodecs.Load`, then
  `getNewCodec`.
- `getNewCodec` works in four steps:
  1. It installs a fresh placeholder with `LoadOrStore`. The loser of a race
     gets the winner's entry instead.
  2. It runs `buildCodec`, which calls `getCodec` for each child. For a
     recursive type, a child lookup finds the placeholder and embeds it.
  3. It publishes the built codec in `knownCodecs`, and also in
     `knownBaseCodecs` when the tag is empty.
  4. It resolves the placeholder, which wakes every goroutine waiting in
     `deferredCodec.Encode/Decode`.
- `RegisterCodec` writes a user codec into `knownCodecs` with `LoadOrStore`.
- Codecs call the Encode*/Decode* primitives of the wire layer.
- Codecs for containers and structs call their children's codecs.
- Tags are parsed when a struct codec is built (`ParseStructTag`). They
  select which codec the registry builds for a (type, tag) pair.

### Hard behaviours

- **Concurrency.** Any number of goroutines may share one Coder. Codec
  construction, lookup, registration and placeholder waits interleave
  freely.
- **Failure.**
  - A panic during construction unwinds through `getNewCodec` and leaves its
    placeholder behind.
  - The byte source may end at any byte, and the sink may fail on any
    `Write`.
- **Ordering.**
  - The two maps are published in two separate steps.
  - The placeholder is resolved after both stores.
  - Length prefix, body and padding must agree between writer and reader.

### Properties that make each component correct

- **Registry**
  - At most one codec is ever built per key.
  - Encoders and decoders agree on a type's codec.
  - A placeholder forwards to the codec that is published for its key.
  - A registration that returned normally is the codec used.
  - Every request finishes.
  - A registered codec is usable in both builds.
  - Together, these make it implement RegistryAbstract: a key is bound to a
    codec at most once and never rebound, and the encoder's per-type entry is
    only the codec of the type's untagged key.
- **Wire**
  - Every complete item round-trips and leaves both sides aligned.
  - Every error has a cause on the wire.
  - A truncated item is reported as an error.
  - Reads finish once their bytes are there.
- **Tags and codec construction**
  - Every parsed tag reads back, entry by entry, as the entries it packs,
    and has no trailing `Noop`.
  - A record is a union exactly when its first non-skipped field carries
    `union:switch`.
  - A union's case table maps each case value to the one arm declaring it.
    Duplicate values and a second default arm are refused.
  - Equal schemas get equal tags, because tags are cache keys.
  - Every tag accepted for a field type yields a codec, and every tag the
    spec allows is accepted. Both are violated; see the findings.
- **Records** (struct and union codecs)
  - What Encode writes is the spec's wire form: the fields in order, then
    each union's two's-complement discriminant and the arm it selects. An
    Encode fails exactly when a discriminant has no arm and no default.
  - A Decode into a reused value that succeeds gives back what was sent. The
    inactive arms keep their old contents, and the reader is aligned on the
    next value. This is violated for out-of-range narrow integers; see the
    findings.
- **Encoder** (codec cache and pools)
  - Every entry of every encoder's cache, in use or pooled, is the codec its
    Coder binds to the type.
  - What a call puts on the caller's sink is the output of that codec: all of
    it, or a prefix of it when the value fails to encode.
  - Marshal returns exactly that output, with nothing left over from an
    earlier Marshal on the same pooled buffer.
- **Containers** (array, slice, optional and map codecs, in Wire)
  - Every complete container round-trips. A map does so whichever order Go
    visits its entries in when encoding.
  - The writer's and the reader's maxlen checks agree: what one lets
    through under a limit, the other accepts under the same limit.
  - No count word, even from a peer with no limit, makes a decoder
    allocate past its codec's maxlen.

## 2. Plan

The modules, in the order they are built, most important behaviour first:

1. **Registry** (done): the concurrent codec registry with placeholders,
   registration, the panic path and both builds.
2. **Wire** (done): encoder and decoder primitives and the opaqueReader, over
   a transport that can end early.
3. **Tags** (done): the XDRTag byte encoding and ParseTag as RECURSIVE
   operators, the builders' tag checks, and makeStructCodec's field loop as
   a state machine over bounded structs.
4. **Records** (done): the struct and union codecs' Encode/Decode in both
   builds, over the bool and [u]int8-32 primitive codecs, into a reused
   destination.
5. **Containers** (done, inside Wire): the array, slice, optional and map
   codecs built on the wire primitives, and the maxlen checks of the string
   and opaque codecs, with the allocation each decode makes before it reads
   the body.
6. **Encoder** (done): the per-encoder codec cache (round robin), the
   encoder pools, and `Coder.Write`'s buffering on failure, over the registry
   at the level of RegistryAbstract.
7. **RegistryAbstract** (done): the abstract promise of the registry, a map from
   keys to one codec each that never changes once set. Registry is shown to
   implement it through `INSTANCE ... WITH` a refinement mapping that sends
   placeholders to "unset".

## 3. Modules

### Registry.tla

**Constants**

- `Threads` is the set of goroutines.
- `Types` and `Keys` are types and (type, tag) keys. `TypeOf` and `BaseKey`
  link the two.
- `Deps[k]` is the sequence of child keys that building `k` looks up.
- `Panics` is the set of keys whose construction panics.
- `Registrable` is the set of types with a permitted kind for
  RegisterCodec.
- `Unsafe` selects the build (`!nounsafe`).
- `MaxDepth` bounds nested codec calls.

**State**

- `known` and `knownBase` are the two sync.Maps.
- `real[<<k, t>>]` is the resolved value of the placeholder that goroutine
  `t` installed for `k`.
- `body` holds the child codecs embedded in each built codec.
- Per goroutine, `pc`, `want` and `stack` hold the getNewCodec frames in
  progress, each with the child codecs collected so far.
- `cur` and `depth` hold the codec being used and how deep the nested calls
  are.
- `registered` and `outcome` are history variables.

**How actions map to the code**

- `Encode` is getBaseCodec.
- `Decode` is decodeValue followed by getCodec.
- `InstallDeferred` is getNewCodec's LoadOrStore.
- `BuildChild`, `BuildPanic` and `BuildDone` are buildCodec: makeField's
  getCodec, the union panic, and the return.
- `Publish` is the two Stores.
- `Resolve` is `dc.resolve` and the return of the codec.
- `UseForward` is a placeholder forwarding, or waiting in `wg.Wait`.
- `UseChild` and `UseDone` are a codec calling its fields' codecs, or
  finishing.
- `Register` is RegisterCodecReflect.
- `Return` is the `c.(xCodec)` assertion followed by handing the codec to
  the caller.

**Bounds (MC_Registry.tla)**

- Two goroutines.
- Type `T` is recursive: its `*T` field reaches T again through an optional
  codec.
- Struct `U` embeds T and `I`, and can be registered.
- Union `B` has an int8 switch, so its construction panics.
- `MaxDepth` is 3.

These bounds let two goroutines race on every key, a recursive lookup find
its own placeholder, and a registration race a build.

**Fairness.** Each goroutine takes weak fairness on its own steps, because
the Go scheduler runs every runnable goroutine. Nothing forces a caller to
issue a request, so requests get no fairness.

### RegistryAbstract.tla and the refinement

RegistryAbstract is what the registry promises its callers. It has two
variables: `codec` (the codec bound to each key) and `base` (the encoder's
per-type entry). It has two actions:

- `Bind` binds an unbound key. This is a registration, or a codec published
  under a non-empty tag.
- `BindBase` binds a type's untagged key and its per-type entry together.

`Registry!Abs` instantiates it `WITH` the refinement mapping
`codec <- [k |-> Bound(known[k])]` and `base <- [ty |-> Bound(knownBase[ty])]`.
`Bound` maps a pending placeholder to "unbound". `RegistryRefinement ==
Abs!Spec` is checked as a PROPERTY in registry_main.

The abstract `Next` names the codec a key is bound to as `codec'[k]`, instead
of ranging over every codec. The two say the same thing, but the first lets
TLC check the property on every step of the registry quickly. It
also means RegistryAbstract is only checked as a property; it is not run on
its own.

Under this mapping, every step of the detailed model is an abstract step or
a stutter:

- installing a placeholder, building and resolving stutter;
- a successful registration is `Bind`;
- `Publish` is `Bind`, or `BindBase` for an empty tag.

Registry takes getNewCodec's two Stores as one step. A goroutine that runs
between them misses in `knownBaseCodecs`, then finds the same codec in
`knownCodecs`, so no caller can tell the difference.

### Records.tla

**Scope.** Records models the struct and union codecs for one record type
(`Layout` lists its field kinds). One union may be among its fields, with
switch kind `SwitchKind`, arms `Arms` of kinds `ArmKind`, the case table
`Cases` and a `Default` arm. The table is the one makeStructCodec builds,
which Tags checks separately.

**State.** A writer encodes values into `out`, a stream of 32-bit words;
Wire checks their bytes. A reader decodes them in order into one
destination `dest` that it reuses, as a caller looping on `Decode(&v)`
does. The stream may be cut at any word, and a missing word reads as 0 with
EOF. `sent`, `ends` and `got` are histories. `got` records the destination
before and after each Decode.

**How definitions map to the code**

- `EncodeFrom` and `DecodeFrom` are the struct codecs. Each walks the
  fields in order and returns at the first error.
- `EncodeUnion` and `DecodeUnion` are the union codecs.
  - The switch is written or stored first.
  - `SwVal` is swVal.
  - `Arm` is the cases-map lookup with its default.
  - Only the selected arm is then encoded or decoded.
- `Word` is the int/uint/bool encoders.
- `GoVal` is the decoders' store. It truncates to the field's `Width` and
  sign, and the value is stored even when the read failed.
- `Peer` values come from a peer whose schema is wider than the record's.

The reflect and unsafe builds compute the same words and values: a uint32
bitcast of an int32 is its two's-complement pattern. So one definition
serves both builds, and the map names the lines of both.

**Bounds (MC_Records.tla)**

- Bytes are 2 bits wide, so a word is 0..255 and an int8 is -2..1.
- records_main uses `struct { A int8; U U1; V U2; H uint16; C uint32 }`.
  - U1 has an int32 switch, `X int16 union:0,0xff` and `Y bool union:1`.
    The switch values -1, 1 and 2 reach an arm through the uint32
    conversion, directly, and not at all.
  - U2 has a bool switch, `X uint16 union:true` and `Y uint8
    union:default`.
  - Each field holds one value at an end of its range, except the
    switches and U2's `Y`, which holds 0 or 3. Two values there let a
    decoded union be told apart from the old contents of the
    destination it reuses.
  - A peer may send the word 2 as U2's switch.
- records_narrow instead lets the peer send int32 3 for the int8 field `A`.
- Both runs send two values over a stream that may end early, into every
  possible initial destination.

**Fairness.** None. These runs check only safety.

### Wire.tla

**Constants and scaling**

- Bytes are `ByteBits` wide. The MC uses 2 bits, so that a hyper fits TLC's
  integers.
- A word is still 4 bytes, and the code's big-endian, sign, length and
  padding arithmetic is kept.

**State**

- `out` is what the encoder wrote.
- `cut` says where the transport ended, if it has.
- `rpos` is how far the decoder has read.
- `sub` is the opaqueReader the caller holds.
- `sent`, `ends` and `got` are histories of the items written, where each
  one ends, and what the decoder returned.

**How actions map to the code**

- `Write` models the Encode* primitives.
- `Cut` is the sink failing or the source ending.
- `DecodeUnsignedInt`, `DecodeInt`, `DecodeBool`, `DecodeHyper`,
  `DecodeOpaque` and `DecodeFixedOpaque` are the matching primitives, with
  io.ReadFull's short-read behaviour.
- `OpaqueReader`, `SubRead` and `Close` are the streaming variant.

**The composite codecs.** The codecs that are built on the primitives are
item kinds of Wire, not a module of their own, because their behaviour is
the order and the number of primitive calls they make on one stream.

- `array`, `slice`, `opt` and `map` items hold int32 elements; map keys
  are uint32.
- `c64` and `c128` items are complex64Codec and complex128Codec: the real
  and the imaginary part, each written as a float (double) bit pattern. The
  decode (`DecodeComplex`) reads the real part, returns at once if that read
  failed, then reads the imaginary part. It stores the value only when both
  reads succeed; the other primitive codecs store what they read even on a
  failed read. A reader blocked on the second part waits for its bytes, like
  the second ReadFull does.
- Each item has two limits. `max` is the reader's codec maxlen. `wmax` is
  the writer's: either the same, or `None` for a peer whose schema has no
  limit.
- `Refused` is the encode-side check of opaqueSliceCodec, varStringCodec,
  sliceCodec and mapCodec. It fails before any output, so a refused value
  is never written.
- `Encodings` gives a map one encoding per visiting order, because
  `v.MapRange()` order is unspecified.
- `DecodeArray`, `DecodeSlice`, `DecodeOptional` and `DecodeMap` each model
  one whole Decode: the count word and its early returns, the allocation
  (`alloc` in the result), then the element loop, which returns at the
  first failed read. `ReadInts` and `ReadPairs` are those loops, as
  RECURSIVE operators.
- The two builds are identical here. The unsafe build's sliceCodec,
  arrayCodec and optCodec do what the reflect build does through pointers.
  One difference is left out: on a failed presence read, the reflect
  optCodec has already set the pointer to nil, while the unsafe one leaves
  it as it was. Wire has no destination value to see it in.

**Bounds (MC_Wire.tla)**

- Two items.
- Bodies of length 0, 1, 3 and 4. These cover every padding case and one
  body exactly at `maxLen` = 3.
- Negative signed values.
- A uint 2 that a bool reader must refuse.
- Element sequences of length 0, 1 and 2, against a container maxlen of 1.
  So a slice is empty (the nil path), at the limit, or over it.
- Maps of 0, 1 and 2 entries. The two-entry map has two encodings and is
  over the limit.
- Every limited item is written both by a writer with the reader's limit
  and by an unlimited peer. The first is refused on encode when over the
  limit; the second reaches the reader.

**Fairness.** The reader has weak fairness. It is a goroutine that runs
whenever a read can return.

### Tags.tla

**Abstraction**

- A Go type is the sequence of its layer kinds, outermost first. For
  example, `<<"ptr", "slice", "uint8">>` is `*[]byte`.
- A struct tag is the sequence of its `/`-separated tokens (`SkipTag` for
  `-`). Number parsing is abstracted to its result: a token carries its
  values, or is `u_bad` when `parseU32s` fails.
- Tags are the real byte strings. The kind bytes have the code's values,
  and values are 4 big-endian bytes.

**Operators**

- `Kind`, `ValAt`, `ThisLen`, `TagNext`, `OnlyValue`, `ValueRange`,
  `Value`, `AppendTag`, `PrependTag` and `Trimmed` are the XDRTag methods.
- `ParseTag` is split into `UnionHead` (the `union:` word and the isUnion
  binding) and `ParseLayers`/`LayerStep` (the layer loop with the type
  cursor).
- `GetCodec`, `Build` and the `Make*Codec` operators are getCodec,
  buildCodec and the builders. Each returns a description of the codec and
  the getCodec lookups it made.
- `Entries` and `Pack` are the reference reading of the layout described in
  the XDRTag doc comment.

**State and actions.** The state machine is makeStructCodec:

- `i`, `isUnion`, `f` and `tag` are its locals.
- `cases` and `defaultCase` are the union's fields.
- `xts` and `calls` record the parsed tags and the getCodec lookups.
- `Classify` is one iteration of the classifying loop.
- `EmptyStruct`, `StartStruct` and `StartUnion` are the switch on isUnion.
- `StructField`, `SkipField`, `UnionCasesField` and `UnionDefaultField` are
  iterations of the later loops.
- `ParseError` is any iteration whose tag fails to parse.
- `Finish` is the return.

The two "unreachable" panics of makeStructCodec are left out, because no
parse can produce them.

**Bounds (MC_Tags.tla)**

- Every struct of one or two fields from 13 ordinary fields.
- Every union of a switch (int32, bool, or int8) and up to two arms from 11
  arm fields.

The fields are taken from the tag forms in `coder_test.go` and the XDRTag
documentation, plus the ones the parser must refuse:

- `opt`, `opt/`, `opaque`, `/opaque`, `maxlen:4/opaque`, `len:4`;
- `union:1`, `union:1,2`, `union:2,2`, `union:true`, `union:false`,
  `union:default/...`;
- a bad value list, a second switch, and an arm without a union word.

Two fields per struct are enough for every pairwise interaction: a switch
followed by two arms, a duplicate across arms, two defaults, and `*T`
beside `opt *T`.

**Fairness.** None. makeStructCodec is a sequential function. No property of
the Tags runs is a liveness property.

### Encoder.tla

Encoder models the encoder side of a Coder: `encoder` and `marshalEncoder`
objects, their pools, their codec cache, and the three calls that use them.

**State.**

- `bound[cr][t]` is the codec Coder `cr` gives the untagged key of type `t`.
  It is the registry at the level of RegistryAbstract, which registry_main
  shows Registry implements. It is set once, by a registration or by the
  first `getBaseCodec`, and never changes.
- `encoders` and `marshalers` are the live pool objects. Each object has
  `cr`, `cache` (the `codecCache` array) and `slot` (`codecCacheSlot`); a
  marshalEncoder also has its buffer `b`.
- `encPool` and `marshalPool` are the objects the pools hold.
- `held` is the encoder NewEncoder gave each caller.
- `last` is the last call that encoded a value: its Coder, its type, and
  what it put on the sink or returned. It is a history variable for the
  properties.

**Actions.**

| Action | Code |
|---|---|
| `RegisterCodec` | `RegisterCodecReflect` (LoadOrStore; a conflict panics and changes nothing) |
| `NewEncoder` | `NewEncoder`/`newEncoder`: `encoderPool.Get`, `reset(cr, w)`; never put back |
| `Encode` | `encoder.Encode` on the held encoder |
| `Marshal` | `Coder.Marshal`: Get, `reset(cr)`, Encode into `b`, copy, `release` |
| `Write` | `Coder.Write`: buffered sinks directly, others through a pooled bufio.Writer |
| `Drop`, `CollectEncoder`, `CollectMarshaler` | a caller dropping its encoder; the collector emptying a pool |

Each of `EncodeValue`, `Reset`, `getBaseCodec` and `MarshalRelease` is an
operator shared by the actions that call it. Between Get and Put, a
call's pool object is its own, so Marshal and Write are single steps. The
one shared thing they touch is the registry, which is atomic at the
abstract level.

A codec's output is abstracted to `Parts` tokens `<<codec, i>>`. The value
of a type in `Failing` fails after all but the last token, as a struct
whose last field is refused does. A bufio.Writer of `BufSize` tokens stands
for Write's 4 KiB buffer. `Spilled(n)` is what it has passed on after `n`
tokens, because a write into a full buffer flushes it first.

**Bounds (MC_Encoder.tla).**

- Two Coders. They are interchangeable, so symmetry is sound.
- Three types over a cache of two slots, so a third type evicts an entry.
  Only T1 can be registered, so the two Coders may bind it to different
  codecs. T3's value fails half way.
- One buffered and one raw sink.
- A bufio buffer of one token, smaller than a value, so a failed Write can
  leave part of a value on the raw sink.
- One live object per pool. A held encoder has to be dropped before Write
  can get a new one. The pool can still hand a warm object from one Coder
  to the other, and a collection can replace it with a new one.

The code's cache has 4 slots. Two slots with three types reach the same
cases: a hit, a miss into a free slot, and a miss that evicts.

**Fairness.** None. encoder_main checks only safety.

## 4. Runs

| Run | Checks | Shows |
|---|---|---|
| registry_main | TypeOK, OneCodecPerKey, EncodeDecodeAgree, PlaceholderMatchesStore, RegistrationHonoured, RequestsComplete, RegistryRefinement | With no panicking construction, in the nounsafe build, the registry is consistent and every request completes. It implements RegistryAbstract under the refinement mapping: no key is ever rebound, and knownBaseCodecs only holds untagged codecs. |
| registry_faults | OneCodecPerKey, PlaceholderMatchesStore | The same consistency holds with a panicking construction, registration and the unsafe build. Deadlock is not checked here: goroutines may all wait on an abandoned placeholder, which is the finding below. |
| registry_hang (violation) | RequestsComplete | A union with an int8 switch passes tag parsing, then panics in makeStructCodec. The Decode that raced it (or any later one) then waits forever on the abandoned placeholder. |
| registry_unsafe (violation) | RegisteredCodecUsable | In the default build, Register followed by Decode panics on `c.(xCodec)`, because the registered codec is stored raw. |
| records_main | TypeOK, WireAsSpecified, DecodedAsSent | The record holds an int32-switched union with a negative case value, a bool-switched union with a default arm, and 8-, 16- and 32-bit fields at the ends of their ranges. It writes the spec's wire form, and it fails exactly when a switch has no arm. It round-trips into a reused value without touching the inactive arms. A peer's bool discriminant 2 is refused. |
| records_narrow (violation) | DecodedAsSent | An int32 outside int8's range, sent for an int8 field, decodes without error as a different value. |
| wire_main | TypeOK, CompleteItemsRoundTrip, NoSpuriousErrors, ReaderKeepsUp, LimitsAgree, AllocationBounded | Primitives, the complex codecs, and the array, slice, optional and map codecs. Complete items round-trip with both sides aligned, in any map order. Errors have causes on the wire, and reads never stall. The encode-side and decode-side maxlen checks agree, and no count word from an unlimited peer makes a decoder allocate past its maxlen. |
| wire_truncate (violation) | TruncationSurfaced | When the stream ends inside a variable-length body, the read still reports success. DecodeOpaque returns a zero-filled body with a nil error, and opaqueReader.Close returns nil, because io.Copy treats EOF as a normal end. TLC reports the shorter of the two traces, the DecodeOpaque one. With `Kinds = {"stream"}` alone it reports the Close one. |
| encoder_main | TypeOK, CacheCoherent, SinkGetsEncoding, MarshalReturnsEncoding | Two Coders bind one type to different codecs and share the pooled encoders. Across NewEncoder, Marshal and Write, with cache eviction and pool collection, no cache entry goes stale. Every call writes its own Coder's codec output, or a prefix of it for a failing value, and Marshal returns nothing left over from an earlier call. |
| tags_main | TypeOK, TagLayout, ClassifiedAsSpec, UnionTableMatchesTags, CanonicalLookups | Over all bounded structs and unions, tags keep their byte layout, records are classified as section 4.4 says, case tables match the arms with duplicates refused, and equal schemas get equal cache keys. |
| tags_doc_len (violation) | AcceptedTagsCompile | The XDRTag doc's own example `*[]byte xdr:"opt/len:4"` parses, but makeSliceCodec refuses `Len`, so the field gets an error codec. |
| tags_map_maxlen (violation) | SpecTagsAccepted | `maxlen:4` on a map, allowed by spec 4.2 and read by makeMapCodec, is refused by ParseTag. |

Every property of a passing run has a mutant in `PROJECT.json` that breaks
it. Each mutant is a plausible bug in the modelled code, for example:

- `Store` instead of `LoadOrStore`;
- the `tag.Empty()` guard dropped;
- `dc.resolve` forgotten;
- a padding of a whole word;
- `thisLen` without the count word;
- makeOptCodec's `Trimmed` forgotten;
- `>=` instead of `>` on maxLen.

## 5. Not modelled

- The reflection details of which codec a Go type gets are abstracted to
  the key graph of the model.
- Error message text is not modelled.
- The benchmarks and README under `part_000` are not modelled.
- The thin wrappers in `utils.go` and the interface declarations are not
  modelled, because they have no behaviour of their own.
- Memory is only recorded as the count each decode allocates. Allocation
  is bounded by maxlen, not by the input that arrives: 4 bytes can demand
  maxlen elements. That is the design, and it is stated as such.
- Wire models a 64-bit host. On a 32-bit host, DecodeOpaque's
  `(int(l)+3) & ^3` overflows for an unbounded maxLen; the host's int width
  is not a parameter of the model.
- Of the container codecs, three things are left out. fixedStringCodec's
  `ErrLengthIncorrect` is not modelled. Neither is `ErrNilPointer` for a nil
  pointer without `opt`. Nor is opaqueArrayCodec's pooled copy of an
  unaddressable array, which changes no output.
- In Records, error wrapping (`WithFieldError`) is left out, because it
  only adds a path to the message. The hyper, float and double codecs
  are left out of Records' field kinds, because they only forward to Wire's
  primitives; the complex codecs are Wire items.
- In Encoder, where an encoder writes (`w`, `ws`) is left out; only what it
  writes is kept. This hides one divergence from spec section 5. The spec
  says "returning to the pool clears references". But `encoder.release`
  clears only `w`, so a pooled encoder keeps `ws` (the caller's writer, or
  Write's bufio.Writer) and its `cr` alive until the next use. Nothing reads
  them before `reset` overwrites them, so no output changes.
- Encoder keeps a call's result as a value. Returning `e.b.Bytes()` without
  the copy (an alias of the pooled buffer) therefore cannot be expressed.
- decoderPool is not modelled. `decoder.release` clears `r` and `cr`, so a
  pooled decoder carries nothing from one use to the next.
- The writer of Records stops at its first failed Encode, as a caller
  does. A stream that goes on after a failed Encode is not modelled.
