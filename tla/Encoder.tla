------------------------------- MODULE Encoder -------------------------------
(***************************************************************************)
(* The encoder side of a Coder (internal/coder): the pooled encoder and    *)
(* marshalEncoder objects with their small codec cache, and the calls that *)
(* use them: NewEncoder + Encode, Marshal and Write.                       *)
(*                                                                         *)
(* Each Coder's registry is taken at the level of RegistryAbstract, which  *)
(* Registry is checked to implement: bound[cr][t] is the codec Coder cr    *)
(* gives the base key xType{t, ""}; it is set once, by a registration or   *)
(* by the first getBaseCodec, and never changes.  A codec's output is      *)
(* abstracted to Parts tokens <<codec, i>>; one value of each type is     *)
(* encoded, and that of a type in Failing fails after its codec wrote all  *)
(* but the last token (a struct whose last field is refused).  A bufio.Writer of BufSize tokens stands for the 4 KiB     *)
(* buffer Write puts in front of an unbuffered sink.                      *)
(*                                                                         *)
(* A call's pool objects are its own from Get to Put (sync.Pool), so each  *)
(* Marshal and Write is one step; the encoders NewEncoder hands out stay   *)
(* with their caller, who encodes with them one value at a time.  Where   *)
(* an encoder writes (its w and ws) is left out: what it writes is kept.   *)
(***************************************************************************)
EXTENDS Integers, Sequences, SequencesExt

CONSTANTS
    Coders,       \* *Coder values
    Types,        \* reflect.Types of the values encoded
    Built,        \* [Types -> Codecs]: the codec buildCodec makes for a type
    UserCodecs,   \* codecs a caller may register
    Registrable,  \* types RegisterCodec accepts (not a prohibited kind)
    Failing,      \* types whose value fails to encode
    Parts,        \* tokens one codec writes for one value
    Sinks,        \* the callers' io.Writers
    Buffered,     \* those Write treats as already buffered (bytes.Buffer, bufio.Writer)
    Callers,      \* callers of NewEncoder
    CacheSize,    \* len(codecCache) (4 in the code; a power of two)
    BufSize,      \* tokens a bufio.Writer holds
    MaxEncoders,  \* encoder objects alive at once
    MaxMarshalers,\* marshalEncoder objects alive at once
    None

Codecs == {Built[t] : t \in Types} \cup UserCodecs
Slots == 0..(CacheSize - 1)
EmptyCache == [i \in Slots |-> [type |-> None, codec |-> None]]

VARIABLES
    bound,        \* [Coders -> [Types -> Codecs \cup {None}]]
    encoders,     \* [1..MaxEncoders -> a live encoder object, or None]
    encPool,      \* encoder objects in encoderPool
    marshalers,   \* [1..MaxMarshalers -> marshalEncoder object, or None]
    marshalPool,  \* marshalEncoder objects in marshalEncoderPool
    held,         \* [Callers -> the encoder NewEncoder gave the caller, or None]
    last          \* [call, cr, t, out]: the last call that encoded a value and
                  \* what it put on the caller's sink (Encode, Write: "sink") or
                  \* returned (Marshal: "marshal")

vars == <<bound, encoders, encPool, marshalers, marshalPool, held, last>>

Enc(c) == [i \in 1..Parts |-> <<c, i>>]
(* What c.Encode writes before returning. *)
Writes(c, t) == IF t \in Failing THEN SubSeq(Enc(c), 1, Parts - 1) ELSE Enc(c)

(* encoderPool.New and marshalEncoderPool.New: codecCacheSlot = 3. *)
NewObj == [cr |-> None, cache |-> EmptyCache, slot |-> CacheSize - 1]
NewMarshaler == NewObj @@ [b |-> <<>>]

(* sync.Pool.Get: a pooled object, or a new one made by New in a free     *)
(* place (the pool may look empty to this goroutine).                      *)
Gettable(objs, pool) == pool \cup {o \in DOMAIN objs : objs[o] = None}
Obj(objs, o, new) == IF objs[o] = None THEN new ELSE objs[o]

(* getBaseCodec: the codec bound to xType{t, ""}, built on first use. *)
getBaseCodec(cr, t) == IF bound[cr][t] = None THEN Built[t] ELSE bound[cr][t]

(* Mutant: the cache kept when the encoder moves to another Coder. *)
ResetKeepCache(e, cr) == [e EXCEPT !.cr = cr]

(* encoder.reset / marshalEncoder.reset: the cache is cleared when the     *)
(* object last served another Coder.                                       *)
Reset(e, cr) ==
    [e EXCEPT !.cr = cr,
              !.cache = IF e.cr # cr THEN EmptyCache ELSE e.cache]

(* Mutant: the next slot taken without the mask & (len(codecCache)-1). *)
EncodeValueNoMask(e, t) ==
    LET hit == {i \in Slots : e.cache[i].type = t}
        c == getBaseCodec(e.cr, t)
    IN IF hit # {}
       THEN [e |-> e, codec |-> e.cache[Min(hit)].codec, miss |-> FALSE]
       ELSE [e |-> [e EXCEPT !.slot = e.slot + 1, !.cache[e.slot + 1] = [type |-> t, codec |-> c]],
             codec |-> c, miss |-> TRUE]

(* EncodeValue: the codec of the first cache slot holding t; on a miss,    *)
(* getBaseCodec, stored in the next slot round-robin.                      *)
EncodeValue(e, t) ==
    LET hit == {i \in Slots : e.cache[i].type = t}
        s == (e.slot + 1) % CacheSize
        c == getBaseCodec(e.cr, t)
    IN IF hit # {}
       THEN [e |-> e, codec |-> e.cache[Min(hit)].codec, miss |-> FALSE]
       ELSE [e |-> [e EXCEPT !.slot = s, !.cache[s] = [type |-> t, codec |-> c]],
             codec |-> c, miss |-> TRUE]

(* The binding a cache miss leaves in the registry (getNewCodec). *)
Bind(cr, t, r) == IF r.miss THEN [bound EXCEPT ![cr][t] = r.codec] ELSE bound

(* Mutant: the buffer not reset when the marshalEncoder is put back. *)
MarshalReleaseKeep(e) == e

(* marshalEncoder.release: b.Reset(), then Put. *)
MarshalRelease(e) == [e EXCEPT !.b = <<>>]

(* Tokens a bufio.Writer of BufSize tokens, empty after Reset, has passed *)
(* on to its writer once n tokens were written to it: a Write into a full  *)
(* buffer flushes it first.                                                *)
Spilled(n) == IF n = 0 THEN 0 ELSE BufSize * ((n - 1) \div BufSize)

(* Mutant: the bufio.Writer flushed on the wrong branch of err == nil. *)
FlushedSwapped(out, ok) ==
    IF ~ok THEN out ELSE SubSeq(out, 1, Spilled(Len(out)))

(* What reaches an unbuffered sink through Write's pooled bufio.Writer:    *)
(* everything after a successful Flush; after a failed Encode only what    *)
(* bufio already passed on, the rest being dropped by Reset(nil).          *)
Flushed(out, ok) ==
    IF ok THEN out ELSE SubSeq(out, 1, Spilled(Len(out)))

-----------------------------------------------------------------------------

Init ==
    /\ bound = [cr \in Coders |-> [t \in Types |-> None]]
    /\ encoders = [o \in 1..MaxEncoders |-> None]
    /\ encPool = {}
    /\ marshalers = [o \in 1..MaxMarshalers |-> None]
    /\ marshalPool = {}
    /\ held = [p \in Callers |-> None]
    /\ last = None

(* RegisterCodecReflect: LoadOrStore on xType{t, ""}; a different codec   *)
(* already there panics and changes nothing.                               *)
RegisterCodec(cr, t, c) ==
    /\ bound[cr][t] = None
    /\ bound' = [bound EXCEPT ![cr][t] = c]
    /\ UNCHANGED <<encoders, encPool, marshalers, marshalPool, held, last>>

(* Coder.NewEncoder: an encoder from the pool, reset to cr (and w); the    *)
(* caller keeps it (it is never put back).                                 *)
NewEncoder(p, cr) ==
    /\ held[p] = None
    /\ \E o \in Gettable(encoders, encPool) :
          /\ encoders' = [encoders EXCEPT
                            ![o] = Reset(Obj(encoders, o, NewObj), cr)]
          /\ encPool' = encPool \ {o}
          /\ held' = [held EXCEPT ![p] = o]
    /\ UNCHANGED <<bound, marshalers, marshalPool, last>>

(* encoder.Encode on a held encoder: the codec writes straight to w. *)
Encode(p, t) ==
    LET o == held[p]
        r == EncodeValue(encoders[o], t)
    IN /\ o # None
       /\ encoders' = [encoders EXCEPT ![o] = r.e]
       /\ bound' = Bind(encoders[o].cr, t, r)
       /\ last' = [call |-> "sink", cr |-> encoders[o].cr, t |-> t,
                   out |-> Writes(r.codec, t)]
       /\ UNCHANGED <<encPool, marshalers, marshalPool, held>>

(* The caller drops its encoder; the garbage collector takes it. *)
Drop(p) ==
    /\ held[p] # None
    /\ held' = [held EXCEPT ![p] = None]
    /\ encoders' = [encoders EXCEPT ![held[p]] = None]
    /\ UNCHANGED <<bound, encPool, marshalers, marshalPool, last>>

(* Coder.Marshal: Get, reset(cr), Encode into b, copy b, release. *)
Marshal(cr, t) ==
    \E o \in Gettable(marshalers, marshalPool) :
       LET r == EncodeValue(Reset(Obj(marshalers, o, NewMarshaler), cr), t)
           filled == [r.e EXCEPT !.b = @ \o Writes(r.codec, t)]
       IN /\ marshalers' = [marshalers EXCEPT ![o] = MarshalRelease(filled)]
          /\ marshalPool' = marshalPool \cup {o}
          /\ bound' = Bind(cr, t, r)
          /\ last' = [call |-> "marshal", cr |-> cr, t |-> t, out |-> filled.b]
          /\ UNCHANGED <<encoders, encPool, held>>

(* Coder.Write: a buffered sink gets a pooled encoder of its own; any     *)
(* other sink gets one writing to a pooled bufio.Writer over it.           *)
Write(cr, s, t) ==
    \E o \in Gettable(encoders, encPool) :
       LET r == EncodeValue(Reset(Obj(encoders, o, NewObj), cr), t)
           out == Writes(r.codec, t)
       IN /\ encoders' = [encoders EXCEPT ![o] = r.e]
          /\ encPool' = encPool \cup {o}
          /\ bound' = Bind(cr, t, r)
          /\ last' = [call |-> "sink", cr |-> cr, t |-> t,
                      out |-> IF s \in Buffered THEN out ELSE Flushed(out, t \notin Failing)]
          /\ UNCHANGED <<marshalers, marshalPool, held>>

(* The garbage collector empties a sync.Pool of what it holds. *)
CollectEncoder(o) ==
    /\ o \in encPool
    /\ encoders' = [encoders EXCEPT ![o] = None]
    /\ encPool' = encPool \ {o}
    /\ UNCHANGED <<bound, marshalers, marshalPool, held, last>>

CollectMarshaler(o) ==
    /\ o \in marshalPool
    /\ marshalers' = [marshalers EXCEPT ![o] = None]
    /\ marshalPool' = marshalPool \ {o}
    /\ UNCHANGED <<bound, encoders, encPool, held, last>>

Next ==
    \/ \E cr \in Coders, t \in Registrable, c \in UserCodecs : RegisterCodec(cr, t, c)
    \/ \E p \in Callers, cr \in Coders : NewEncoder(p, cr)
    \/ \E p \in Callers, t \in Types : Encode(p, t)
    \/ \E p \in Callers : Drop(p)
    \/ \E cr \in Coders, t \in Types : Marshal(cr, t)
    \/ \E cr \in Coders, s \in Sinks, t \in Types : Write(cr, s, t)
    \/ \E o \in DOMAIN encoders : CollectEncoder(o)
    \/ \E o \in DOMAIN marshalers : CollectMarshaler(o)

Spec == Init /\ [][Next]_vars

-----------------------------------------------------------------------------
(* Properties *)

Made(objs) == {objs[o] : o \in {q \in DOMAIN objs : objs[q] # None}}
Objects == Made(encoders) \cup Made(marshalers)

TypeOK ==
    /\ bound \in [Coders -> [Types -> Codecs \cup {None}]]
    /\ \A e \in Objects :
          /\ e.cr \in Coders \cup {None}
          /\ e.slot \in Slots
          /\ e.cache \in [Slots -> [type : Types \cup {None}, codec : Codecs \cup {None}]]
    /\ encPool \subseteq DOMAIN encoders /\ marshalPool \subseteq DOMAIN marshalers
    /\ held \in [Callers -> DOMAIN encoders \cup {None}]

(* Every entry of every encoder's cache, in use or pooled, is the codec    *)
(* the encoder's Coder now binds to the type: reset clears the cache when  *)
(* a pooled object passes to another Coder, and nothing rebinds a type.    *)
CacheCoherent ==
    \A e \in Objects : \A i \in Slots :
        e.cache[i].type # None => e.cache[i].codec = bound[e.cr][e.cache[i].type]

(* What a call puts on the caller's sink is what the codec its Coder binds *)
(* to the value's type writes for the value: all of it when the call       *)
(* succeeds; when it fails, a prefix (Encode and Write on a buffered sink  *)
(* leave what the codec wrote, Write through bufio what bufio flushed).    *)
SinkGetsEncoding ==
    last # None /\ last.call = "sink" =>
        LET full == Writes(bound[last.cr][last.t], last.t)
        IN IF last.t \in Failing THEN IsPrefix(last.out, full) ELSE last.out = full

(* Marshal returns exactly what the Coder's codec for the value's type     *)
(* wrote for this value, nothing a previous Marshal on the same pooled     *)
(* marshalEncoder left in its buffer.                                      *)
MarshalReturnsEncoding ==
    last # None /\ last.call = "marshal" =>
        last.out = Writes(bound[last.cr][last.t], last.t)
=============================================================================
