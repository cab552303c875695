------------------------------ MODULE Registry ------------------------------
(***************************************************************************)
(* The codec registry of internal/coder (type Coder): the two sync.Maps    *)
(* knownCodecs and knownBaseCodecs, getCodec / getBaseCodec / getNewCodec  *)
(* with their Deferred placeholders, RegisterCodecReflect, and the use of  *)
(* a looked-up codec by Encode/Decode, which waits on an unresolved        *)
(* placeholder (deferredCodec.Encode: dc.wg.Wait()).                       *)
(*                                                                         *)
(* A key stands for an xType (reflect.Type, encoded tag).  Deps[k] is the  *)
(* ordered list of getCodec calls buildCodec makes while constructing the  *)
(* codec of k (pointee, element, struct fields...).  Keys in Panics are    *)
(* those whose builder panics (makeStructCodec on a union whose switch the *)
(* tag parser accepted but the builder rejects).  A panic unwinds the      *)
(* whole request; the caller recovers and the goroutine goes on.           *)
(***************************************************************************)
EXTENDS Naturals, Sequences, FiniteSets

CONSTANTS
    Threads,      \* goroutines sharing one Coder
    Types,        \* reflect.Types
    Keys,         \* xType{Type, EncodedTag} values
    TypeOf,       \* [Keys -> Types]
    BaseKey,      \* [Types -> Keys]: xType{t, ""}
    Deps,         \* [Keys -> Seq(Keys)]: getCodec calls made by buildCodec
    Panics,       \* keys whose buildCodec panics
    Registrable,  \* types RegisterCodecReflect accepts (not a prohibited kind)
    UserCodecs,   \* user-supplied xdrinterfaces.Codec values
    Unsafe,       \* TRUE for the default (!nounsafe) build
    MaxDepth,     \* bound on the nesting of one encoded value
    None

ASSUME /\ \A k \in Keys : TypeOf[k] \in Types /\ Deps[k] \in Seq(Keys)
       /\ \A t \in Types : BaseKey[t] \in Keys /\ TypeOf[BaseKey[t]] = t
       /\ Panics \subseteq Keys /\ Registrable \subseteq Types
       /\ Unsafe \in BOOLEAN /\ MaxDepth \in Nat

VARIABLES
    known,       \* knownCodecs: [Keys -> Ref \cup {None}]
    knownBase,   \* knownBaseCodecs: [Types -> Ref \cup {None}]
    real,        \* deferredCodec.real of each placeholder
    body,        \* child codecs embedded in each built codec
    pc, stack, want, cur, depth,
    registered,  \* history: the codec a RegisterCodec call succeeded with
    outcome      \* how each goroutine's last request ended

vars == <<known, knownBase, real, body, pc, stack, want, cur, depth,
          registered, outcome>>

(* A codec value: a placeholder (dc), a built codec (cc) or a user codec. *)
Ref == [kind : {"dc", "cc"}, key : Keys, by : Threads]
       \cup [kind : {"user"}, key : Keys, by : UserCodecs]
Dc(k, t) == [kind |-> "dc", key |-> k, by |-> t]
Cc(k, t) == [kind |-> "cc", key |-> k, by |-> t]
User(k, c) == [kind |-> "user", key |-> k, by |-> c]
Ids == Keys \X Threads
Frame == [key : Keys, refs : Seq(Ref)]
IsBase(k) == BaseKey[TypeOf[k]] = k

TypeOK ==
    /\ known \in [Keys -> Ref \cup {None}]
    /\ knownBase \in [Types -> Ref \cup {None}]
    /\ real \in [Ids -> Ref \cup {None}]
    /\ body \in [Ids -> Seq(Ref) \cup {None}]
    /\ pc \in [Threads -> {"idle", "install", "build", "publish", "resolve", "use"}]
    /\ stack \in [Threads -> Seq(Frame)]
    /\ want \in [Threads -> Keys \cup {None}]
    /\ cur \in [Threads -> Ref \cup {None}]
    /\ depth \in [Threads -> 0..MaxDepth]
    /\ registered \in [Types -> UserCodecs \cup {None}]
    /\ outcome \in [Threads -> {"none", "ok", "panic_build", "panic_assert", "panic_conflict"}]

Init ==
    /\ known = [k \in Keys |-> None]
    /\ knownBase = [t \in Types |-> None]
    /\ real = [i \in Ids |-> None]
    /\ body = [i \in Ids |-> None]
    /\ pc = [t \in Threads |-> "idle"]
    /\ stack = [t \in Threads |-> <<>>]
    /\ want = [t \in Threads |-> None]
    /\ cur = [t \in Threads |-> None]
    /\ depth = [t \in Threads |-> 0]
    /\ registered = [t \in Types |-> None]
    /\ outcome = [t \in Threads |-> "none"]

Top(t) == stack[t][Len(stack[t])]

(* A panic unwinds every getNewCodec frame of the request: their          *)
(* placeholders stay in knownCodecs, never resolved.                       *)
PanicOut(t, why) ==
    /\ pc' = [pc EXCEPT ![t] = "idle"]
    /\ stack' = [stack EXCEPT ![t] = <<>>]
    /\ want' = [want EXCEPT ![t] = None]
    /\ outcome' = [outcome EXCEPT ![t] = why]

(* getCodec / getNewCodec return r: `c.(xCodec)` (a panic for a raw user   *)
(* codec in the unsafe build), then the caller embeds r in the codec it    *)
(* is building, or, at top level, encodes/decodes through it.              *)
Return(t, r) ==
    IF r.kind = "user" /\ Unsafe
    THEN /\ PanicOut(t, "panic_assert")
         /\ UNCHANGED <<cur, depth>>
    ELSE /\ want' = [want EXCEPT ![t] = None]
         /\ IF stack[t] = <<>>
            THEN /\ pc' = [pc EXCEPT ![t] = "use"]
                 /\ cur' = [cur EXCEPT ![t] = r]
                 /\ depth' = [depth EXCEPT ![t] = 0]
                 /\ UNCHANGED stack
            ELSE /\ pc' = [pc EXCEPT ![t] = "build"]
                 /\ stack' = [stack EXCEPT ![t][Len(stack[t])].refs = Append(@, r)]
                 /\ UNCHANGED <<cur, depth>>
         /\ UNCHANGED outcome

(* getCodec: knownCodecs.Load; on a miss fall through to getNewCodec.     *)
GetCodec(t, k) ==
    IF known[k] # None
    THEN Return(t, known[k])
    ELSE /\ pc' = [pc EXCEPT ![t] = "install"]
         /\ want' = [want EXCEPT ![t] = k]
         /\ UNCHANGED <<stack, cur, depth, outcome>>

(* encoder.EncodeValue -> getBaseCodec(t): knownBaseCodecs.Load, and on a  *)
(* miss straight to getNewCodec(xType{t, ""}).                             *)
Encode(t, ty) ==
    /\ pc[t] = "idle"
    /\ IF knownBase[ty] # None
       THEN Return(t, knownBase[ty])
       ELSE /\ pc' = [pc EXCEPT ![t] = "install"]
            /\ want' = [want EXCEPT ![t] = BaseKey[ty]]
            /\ UNCHANGED <<stack, cur, depth, outcome>>
    /\ UNCHANGED <<known, knownBase, real, body, registered>>

(* decoder.decodeValue -> getCodec(t, nil).                                *)
Decode(t, ty) ==
    /\ pc[t] = "idle"
    /\ GetCodec(t, BaseKey[ty])
    /\ UNCHANGED <<known, knownBase, real, body, registered>>

(* Mutant: knownCodecs.Store instead of LoadOrStore of the placeholder.   *)
InstallDeferredStore(t) ==
    LET k == want[t] IN
    /\ pc[t] = "install"
    /\ known' = [known EXCEPT ![k] = Dc(k, t)]
    /\ stack' = [stack EXCEPT ![t] = Append(@, [key |-> k, refs |-> <<>>])]
    /\ pc' = [pc EXCEPT ![t] = "build"]
    /\ want' = [want EXCEPT ![t] = None]
    /\ UNCHANGED <<knownBase, real, body, cur, depth, registered, outcome>>

(* getNewCodec: LoadOrStore of a fresh deferredCodec.  The loser returns   *)
(* the winner's entry; the winner starts buildCodec.                       *)
InstallDeferred(t) ==
    LET k == want[t] IN
    /\ pc[t] = "install"
    /\ IF known[k] # None
       THEN /\ Return(t, known[k])
            /\ UNCHANGED known
       ELSE /\ known' = [known EXCEPT ![k] = Dc(k, t)]
            /\ stack' = [stack EXCEPT ![t] = Append(@, [key |-> k, refs |-> <<>>])]
            /\ pc' = [pc EXCEPT ![t] = "build"]
            /\ want' = [want EXCEPT ![t] = None]
            /\ UNCHANGED <<cur, depth, outcome>>
    /\ UNCHANGED <<knownBase, real, body, registered>>

(* buildCodec of the innermost frame: panic, look up the next child codec, *)
(* or finish.                                                              *)
BuildPanic(t) ==
    /\ pc[t] = "build"
    /\ Top(t).key \in Panics
    /\ PanicOut(t, "panic_build")
    /\ UNCHANGED <<known, knownBase, real, body, cur, depth, registered>>

BuildChild(t) ==
    LET f == Top(t) IN
    /\ pc[t] = "build"
    /\ f.key \notin Panics
    /\ Len(f.refs) < Len(Deps[f.key])
    /\ GetCodec(t, Deps[f.key][Len(f.refs) + 1])
    /\ UNCHANGED <<known, knownBase, real, body, registered>>

BuildDone(t) ==
    LET f == Top(t) IN
    /\ pc[t] = "build"
    /\ f.key \notin Panics
    /\ Len(f.refs) = Len(Deps[f.key])
    /\ pc' = [pc EXCEPT ![t] = "publish"]
    /\ UNCHANGED <<known, knownBase, real, body, stack, want, cur, depth,
                   registered, outcome>>

(* Mutant: knownBaseCodecs.Store without the tag.Empty() guard.           *)
PublishAnyTag(t) ==
    LET k == Top(t).key IN
    /\ pc[t] = "publish"
    /\ body' = [body EXCEPT ![<<k, t>>] = Top(t).refs]
    /\ known' = [known EXCEPT ![k] = Cc(k, t)]
    /\ knownBase' = [knownBase EXCEPT ![TypeOf[k]] = Cc(k, t)]
    /\ pc' = [pc EXCEPT ![t] = "resolve"]
    /\ UNCHANGED <<real, stack, want, cur, depth, registered, outcome>>

(* knownCodecs.Store(xt, cc); if tag.Empty() knownBaseCodecs.Store(t, cc) *)
Publish(t) ==
    LET k == Top(t).key IN
    /\ pc[t] = "publish"
    /\ body' = [body EXCEPT ![<<k, t>>] = Top(t).refs]
    /\ known' = [known EXCEPT ![k] = Cc(k, t)]
    /\ knownBase' = IF IsBase(k) THEN [knownBase EXCEPT ![TypeOf[k]] = Cc(k, t)]
                                 ELSE knownBase
    /\ pc' = [pc EXCEPT ![t] = "resolve"]
    /\ UNCHANGED <<real, stack, want, cur, depth, registered, outcome>>

(* Mutant: getNewCodec returns without dc.resolve(cc).                     *)
ResolveNoWake(t) ==
    LET k == Top(t).key
        rest == SubSeq(stack[t], 1, Len(stack[t]) - 1)
    IN
    /\ pc[t] = "resolve"
    /\ IF rest = <<>>
       THEN /\ pc' = [pc EXCEPT ![t] = "use"]
            /\ stack' = [stack EXCEPT ![t] = rest]
            /\ cur' = [cur EXCEPT ![t] = Cc(k, t)]
            /\ depth' = [depth EXCEPT ![t] = 0]
       ELSE /\ pc' = [pc EXCEPT ![t] = "build"]
            /\ stack' = [stack EXCEPT ![t] =
                            [rest EXCEPT ![Len(rest)].refs = Append(@, Cc(k, t))]]
            /\ UNCHANGED <<cur, depth>>
    /\ UNCHANGED <<known, knownBase, real, body, want, registered, outcome>>

(* dc.resolve(cc): real.Store and wg.Done release every waiter; then       *)
(* getNewCodec returns cc to its caller.                                   *)
Resolve(t) ==
    LET k == Top(t).key
        rest == SubSeq(stack[t], 1, Len(stack[t]) - 1)
    IN
    /\ pc[t] = "resolve"
    /\ real' = [real EXCEPT ![<<k, t>>] = Cc(k, t)]
    /\ IF rest = <<>>
       THEN /\ pc' = [pc EXCEPT ![t] = "use"]
            /\ stack' = [stack EXCEPT ![t] = rest]
            /\ cur' = [cur EXCEPT ![t] = Cc(k, t)]
            /\ depth' = [depth EXCEPT ![t] = 0]
       ELSE /\ pc' = [pc EXCEPT ![t] = "build"]
            /\ stack' = [stack EXCEPT ![t] =
                            [rest EXCEPT ![Len(rest)].refs = Append(@, Cc(k, t))]]
            /\ UNCHANGED <<cur, depth>>
    /\ UNCHANGED <<known, knownBase, body, want, registered, outcome>>

(* Encode/Decode of a value through codec cur: a deferredCodec forwards to *)
(* real once resolved and otherwise blocks in wg.Wait (no step enabled);   *)
(* a built codec either finishes or runs one of its children's codecs.     *)
UseForward(t) ==
    /\ pc[t] = "use"
    /\ cur[t].kind = "dc"
    /\ real[<<cur[t].key, cur[t].by>>] # None
    /\ cur' = [cur EXCEPT ![t] = real[<<cur[t].key, cur[t].by>>]]
    /\ UNCHANGED <<known, knownBase, real, body, pc, stack, want, depth,
                   registered, outcome>>

(* Mutant: one nested codec call past the bound. *)
UseChildPastBound(t) ==
    /\ pc[t] = "use"
    /\ cur[t].kind = "cc"
    /\ depth[t] <= MaxDepth
    /\ \E i \in DOMAIN body[<<cur[t].key, cur[t].by>>] :
          cur' = [cur EXCEPT ![t] = body[<<cur[t].key, cur[t].by>>][i]]
    /\ depth' = [depth EXCEPT ![t] = @ + 1]
    /\ UNCHANGED <<known, knownBase, real, body, pc, stack, want,
                   registered, outcome>>

UseChild(t) ==
    /\ pc[t] = "use"
    /\ cur[t].kind = "cc"
    /\ depth[t] < MaxDepth
    /\ \E i \in DOMAIN body[<<cur[t].key, cur[t].by>>] :
          cur' = [cur EXCEPT ![t] = body[<<cur[t].key, cur[t].by>>][i]]
    /\ depth' = [depth EXCEPT ![t] = @ + 1]
    /\ UNCHANGED <<known, knownBase, real, body, pc, stack, want,
                   registered, outcome>>

UseDone(t) ==
    /\ pc[t] = "use"
    /\ cur[t].kind \in {"cc", "user"}
    /\ pc' = [pc EXCEPT ![t] = "idle"]
    /\ cur' = [cur EXCEPT ![t] = None]
    /\ outcome' = [outcome EXCEPT ![t] = "ok"]
    /\ UNCHANGED <<known, knownBase, real, body, stack, want, depth, registered>>

(* Mutant: knownCodecs.Store instead of LoadOrStore in RegisterCodec.     *)
RegisterStore(t, ty, c) ==
    LET k == BaseKey[ty] IN
    /\ pc[t] = "idle"
    /\ ty \in Registrable
    /\ known' = [known EXCEPT ![k] = User(k, c)]
    /\ registered' = [registered EXCEPT ![ty] = c]
    /\ outcome' = [outcome EXCEPT ![t] = "ok"]
    /\ UNCHANGED <<knownBase, real, body, pc, stack, want, cur, depth>>

(* Mutant: a conflicting registration returns instead of panicking.      *)
RegisterSilentConflict(t, ty, c) ==
    LET k == BaseKey[ty] IN
    /\ pc[t] = "idle"
    /\ ty \in Registrable
    /\ CASE known[k] = None ->
              /\ known' = [known EXCEPT ![k] = User(k, c)]
              /\ registered' = [registered EXCEPT ![ty] = c]
              /\ outcome' = [outcome EXCEPT ![t] = "ok"]
          [] OTHER ->
              /\ registered' = [registered EXCEPT ![ty] = c]
              /\ outcome' = [outcome EXCEPT ![t] = "ok"]
              /\ UNCHANGED known
    /\ UNCHANGED <<knownBase, real, body, pc, stack, want, cur, depth>>

(* RegisterCodecReflect(t, c) for a type of a permitted kind: LoadOrStore  *)
(* of xType{t, ""}; a different existing codec is a panic, and so, in the  *)
(* unsafe build, is the existing.(xCodec) assertion on a raw user codec.   *)
Register(t, ty, c) ==
    LET k == BaseKey[ty] IN
    /\ pc[t] = "idle"
    /\ ty \in Registrable
    /\ CASE known[k] = None ->
              /\ known' = [known EXCEPT ![k] = User(k, c)]
              /\ registered' = [registered EXCEPT ![ty] = c]
              /\ outcome' = [outcome EXCEPT ![t] = "ok"]
          [] known[k].kind = "user" /\ Unsafe ->
              /\ outcome' = [outcome EXCEPT ![t] = "panic_assert"]
              /\ UNCHANGED <<known, registered>>
          [] known[k] = User(k, c) ->
              /\ outcome' = [outcome EXCEPT ![t] = "ok"]
              /\ UNCHANGED <<known, registered>>
          [] OTHER ->
              /\ outcome' = [outcome EXCEPT ![t] = "panic_conflict"]
              /\ UNCHANGED <<known, registered>>
    /\ UNCHANGED <<knownBase, real, body, pc, stack, want, cur, depth>>

Step(t) ==
    \/ InstallDeferred(t) \/ BuildPanic(t) \/ BuildChild(t) \/ BuildDone(t)
    \/ Publish(t) \/ Resolve(t) \/ UseForward(t) \/ UseChild(t) \/ UseDone(t)

Request(t) ==
    \E ty \in Types :
        \/ Encode(t, ty)
        \/ Decode(t, ty)
        \/ \E c \in UserCodecs : Register(t, ty, c)

Next == \E t \in Threads : Request(t) \/ Step(t)

(* Goroutines are scheduled fairly; nothing forces a caller to issue a     *)
(* request.                                                                *)
Spec == Init /\ [][Next]_vars /\ \A t \in Threads : WF_vars(Step(t))

-----------------------------------------------------------------------------
(* Properties *)

(* At most one codec is ever built and published for an xType, however     *)
(* many goroutines race on its first use (getNewCodec's LoadOrStore of the *)
(* placeholder decides the single builder).                                *)
OneCodecPerKey ==
    \A k \in Keys : Cardinality({t \in Threads : body[<<k, t>>] # None}) <= 1

(* The encoder's fast path (knownBaseCodecs, filled by getNewCodec only    *)
(* for an empty tag) agrees with the decoder's path (knownCodecs under     *)
(* xType{t, ""}): Encode and Decode of a type never use different codecs.  *)
EncodeDecodeAgree ==
    \A ty \in Types : knownBase[ty] # None => known[BaseKey[ty]] = knownBase[ty]

(* A placeholder, once resolved, forwards to exactly the codec knownCodecs *)
(* holds for its key: codecs built while it was pending (which embed it)   *)
(* and later lookups see the same codec.                                   *)
PlaceholderMatchesStore ==
    \A k \in Keys, t \in Threads :
        real[<<k, t>>] # None => known[k] = real[<<k, t>>]

(* A RegisterCodec call that returned normally is honoured: knownCodecs    *)
(* holds that user codec for the type from then on.                        *)
RegistrationHonoured ==
    \A ty \in Types :
        registered[ty] # None => known[BaseKey[ty]] = User(BaseKey[ty], registered[ty])


(* The codec a key is bound to as its callers see it: a pending Deferred   *)
(* placeholder is not yet a binding.                                       *)
Bound(r) == IF r = None \/ r.kind = "dc" THEN None ELSE r

Abs == INSTANCE RegistryAbstract
           WITH codec <- [k \in Keys |-> Bound(known[k])],
                base <- [ty \in Types |-> Bound(knownBase[ty])],
                Codecs <- Ref

(* The registry implements RegistryAbstract: however the goroutines,       *)
(* placeholders, panics and registrations interleave, an xType is bound to *)
(* a codec at most once and never rebound, and the encoder's per-type      *)
(* entry (knownBaseCodecs) is filled only together with xType{t, ""}.      *)
RegistryRefinement == Abs!Spec

(* Every Encode/Decode/RegisterCodec call eventually returns: a goroutine  *)
(* waiting in deferredCodec.Encode on a placeholder is always released.    *)
RequestsComplete ==
    \A t \in Threads : pc[t] # "idle" ~> pc[t] = "idle"

(* Looking up a type whose codec was registered never panics (the          *)
(* interface documents RegisterCodec as the way to handle a type).         *)
RegisteredCodecUsable ==
    \A t \in Threads : outcome[t] # "panic_assert"

====
