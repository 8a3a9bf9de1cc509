--------------------------- MODULE CheckerProofs ---------------------------
(***************************************************************************)
(* Proofs about Checker, for any names, function types, length of the      *)
(* program and depth of nesting.                                           *)
(***************************************************************************)
EXTENDS Checker, ListLemmas

FrameKinds == {"Root", "Function", "Block", "If", "For", "ForInit"}
FrameType == [kind : FrameKinds, fn : Names \cup {NoName}, stage : {"start", "else", "head", "body"},
              ok : BOOLEAN, declared : SUBSET Names]
LayerType == [names : [Names -> 0..(MaxFrames + 1)], is_loop : BOOLEAN]
Entry == [type : FnTypes \cup {NoFn.type}, body : BOOLEAN]

-----------------------------------------------------------------------------
(***************************************************************************)
(* The scopes that the handlers pushed against the frames that have one in *)
(* the language.  h gives each such frame the position of its layer.  With *)
(* a refusal, handlers leave layers behind, so that only the order and the *)
(* number of the layers are sure; without one (exact) each layer belongs   *)
(* to a frame and holds what was declared there.                           *)
(***************************************************************************)
ScopedIn(fr) == {k \in 1..Len(fr) : fr[k].kind \in {"Root", "Function", "Block", "For"}}

LayerOf(layer, f, k) ==
  /\ layer.is_loop = (f.kind = "For")
  /\ \A n \in Names : layer.names[n] = IF n \in f.declared THEN k ELSE 0

SyncBy(h, sc, fr, exact) ==
  /\ h \in [ScopedIn(fr) -> 1..Len(sc)]
  /\ \A j, k \in ScopedIn(fr) : j < k => h[j] < h[k]
  /\ exact => /\ \A i \in 1..Len(sc) : \E k \in ScopedIn(fr) : h[k] = i
              /\ \A k \in ScopedIn(fr) : LayerOf(sc[h[k]], fr[k], k)

Sync(sc, fr, exact) == \E h : SyncBy(h, sc, fr, exact)

\* The layer of the innermost scope is the last one.
LEMMA LastLayer ==
  ASSUME NEW sc \in Seq(LayerType), NEW fr \in Seq(FrameType),
         NEW h, SyncBy(h, sc, fr, TRUE), 1 \in ScopedIn(fr)
  PROVE  /\ Max(ScopedIn(fr)) \in ScopedIn(fr)
         /\ \A k \in ScopedIn(fr) : k <= Max(ScopedIn(fr))
         /\ h[Max(ScopedIn(fr))] = Len(sc) /\ Len(sc) \in Nat \ {0}
<1> DEFINE m == Max(ScopedIn(fr))
<1>1. Len(fr) \in Nat /\ Len(sc) \in Nat
  BY LenProperties
<1>2. ScopedIn(fr) \in SUBSET (0..Len(fr)) /\ ScopedIn(fr) # {}
  BY <1>1 DEF ScopedIn
<1>3. m \in ScopedIn(fr) /\ \A k \in ScopedIn(fr) : k <= m
  BY <1>1, <1>2, MaxOfSet
<1>4. h[m] \in 1..Len(sc)
  BY <1>3 DEF SyncBy
<1>5. PICK k \in ScopedIn(fr) : h[k] = Len(sc)
  BY <1>1, <1>4 DEF SyncBy
<1>6. k = m \/ h[k] < h[m]
  BY <1>2, <1>3 DEF SyncBy
<1> QED
  BY <1>1, <1>3, <1>4, <1>5, <1>6

\* A handler with a scope of its own begins.
LEMMA SyncPush ==
  ASSUME NEW sc \in Seq(LayerType), NEW fr \in Seq(FrameType), NEW exact \in BOOLEAN,
         Sync(sc, fr, exact), NEW layer \in LayerType, NEW f \in FrameType,
         f.kind \in {"Function", "Block", "For"}, LayerOf(layer, f, Len(fr) + 1)
  PROVE  Sync(Append(sc, layer), Append(fr, f), exact)
<1> DEFINE sc2 == Append(sc, layer)
           fr2 == Append(fr, f)
           new == Len(fr) + 1
<1>1. PICK h : SyncBy(h, sc, fr, exact)
  BY DEF Sync
<1>2. /\ Len(fr) \in Nat /\ Len(sc) \in Nat
      /\ Len(fr2) = new /\ fr2[new] = f /\ \A k \in 1..Len(fr) : fr2[k] = fr[k]
      /\ Len(sc2) = Len(sc) + 1 /\ sc2[Len(sc) + 1] = layer
      /\ \A i \in 1..Len(sc) : sc2[i] = sc[i]
  BY LenProperties, AppendProperties
<1> HIDE DEF sc2, fr2
<1>3. ScopedIn(fr2) = ScopedIn(fr) \cup {new} /\ new \notin ScopedIn(fr) /\ ScopedIn(fr) \subseteq 1..Len(fr)
  BY <1>2 DEF ScopedIn
<1> DEFINE g == [k \in ScopedIn(fr2) |-> IF k = new THEN Len(sc) + 1 ELSE h[k]]
<1>4. g[new] = Len(sc) + 1 /\ \A k \in ScopedIn(fr) : g[k] = h[k] /\ h[k] \in 1..Len(sc)
  BY <1>1, <1>3 DEF SyncBy
<1>5. g \in [ScopedIn(fr2) -> 1..Len(sc2)]
  BY <1>2, <1>3, <1>4
<1> HIDE DEF g
<1>6. \A j, k \in ScopedIn(fr2) : j < k => g[j] < g[k]
  BY <1>1, <1>2, <1>3, <1>4 DEF SyncBy
<1>7. ASSUME exact
      PROVE  /\ \A i \in 1..Len(sc2) : \E k \in ScopedIn(fr2) : g[k] = i
             /\ \A k \in ScopedIn(fr2) : LayerOf(sc2[g[k]], fr2[k], k)
  <2>1. \A i \in 1..Len(sc) : \E k \in ScopedIn(fr) : h[k] = i
    BY <1>1, <1>7 DEF SyncBy
  <2>2. \A k \in ScopedIn(fr) : LayerOf(sc[h[k]], fr[k], k)
    BY <1>1, <1>7 DEF SyncBy
  <2>3. ASSUME NEW i \in 1..Len(sc2)
        PROVE  \E k \in ScopedIn(fr2) : g[k] = i
    <3>1. CASE i = Len(sc) + 1
      BY <3>1, <1>3, <1>4
    <3>2. CASE i # Len(sc) + 1
      <4>1. i \in 1..Len(sc)
        BY <3>2, <1>2
      <4> QED
        BY <4>1, <2>1, <1>3, <1>4
    <3> QED
      BY <3>1, <3>2
  <2>4. ASSUME NEW k \in ScopedIn(fr2)
        PROVE  LayerOf(sc2[g[k]], fr2[k], k)
    <3>1. CASE k = new
      BY <3>1, <1>2, <1>4
    <3>2. CASE k # new
      <4>1. k \in ScopedIn(fr) /\ fr2[k] = fr[k] /\ sc2[g[k]] = sc[h[k]]
        BY <3>2, <1>2, <1>3, <1>4
      <4> QED
        BY <4>1, <2>2
    <3> QED
      BY <3>1, <3>2
  <2> QED
    BY <2>3, <2>4
<1>8. SyncBy(g, sc2, fr2, exact)
  BY <1>5, <1>6, <1>7 DEF SyncBy
<1> QED
  BY <1>8 DEF Sync, sc2, fr2

\* A handler without a scope of its own begins.
LEMMA SyncEnter ==
  ASSUME NEW sc \in Seq(LayerType), NEW fr \in Seq(FrameType), NEW exact \in BOOLEAN,
         Sync(sc, fr, exact), NEW f \in FrameType, f.kind \in {"If", "ForInit"}
  PROVE  Sync(sc, Append(fr, f), exact)
<1>1. PICK h : SyncBy(h, sc, fr, exact)
  BY DEF Sync
<1>2. /\ Len(fr) \in Nat /\ Len(Append(fr, f)) = Len(fr) + 1 /\ Append(fr, f)[Len(fr) + 1] = f
      /\ \A k \in 1..Len(fr) : Append(fr, f)[k] = fr[k]
  BY LenProperties, AppendProperties
<1>3. ScopedIn(Append(fr, f)) = ScopedIn(fr) /\ ScopedIn(fr) \subseteq 1..Len(fr)
  BY <1>2 DEF ScopedIn
<1>4. SyncBy(h, sc, Append(fr, f), exact)
  BY <1>1, <1>2, <1>3 DEF SyncBy
<1> QED
  BY <1>4 DEF Sync

\* A handler with a scope of its own returns after it has popped its layer.
LEMMA SyncPop ==
  ASSUME NEW sc \in Seq(LayerType), NEW fr \in Seq(FrameType), NEW exact \in BOOLEAN,
         Sync(sc, fr, exact), 1 \in ScopedIn(fr), Len(fr) > 1, Len(fr) \in ScopedIn(fr)
  PROVE  Sync(Front(sc), Front(fr), exact) /\ Len(sc) > 1
<1> DEFINE sc2 == Front(sc)
           fr2 == Front(fr)
           top == Len(fr)
<1>1. PICK h : SyncBy(h, sc, fr, exact)
  BY DEF Sync
<1>0. Len(fr) \in Nat /\ Len(sc) \in Nat
  BY LenProperties
<1>a. top \in Nat /\ Len(sc) \in Nat /\ 1 < top
  BY <1>0
<1>b. h[1] \in 1..Len(sc) /\ h[top] \in 1..Len(sc) /\ h[1] < h[top]
  BY <1>1, <1>a DEF SyncBy
<1>2. /\ Len(fr2) = top - 1 /\ \A k \in 1..(top - 1) : fr2[k] = fr[k]
      /\ Len(sc2) = Len(sc) - 1 /\ \A i \in 1..(Len(sc) - 1) : sc2[i] = sc[i]
  BY <1>a, <1>b, FrontProperties
<1> HIDE DEF sc2, fr2
<1>3. ScopedIn(fr2) = ScopedIn(fr) \ {top} /\ \A k \in ScopedIn(fr2) : k \in 1..(top - 1)
  <2>1. 1..Len(fr2) = (1..top) \ {top}
    BY <1>a, <1>2
  <2> QED
    BY <2>1, <1>a, <1>2 DEF ScopedIn
<1> DEFINE g == [k \in ScopedIn(fr2) |-> h[k]]
<1>4. \A k \in ScopedIn(fr2) : g[k] = h[k] /\ h[k] \in 1..Len(sc) /\ h[k] < h[top]
  BY <1>1, <1>3, <1>a DEF SyncBy
<1>5. g \in [ScopedIn(fr2) -> 1..Len(sc2)]
  BY <1>2, <1>4, <1>a, <1>b
<1> HIDE DEF g
<1>6. \A j, k \in ScopedIn(fr2) : j < k => g[j] < g[k]
  BY <1>1, <1>3, <1>4 DEF SyncBy
<1>7. ASSUME exact
      PROVE  /\ \A i \in 1..Len(sc2) : \E k \in ScopedIn(fr2) : g[k] = i
             /\ \A k \in ScopedIn(fr2) : LayerOf(sc2[g[k]], fr2[k], k)
  <2>1. \A i \in 1..Len(sc) : \E k \in ScopedIn(fr) : h[k] = i
    BY <1>1, <1>7 DEF SyncBy
  <2>2. h[top] = Len(sc)
    <3>1. PICK k \in ScopedIn(fr) : h[k] = Len(sc)
      BY <2>1, <1>a, <1>b
    <3> QED
      BY <3>1, <1>b, <1>3, <1>4, <1>a
  <2>3. ASSUME NEW i \in 1..Len(sc2)
        PROVE  \E k \in ScopedIn(fr2) : g[k] = i
    <3>1. PICK k \in ScopedIn(fr) : h[k] = i
      BY <2>1, <1>2, <1>a, <1>b
    <3>2. k # top
      BY <3>1, <2>2, <1>2, <1>a, <1>b
    <3> QED
      BY <3>1, <3>2, <1>3, <1>4
  <2>4. ASSUME NEW k \in ScopedIn(fr2)
        PROVE  LayerOf(sc2[g[k]], fr2[k], k)
    <3>1. k \in ScopedIn(fr) /\ fr2[k] = fr[k]
      BY <1>2, <1>3
    <3>2. sc2[g[k]] = sc[h[k]]
      BY <1>2, <1>4, <1>5, <1>a, <1>b
    <3>3. LayerOf(sc[h[k]], fr[k], k)
      BY <3>1, <1>1, <1>7 DEF SyncBy
    <3> QED
      BY <3>1, <3>2, <3>3
  <2> QED
    BY <2>3, <2>4
<1>8. SyncBy(g, sc2, fr2, exact)
  BY <1>5, <1>6, <1>7 DEF SyncBy
<1> QED
  BY <1>8, <1>a, <1>b DEF Sync, sc2, fr2

\* A handler returns and pops no layer: it has none, or something was refused.
LEMMA SyncLeave ==
  ASSUME NEW sc \in Seq(LayerType), NEW fr \in Seq(FrameType), NEW exact \in BOOLEAN,
         Sync(sc, fr, exact), NEW still \in BOOLEAN, fr # <<>>,
         still => exact /\ Len(fr) \notin ScopedIn(fr)
  PROVE  Sync(sc, Front(fr), still)
<1> DEFINE fr2 == Front(fr)
<1>1. PICK h : SyncBy(h, sc, fr, exact)
  BY DEF Sync
<1>2. /\ Len(fr) \in Nat \ {0}
      /\ Len(fr2) = Len(fr) - 1 /\ \A k \in 1..(Len(fr) - 1) : fr2[k] = fr[k]
  BY FrontProperties, LenProperties
<1> HIDE DEF fr2
<1>3. /\ ScopedIn(fr2) = ScopedIn(fr) \ {Len(fr)}
      /\ \A k \in ScopedIn(fr2) : fr2[k] = fr[k]
  BY <1>2 DEF ScopedIn
<1> DEFINE g == [k \in ScopedIn(fr2) |-> h[k]]
<1>4. /\ g \in [ScopedIn(fr2) -> 1..Len(sc)]
      /\ \A k \in ScopedIn(fr2) : g[k] = h[k]
  BY <1>1, <1>3 DEF SyncBy
<1> HIDE DEF g
<1>5. \A j, k \in ScopedIn(fr2) : j < k => g[j] < g[k]
  BY <1>1, <1>3, <1>4 DEF SyncBy
<1>6. still => ScopedIn(fr2) = ScopedIn(fr)
  BY <1>3
<1>7. SyncBy(g, sc, fr2, still)
  BY <1>1, <1>3, <1>4, <1>5, <1>6 DEF SyncBy
<1> QED
  BY <1>7 DEF Sync, fr2

\* Nothing that the scopes depend on changes, or something is refused.
LEMMA SyncSame ==
  ASSUME NEW sc \in Seq(LayerType), NEW fr \in Seq(FrameType), NEW exact \in BOOLEAN,
         Sync(sc, fr, exact), NEW still \in BOOLEAN, still => exact,
         NEW fr2, Len(fr2) = Len(fr),
         \A k \in 1..Len(fr) : fr2[k].kind = fr[k].kind /\ fr2[k].declared = fr[k].declared
  PROVE  Sync(sc, fr2, still)
<1>1. PICK h : SyncBy(h, sc, fr, exact)
  BY DEF Sync
<1>2. ScopedIn(fr2) = ScopedIn(fr)
  BY DEF ScopedIn
<1>3. \A k \in ScopedIn(fr) : LayerOf(sc[h[k]], fr[k], k) => LayerOf(sc[h[k]], fr2[k], k)
  BY DEF LayerOf, ScopedIn
<1>4. SyncBy(h, sc, fr2, still)
  BY <1>1, <1>2, <1>3 DEF SyncBy
<1> QED
  BY <1>4 DEF Sync

\* A function that is refused after its layer was pushed has no frame.
LEMMA SyncLeft ==
  ASSUME NEW sc \in Seq(LayerType), NEW fr, NEW exact \in BOOLEAN,
         Sync(sc, fr, exact), NEW layer \in LayerType
  PROVE  Sync(Append(sc, layer), fr, FALSE)
<1>1. PICK h : SyncBy(h, sc, fr, exact)
  BY DEF Sync
<1>2. Len(Append(sc, layer)) = Len(sc) + 1 /\ Len(sc) \in Nat
  BY AppendProperties, LenProperties
<1>3. SyncBy(h, Append(sc, layer), fr, FALSE)
  BY <1>1, <1>2 DEF SyncBy
<1> QED
  BY <1>3 DEF Sync

-----------------------------------------------------------------------------
(***************************************************************************)
(* The inductive invariant.                                                *)
(***************************************************************************)
Typed ==
  /\ scopes \in Seq(LayerType)
  /\ functions \in [Names -> Entry]
  /\ \A n \in Names : Declared(n) => functions[n].type \in FnTypes
  /\ current_function \in Names \cup {NoName}
  /\ stale \in BOOLEAN /\ errors \in BOOLEAN /\ flaw \in BOOLEAN
  /\ frames \in Seq(FrameType) /\ Len(frames) \in 1..(MaxFrames + 1)
  /\ ret \in {"call", "ok", "failed"}
  /\ verdict \in {"running", "accepted", "rejected"}

\* The root is at the bottom, a function on top of it, the rest in the function.
Shape ==
  \A k \in 1..Len(frames) :
    /\ frames[k].kind = "Root" <=> k = 1
    /\ frames[k].kind = "Function" <=> k = 2
    /\ k = 2 => frames[k].fn \in Names

\* What any handler refused, on the way or at last, it has reported.
Reported == \A k \in 1..Len(frames) : ret = "failed" \/ ~frames[k].ok => errors

\* The programs on which the checker is right: those without the two flaws that it
\* passes over, in the step of a loop and in the type of main.
Plain ==
  /\ ~StepsFlawed
  /\ \A type \in FnTypes : main_is_valid(type) => IsMainType(type)

Judged ==
  /\ errors => flaw
  /\ Plain => (flaw => errors)
  /\ verdict = "accepted" => ~errors
  /\ verdict = "rejected" => errors

\* Without a refusal, no function has the name of a global variable.
Apart == ~errors => \A n \in frames[1].declared : ~Declared(n)

IInv ==
  /\ Typed
  /\ Shape
  /\ Sync(scopes, frames, ~errors)
  /\ Reported
  /\ Apart
  /\ CurrentFunctionFresh
  /\ Judged

\* The frames that hold names are those that ScopedIn says, Home the innermost.
LEMMA Homes ==
  ASSUME Typed, Shape
  PROVE  /\ Scoped = ScopedIn(frames) /\ 1 \in Scoped
         /\ Home \in Scoped /\ (\A k \in Scoped : k <= Home)
         /\ Home \in 1..Len(frames) /\ Home \in 1..(MaxFrames + 1)
<1>1. Len(frames) \in Nat \ {0} /\ Len(frames) <= MaxFrames + 1
  BY CheckerAssumption DEF Typed
<1>2. Scoped = ScopedIn(frames)
  BY DEF Scoped, ScopedIn
<1>3. 1 \in Scoped /\ Scoped \in SUBSET (0..Len(frames))
  BY <1>1 DEF Scoped, Shape
<1>4. Home \in Scoped /\ \A k \in Scoped : k <= Home
  BY <1>1, <1>3, MaxOfSet DEF Home
<1>5. Home \in 1..Len(frames)
  BY <1>4 DEF Scoped
<1>6. Home \in 1..(MaxFrames + 1)
  BY <1>1, <1>5, CheckerAssumption
<1> QED
  BY <1>2, <1>3, <1>4, <1>5, <1>6

\* Without a refusal so far, the layers say what the language says.
LEMMA Agreement ==
  ASSUME IInv, ~errors
  PROVE  /\ \A n \in Names : lookup_var(n) = Lexical(n)
         /\ \A n \in Names : Last(scopes).names[n] # 0 <=> n \in frames[Home].declared
         /\ \A n \in Names : Len(frames) = 1 => (lookup_global_var(n) # 0 <=> n \in frames[1].declared)
         /\ is_in_loop <=> InLoop
         /\ is_global_scope <=> Home = 1
<1> USE DEF IInv
<1>1. PICK h : SyncBy(h, scopes, frames, TRUE)
  BY DEF Sync
<1>2. /\ Scoped = ScopedIn(frames) /\ 1 \in Scoped /\ Home \in Scoped
      /\ \A k \in Scoped : k <= Home
  BY Homes
<1>3. Len(scopes) \in Nat \ {0} /\ Len(frames) \in Nat /\ h[Home] = Len(scopes)
  BY <1>1, <1>2, LastLayer, LenProperties DEF Home, Typed
<1>4. /\ \A k \in Scoped : k \in 1..Len(frames) /\ h[k] \in 1..Len(scopes)
      /\ \A j, k \in Scoped : j < k => h[j] < h[k]
      /\ \A i \in 1..Len(scopes) : \E k \in Scoped : h[k] = i
      /\ \A k \in Scoped : LayerOf(scopes[h[k]], frames[k], k)
  BY <1>1, <1>2 DEF SyncBy, ScopedIn
<1>5. ASSUME NEW n \in Names
      PROVE  lookup_var(n) = Lexical(n)
  <2> DEFINE layers == {k \in 1..Len(scopes) : scopes[k].names[n] # 0}
             homes  == {k \in Scoped : n \in frames[k].declared}
  <2>1. \A k \in Scoped : scopes[h[k]].names[n] = IF n \in frames[k].declared THEN k ELSE 0
    BY <1>4 DEF LayerOf
  <2>2. \A k \in homes : k \in Scoped /\ h[k] \in layers
    BY <2>1, <1>4
  <2>3. \A i \in layers : \E k \in homes : h[k] = i
    BY <2>1, <1>4
  <2>4. lookup_var(n) = IF layers = {} THEN 0 ELSE scopes[Max(layers)].names[n]
    BY DEF lookup_var
  <2>5. Lexical(n) = IF homes = {} THEN 0 ELSE Max(homes)
    BY DEF Lexical
  <2>6. layers \in SUBSET (0..Len(scopes)) /\ homes \in SUBSET (0..Len(frames))
    BY <1>3, <1>4
  <2> HIDE DEF layers, homes
  <2>7. CASE homes = {}
    BY <2>7, <2>3, <2>4, <2>5
  <2>8. CASE homes # {}
    <3> DEFINE m == Max(homes)
               l == Max(layers)
    <3>1. m \in homes /\ \A k \in homes : k <= m
      BY <2>6, <2>8, <1>3, MaxOfSet
    <3>2. layers # {} /\ h[m] \in layers
      BY <3>1, <2>2
    <3>3. l \in layers /\ \A i \in layers : i <= l
      BY <3>2, <2>6, <1>3, MaxOfSet
    <3>4. PICK k \in homes : h[k] = l
      BY <3>3, <2>3
    <3> HIDE DEF m, l
    <3>5. k = m
      <4>1. k <= m /\ k \in Scoped /\ m \in Scoped /\ h[m] <= h[k]
        BY <3>1, <3>2, <3>3, <3>4, <2>2
      <4>2. k \in Nat /\ m \in Nat /\ h[m] \in Nat /\ h[k] \in Nat
        BY <4>1, <1>3, <1>4
      <4> QED
        BY <4>1, <4>2, <1>4
    <3>6. scopes[l].names[n] = m
      BY <3>4, <3>5, <2>1, <2>2 DEF homes
    <3> QED
      BY <3>2, <3>6, <2>4, <2>5, <2>8 DEF m, l
  <2> QED
    BY <2>7, <2>8
<1>6. ASSUME NEW n \in Names
      PROVE  Last(scopes).names[n] # 0 <=> n \in frames[Home].declared
  <2>1. Home # 0 /\ Last(scopes) = scopes[h[Home]]
    BY <1>2, <1>3, <1>4 DEF Last
  <2> QED
    BY <2>1, <1>2, <1>4 DEF LayerOf
<1>7. ASSUME NEW n \in Names, Len(frames) = 1
      PROVE  lookup_global_var(n) # 0 <=> n \in frames[1].declared
  <2>1. Home = 1
    BY <1>2, <1>4, <1>7
  <2>2. h[1] = 1
    <3>1. PICK k \in Scoped : h[k] = 1
      BY <1>3, <1>4
    <3>2. k = 1
      BY <3>1, <2>1, <1>2, <1>4
    <3> QED
      BY <3>1, <3>2
  <2>3. Head(scopes) = scopes[1]
    BY <1>3 DEF Typed
  <2> QED
    BY <2>2, <2>3, <1>2, <1>4 DEF LayerOf, lookup_global_var
<1>8. is_in_loop <=> InLoop
  <2>1. ASSUME NEW i \in 1..Len(scopes), scopes[i].is_loop
        PROVE  InLoop
    <3>1. PICK k \in Scoped : h[k] = i
      BY <1>4
    <3> QED
      BY <3>1, <2>1, <1>4 DEF LayerOf, InLoop
  <2>2. ASSUME NEW k \in 1..Len(frames), frames[k].kind = "For"
        PROVE  is_in_loop
    <3>1. k \in Scoped
      BY <2>2 DEF Scoped
    <3> QED
      BY <3>1, <2>2, <1>4 DEF LayerOf, is_in_loop
  <2> QED
    BY <2>1, <2>2 DEF is_in_loop, InLoop
<1>9. is_global_scope <=> Home = 1
  <2>1. ASSUME Home = 1
        PROVE  Len(scopes) = 1
    <3>1. PICK k \in Scoped : h[k] = 1
      BY <1>3, <1>4
    <3>2. k = 1
      BY <3>1, <2>1, <1>2, <1>4
    <3> QED
      BY <3>1, <3>2, <2>1, <1>3
  <2>2. ASSUME Len(scopes) = 1, Home # 1
        PROVE  FALSE
    <3>1. 1 < Home /\ h[1] < h[Home] /\ h[1] \in 1..1
      BY <2>2, <1>2, <1>4
    <3> QED
      BY <3>1, <2>2, <1>3
  <2> QED
    BY <2>1, <2>2 DEF is_global_scope
<1> QED
  BY <1>5, <1>6, <1>7, <1>8, <1>9

\* What check_expr and insert_name refuse is then a flaw, and the other way round.
LEMMA RefusalsAreFlaws ==
  ASSUME IInv, ~errors
  PROVE  /\ \A e \in Exprs : Refused(e) <=> Flawed(e)
         /\ \A n \in Names : name_is_taken(n) <=> Redeclared(n)
<1>1. ASSUME NEW e \in Exprs
      PROVE  e.name # NoName => e.name \in Names
  <2>1. CASE e \in [name : Names \cup {NoName}, typed : {TRUE}]
    BY <2>1
  <2>2. CASE e \in {[name |-> NoName, typed |-> FALSE]}
    BY <2>2
  <2> QED
    BY <2>1, <2>2 DEF Exprs
<1>2. ASSUME NEW e \in Exprs
      PROVE  Refused(e) <=> Flawed(e)
  <2>1. e.name # NoName => lookup_var(e.name) = Lexical(e.name)
    BY <1>1, Agreement
  <2> QED
    BY <2>1 DEF Refused, Flawed
<1>3. \A n \in Names : name_is_taken(n) <=> Redeclared(n)
  BY Agreement DEF name_is_taken, Redeclared
<1> QED
  BY <1>2, <1>3

-----------------------------------------------------------------------------
(***************************************************************************)
(* The steps.                                                              *)
(***************************************************************************)
\* The invariant holds before the first declaration.
LEMMA InitIInv == Init => IInv
<1> SUFFICES ASSUME Init PROVE IInv
  OBVIOUS
<1> DEFINE layer == Layer(FALSE)
           root == Frame("Root", NoName)
<1>1. layer \in LayerType /\ layer.is_loop = FALSE /\ \A n \in Names : layer.names[n] = 0
  BY CheckerAssumption DEF Layer, LayerType
<1>2. root \in FrameType /\ root.kind = "Root" /\ root.declared = {} /\ root.ok = TRUE
  BY DEF Frame, FrameType, FrameKinds
<1> HIDE DEF layer, root
<1>3. /\ scopes = <<layer>> /\ frames = <<root>> /\ ~errors
      /\ Len(scopes) = 1 /\ Len(frames) = 1 /\ scopes[1] = layer /\ frames[1] = root
  BY DEF Init, layer, root
<1>4. scopes \in Seq(LayerType) /\ frames \in Seq(FrameType)
  BY <1>1, <1>2, <1>3
<1>5. Typed
  <2>1. NoFn \in Entry
    BY DEF NoFn, Entry
  <2>2. functions \in [Names -> Entry] /\ \A n \in Names : ~Declared(n)
    BY <2>1 DEF Init, Declared
  <2>3. Len(frames) \in 1..(MaxFrames + 1)
    BY <1>3, CheckerAssumption
  <2> QED
    BY <2>2, <2>3, <1>4 DEF Typed, Init
<1>6. Shape /\ Reported /\ CurrentFunctionFresh /\ Apart
  BY <1>2, <1>3 DEF Shape, Reported, CurrentFunctionFresh, Apart, Init
<1>7. Sync(scopes, frames, ~errors)
  <2>1. ScopedIn(frames) = {1}
    BY <1>2, <1>3 DEF ScopedIn
  <2>2. LayerOf(scopes[1], frames[1], 1)
    BY <1>1, <1>2, <1>3 DEF LayerOf
  <2> DEFINE g == [k \in {1} |-> 1]
  <2>3. g \in [{1} -> 1..Len(scopes)] /\ g[1] = 1
    BY <1>3
  <2> HIDE DEF g
  <2>4. /\ \A j, k \in {1} : j < k => g[j] < g[k]
        /\ \A i \in 1..Len(scopes) : \E k \in {1} : g[k] = i
        /\ \A k \in {1} : LayerOf(scopes[g[k]], frames[k], k)
    <3>1. \A i \in 1..Len(scopes) : i = g[1]
      BY <2>3, <1>3
    <3> QED
      BY <3>1, <2>2, <2>3
  <2>5. SyncBy(g, scopes, frames, ~errors)
    BY <2>1, <2>3, <2>4 DEF SyncBy
  <2> QED
    BY <2>5 DEF Sync
<1>8. Judged
  BY DEF Init, Judged
<1> QED
  BY <1>5, <1>6, <1>7, <1>8 DEF IInv

\* As long as the checker runs, a step that refuses what is flawed keeps Judged.
LEMMA JudgedStep ==
  ASSUME IInv, Running, verdict' = verdict, NEW refused \in BOOLEAN, NEW flawed \in BOOLEAN,
         errors' = (errors \/ refused), flaw' = (flaw \/ flawed),
         ~errors => (refused => flawed), ~errors /\ Plain => (flawed => refused)
  PROVE  Judged' /\ errors' \in BOOLEAN /\ flaw' \in BOOLEAN
<1>1. Plain' = Plain
  BY DEF Plain, main_is_valid, IsMainType
<1>2. errors \in BOOLEAN /\ flaw \in BOOLEAN /\ verdict' = "running"
  BY DEF IInv, Typed, Running
<1> QED
  BY <1>1, <1>2 DEF IInv, Judged

\* A handler that changes neither the frames nor what they depend on.
LEMMA KeptStep ==
  ASSUME IInv, Running, UNCHANGED <<code, frames, verdict>>, NEW refused \in BOOLEAN, NEW flawed \in BOOLEAN,
         errors' = (errors \/ refused), flaw' = (flaw \/ flawed),
         ret' \in {"call", "ok", "failed"}, ret' = "failed" => errors',
         ~errors => (refused => flawed), ~errors => (flawed => refused)
  PROVE  IInv'
<1>1. Judged' /\ errors' \in BOOLEAN /\ flaw' \in BOOLEAN
  BY JudgedStep
<1>2. Typed'
  BY <1>1 DEF IInv, Typed, code, Declared
<1>3. Shape' /\ CurrentFunctionFresh' /\ Apart'
  BY DEF IInv, Shape, CurrentFunctionFresh, Apart, Declared, code
<1>4. Reported'
  BY DEF IInv, Reported
<1>5. Sync(scopes, frames, ~errors)'
  <2>1. ~errors' => ~errors
    OBVIOUS
  <2> QED
    BY <2>1, <1>1, SyncSame DEF IInv, Typed, code
<1> QED
  BY <1>1, <1>2, <1>3, <1>4, <1>5 DEF IInv

\* In a statement, current_function is the function around it.
LEMMA InFunction ==
  ASSUME IInv, AtStmt
  PROVE  /\ Enclosing = 2 /\ current_function = frames[2].fn /\ current_function # NoName
         /\ return_type(current_function) = return_type(frames[Enclosing].fn)
<1>1. Len(frames) \in Nat /\ Len(frames) >= 1
  BY CheckerAssumption DEF IInv, Typed
<1>2. Top = frames[Len(frames)] /\ Top.kind # "Root"
  BY DEF AtStmt, Top, Last
<1>3. 2 \in 1..Len(frames)
  BY <1>1, <1>2 DEF IInv, Shape
<1>4. frames[2].kind = "Function" /\ \A k \in 1..Len(frames) : frames[k].kind = "Function" => k = 2
  BY <1>3 DEF IInv, Shape
<1>5. Enclosing = 2
  BY <1>3, <1>4 DEF Enclosing
<1>6. current_function = frames[2].fn /\ frames[2].fn \in Names
  BY <1>3, <1>4 DEF IInv, Shape, CurrentFunctionFresh
<1> QED
  BY <1>5, <1>6, CheckerAssumption

\* An expression statement.
LEMMA CheckExprStep ==
  ASSUME IInv, NEW e \in Exprs, check_expr(e)
  PROVE  IInv'
<1>1. Running
  BY DEF check_expr, AtStmt
<1> QED
  BY <1>1, KeptStep, RefusalsAreFlaws DEF check_expr, Return, Refused, Flawed

\* break and continue.
LEMMA CheckJumpStep == ASSUME IInv, check_jump PROVE IInv'
<1>1. Running
  BY DEF check_jump, AtStmt
<1> QED
  BY <1>1, KeptStep, Agreement DEF check_jump, Return, is_in_loop, InLoop

\* return, with or without a value.
LEMMA CheckReturnStep ==
  ASSUME IInv, check_return_bare \/ \E e \in Exprs : check_return_value(e)
  PROVE  IInv'
<1>1. Running /\ AtStmt
  BY DEF check_return_bare, check_return_value, AtStmt
<1>2. CASE check_return_bare
  BY <1>1, <1>2, KeptStep, InFunction DEF check_return_bare, Return
<1>3. ASSUME NEW e \in Exprs, check_return_value(e)
      PROVE  IInv'
  BY <1>1, <1>3, KeptStep, InFunction, RefusalsAreFlaws DEF check_return_value, Return, Refused, Flawed
<1> QED
  BY <1>2, <1>3

\* A structure, whatever comes of it.
LEMMA CheckStructureStep == ASSUME IInv, NEW ok \in BOOLEAN, check_structure(ok) PROVE IInv'
<1>1. Running
  BY DEF check_structure, AtGlobal
<1> QED
  BY <1>1, KeptStep DEF check_structure, Return

\* The name n goes into the innermost scope.
LEMMA InsertKeepsSync ==
  ASSUME IInv, NEW n \in Names, Insert(n)
  PROVE  /\ scopes' \in Seq(LayerType) /\ frames' \in Seq(FrameType)
         /\ Len(frames') = Len(frames)
         /\ \A k \in 1..Len(frames) :
              /\ frames'[k].kind = frames[k].kind /\ frames'[k].fn = frames[k].fn
              /\ frames'[k].ok = frames[k].ok
              /\ frames'[k].declared = IF k = Home THEN frames[k].declared \cup {n} ELSE frames[k].declared
         /\ Sync(scopes', frames', ~errors)
<1> DEFINE last == Len(scopes)
           layer == [scopes[last] EXCEPT !.names[n] = Home]
           f == [frames[Home] EXCEPT !.declared = @ \cup {n}]
<1>1. PICK h : SyncBy(h, scopes, frames, ~errors)
  BY DEF IInv, Sync
<1>2. /\ Scoped = ScopedIn(frames) /\ 1 \in Scoped /\ Home \in Scoped /\ \A k \in Scoped : k <= Home
      /\ Home \in 1..Len(frames) /\ Home \in 1..(MaxFrames + 1)
  BY Homes DEF IInv
<1>3. /\ scopes \in Seq(LayerType) /\ frames \in Seq(FrameType)
      /\ Len(scopes) \in Nat /\ Len(frames) \in Nat
  BY LenProperties DEF IInv, Typed
<1>4. last \in 1..Len(scopes)
  BY <1>1, <1>2, <1>3 DEF SyncBy
<1>5. scopes[last] \in LayerType /\ frames[Home] \in FrameType
  BY <1>2, <1>3, <1>4, ElementOfSeq
<1>6. /\ layer \in LayerType /\ layer.is_loop = scopes[last].is_loop
      /\ \A m \in Names : layer.names[m] = IF m = n THEN Home ELSE scopes[last].names[m]
  <2> DEFINE names == [scopes[last].names EXCEPT ![n] = Home]
  <2>1. scopes[last].names \in [Names -> 0..(MaxFrames + 1)] /\ scopes[last].is_loop \in BOOLEAN
    BY <1>5 DEF LayerType
  <2>2. Home \in 0..(MaxFrames + 1)
    BY <1>2, CheckerAssumption
  <2>3. /\ names \in [Names -> 0..(MaxFrames + 1)]
        /\ \A m \in Names : names[m] = IF m = n THEN Home ELSE scopes[last].names[m]
    BY <2>1, <2>2
  <2>4. layer = [scopes[last] EXCEPT !.names = names]
    OBVIOUS
  <2> HIDE DEF names, layer, last
  <2>5. layer \in LayerType /\ layer.names = names /\ layer.is_loop = scopes[last].is_loop
    BY <2>3, <2>4, <1>5 DEF LayerType
  <2> QED
    BY <2>3, <2>5
<1>7. /\ f \in FrameType /\ f.kind = frames[Home].kind /\ f.fn = frames[Home].fn
      /\ f.ok = frames[Home].ok /\ f.declared = frames[Home].declared \cup {n}
  BY <1>5 DEF FrameType
<1>8. scopes' = [scopes EXCEPT ![last] = layer] /\ frames' = [frames EXCEPT ![Home] = f]
  BY DEF Insert
<1> HIDE DEF layer, f, last
<1>9. /\ scopes' \in Seq(LayerType) /\ Len(scopes') = Len(scopes)
      /\ \A i \in 1..Len(scopes) : scopes'[i] = IF i = last THEN layer ELSE scopes[i]
  BY <1>3, <1>4, <1>6, <1>8, ExceptSeq
<1>10. /\ frames' \in Seq(FrameType) /\ Len(frames') = Len(frames)
       /\ \A k \in 1..Len(frames) : frames'[k] = IF k = Home THEN f ELSE frames[k]
  BY <1>2, <1>3, <1>7, <1>8, ExceptSeq
<1>11. \A k \in 1..Len(frames) :
         /\ frames'[k].kind = frames[k].kind /\ frames'[k].fn = frames[k].fn
         /\ frames'[k].ok = frames[k].ok
         /\ frames'[k].declared = IF k = Home THEN frames[k].declared \cup {n} ELSE frames[k].declared
  BY <1>7, <1>10
<1>12. ScopedIn(frames') = ScopedIn(frames)
  BY <1>10, <1>11 DEF ScopedIn
<1>13. ASSUME ~errors, NEW k \in ScopedIn(frames)
       PROVE  LayerOf(scopes'[h[k]], frames'[k], k)
  <2>1. h[k] \in 1..Len(scopes) /\ LayerOf(scopes[h[k]], frames[k], k) /\ k \in 1..Len(frames)
    BY <1>1, <1>13 DEF SyncBy, ScopedIn
  <2>2. h[Home] = last
    <3>1. SyncBy(h, scopes, frames, TRUE)
      BY <1>1, <1>13 DEF SyncBy
    <3> QED
      BY <3>1, <1>2, <1>3, LastLayer DEF Home, last
  <2>3. CASE k = Home
    BY <2>1, <2>2, <2>3, <1>6, <1>7, <1>9, <1>10 DEF LayerOf
  <2>4. CASE k # Home
    <3>1. k < Home /\ h[k] < h[Home]
      BY <2>1, <2>4, <1>1, <1>2, <1>13 DEF SyncBy
    <3>2. h[k] # last
      BY <3>1, <2>1, <2>2
    <3> QED
      BY <3>2, <2>1, <2>4, <1>9, <1>10
  <2> QED
    BY <2>3, <2>4
<1>14. SyncBy(h, scopes', frames', ~errors)
  BY <1>1, <1>9, <1>12, <1>13 DEF SyncBy
<1> QED
  BY <1>9, <1>10, <1>11, <1>14 DEF Sync

\* declare_variable and check_declare_assign: a name is declared, or refused.
LEMMA DeclareStep ==
  ASSUME IInv, Running, NEW n \in Names, NEW refused \in BOOLEAN, NEW flawed \in BOOLEAN,
         Return(~refused), IF ~refused THEN Insert(n) ELSE UNCHANGED <<scopes, frames>>,
         flaw' = (flaw \/ flawed),
         ~errors => (refused => flawed), ~errors => (flawed => refused), Redeclared(n) => flawed,
         UNCHANGED <<functions, current_function, stale, verdict>>
  PROVE  IInv'
<1>1. CASE refused
  BY <1>1, KeptStep DEF Return, code
<1>2. CASE ~refused
  <2>1. errors' = errors /\ ret' = "ok"
    BY <1>2 DEF Return, IInv, Typed
  <2>2. /\ scopes' \in Seq(LayerType) /\ frames' \in Seq(FrameType)
        /\ Len(frames') = Len(frames)
        /\ \A k \in 1..Len(frames) :
             /\ frames'[k].kind = frames[k].kind /\ frames'[k].fn = frames[k].fn
             /\ frames'[k].ok = frames[k].ok
             /\ frames'[k].declared = IF k = Home THEN frames[k].declared \cup {n} ELSE frames[k].declared
        /\ Sync(scopes', frames', ~errors)
    BY <1>2, InsertKeepsSync
  <2>3. Judged' /\ errors' \in BOOLEAN /\ flaw' \in BOOLEAN
    BY <1>2, JudgedStep DEF Return
  <2>4. Typed'
    BY <2>1, <2>2, <2>3 DEF IInv, Typed, Declared
  <2>5. Shape' /\ CurrentFunctionFresh' /\ Reported'
    BY <2>1, <2>2 DEF IInv, Shape, CurrentFunctionFresh, Reported
  <2>6. Sync(scopes, frames, ~errors)'
    BY <2>1, <2>2
  <2>7. Apart'
    <3>1. 1 \in 1..Len(frames)
      BY DEF IInv, Typed
    <3>2. ~errors => ~Redeclared(n)
      BY <1>2
    <3> QED
      BY <2>1, <2>2, <3>1, <3>2 DEF IInv, Apart, Redeclared, Declared
  <2> QED
    BY <2>3, <2>4, <2>5, <2>6, <2>7 DEF IInv
<1> QED
  BY <1>1, <1>2

\* A variable without an initializer.
LEMMA DeclareVariableStep ==
  ASSUME IInv, NEW n \in Names, NEW typed \in BOOLEAN, declare_variable(n, typed)
  PROVE  IInv'
<1> DEFINE refused == ~(typed /\ ~name_is_taken(n))
           flawed == ~typed \/ Redeclared(n)
<1>1. Running
  BY DEF declare_variable, AtDeclaration, AtStmt
<1>2. (~errors => (refused <=> flawed)) /\ (Redeclared(n) => flawed)
  BY RefusalsAreFlaws
<1>3. refused \in BOOLEAN /\ flawed \in BOOLEAN
  BY DEF name_is_taken, Redeclared
<1>4. /\ Return(~refused) /\ IF ~refused THEN Insert(n) ELSE UNCHANGED <<scopes, frames>>
      /\ flaw' = (flaw \/ flawed)
      /\ UNCHANGED <<functions, current_function, stale, verdict>>
  BY DEF declare_variable
<1> HIDE DEF refused, flawed
<1> QED
  BY <1>1, <1>2, <1>3, <1>4, DeclareStep

\* A variable with an initializer, which does not see the name.
LEMMA DeclareAssignStep ==
  ASSUME IInv, NEW n \in Names, NEW e \in Exprs, check_declare_assign(n, e)
  PROVE  IInv'
<1> DEFINE refused == ~(~Refused(e) /\ (is_global_scope => e.name = NoName) /\ ~name_is_taken(n))
           flawed == Flawed(e) \/ (Home = 1 /\ e.name # NoName) \/ Redeclared(n)
<1>1. Running
  BY DEF check_declare_assign, AtDeclaration, AtStmt
<1>2. (~errors => (refused <=> flawed)) /\ (Redeclared(n) => flawed)
  BY RefusalsAreFlaws, Agreement
<1>3. refused \in BOOLEAN /\ flawed \in BOOLEAN
  BY DEF Refused, Flawed, name_is_taken, Redeclared
<1>4. /\ Return(~refused) /\ IF ~refused THEN Insert(n) ELSE UNCHANGED <<scopes, frames>>
      /\ flaw' = (flaw \/ flawed)
      /\ UNCHANGED <<functions, current_function, stale, verdict>>
  BY DEF check_declare_assign
<1> HIDE DEF refused, flawed
<1> QED
  BY <1>1, <1>2, <1>3, <1>4, DeclareStep

-----------------------------------------------------------------------------
(***************************************************************************)
(* The steps that change the frames.                                       *)
(***************************************************************************)

\* The top handler: the root is the only one below the function.
LEMMA TopFacts ==
  ASSUME IInv
  PROVE  /\ frames \in Seq(FrameType) /\ scopes \in Seq(LayerType) /\ frames # <<>>
         /\ Len(frames) \in Nat \ {0} /\ Len(frames) <= MaxFrames + 1
         /\ Len(frames) \in 1..Len(frames)
         /\ Top = frames[Len(frames)] /\ Top \in FrameType
         /\ Top.kind = "Root" => Len(frames) = 1
         /\ Top.kind = "Function" => Len(frames) = 2
         /\ Top.kind # "Root" => Len(frames) > 1
         /\ Top.kind \in {"Block", "If", "For", "ForInit"} => Len(frames) > 2
         /\ 1 \in ScopedIn(frames)
         /\ Len(frames) \in ScopedIn(frames) <=> Top.kind \in {"Root", "Function", "Block", "For"}
<1>1. frames \in Seq(FrameType) /\ scopes \in Seq(LayerType)
  BY DEF IInv, Typed
<1>2. Len(frames) \in Nat \ {0} /\ Len(frames) <= MaxFrames + 1
  BY CheckerAssumption DEF IInv, Typed
<1>3. frames # <<>> /\ Top = frames[Len(frames)]
  BY <1>1, <1>2 DEF Top, Last
<1>4. Top \in FrameType
  BY <1>1, <1>2, <1>3, ElementOfSeq
<1>5. Len(frames) \in 1..Len(frames) /\ 1 \in 1..Len(frames)
  BY <1>2
<1>6. /\ Top.kind = "Root" <=> Len(frames) = 1
      /\ Top.kind = "Function" <=> Len(frames) = 2
  BY <1>3, <1>5 DEF IInv, Shape
<1>7. frames[1].kind = "Root"
  BY <1>5 DEF IInv, Shape
<1>8. /\ Top.kind # "Root" => Len(frames) > 1
      /\ Top.kind \in {"Block", "If", "For", "ForInit"} => Len(frames) > 2
  <2> DEFINE kind == Top.kind
             n == Len(frames)
  <2> HIDE DEF kind, n
  <2>1. (kind = "Root" <=> n = 1) /\ (kind = "Function" <=> n = 2) /\ n \in Nat /\ n # 0
    BY <1>2, <1>6 DEF kind, n
  <2>2. (kind # "Root" => n > 1) /\ (kind \in {"Block", "If", "For", "ForInit"} => n > 2)
    BY <2>1
  <2> QED
    BY <2>2 DEF kind, n
<1>9. Len(frames) \in ScopedIn(frames) <=> Top.kind \in {"Root", "Function", "Block", "For"}
  BY <1>3, <1>5 DEF ScopedIn
<1>10. 1 \in ScopedIn(frames)
  BY <1>5, <1>7 DEF ScopedIn
<1> QED
  BY <1>1, <1>2, <1>3, <1>4, <1>6, <1>8, <1>9, <1>10

\* A step inside a function, or between two global statements: no frame changes
\* its kind, a new one is that of a statement, and nothing fails silently.
LEMMA FramesStep ==
  ASSUME IInv, Running, UNCHANGED <<functions, current_function, stale, verdict>>,
         NEW refused \in BOOLEAN, NEW flawed \in BOOLEAN,
         errors' = (errors \/ refused), flaw' = (flaw \/ flawed),
         ~errors => (refused => flawed), ~errors /\ Plain => (flawed => refused),
         frames' \in Seq(FrameType), Len(frames') \in 1..(MaxFrames + 1), scopes' \in Seq(LayerType),
         \A k \in 1..Len(frames') :
           \/ /\ k \in 1..Len(frames)
              /\ frames'[k].kind = frames[k].kind /\ frames'[k].fn = frames[k].fn
              /\ frames'[k].ok = frames[k].ok \/ errors' \/ frames'[k].ok
              /\ k = 1 => frames'[k].declared = frames[k].declared
           \/ k \notin {1, 2} /\ frames'[k].kind \in {"Block", "If", "For", "ForInit"} /\ frames'[k].ok,
         ret' \in {"call", "ok", "failed"}, ret' = "failed" => errors',
         Sync(scopes', frames', ~errors')
  PROVE  IInv'
<1>1. Judged' /\ errors' \in BOOLEAN /\ flaw' \in BOOLEAN
  BY JudgedStep
<1>2. Typed'
  BY <1>1 DEF IInv, Typed, Declared
<1>3. Shape'
  BY DEF IInv, Shape
<1>4. CurrentFunctionFresh'
  BY DEF IInv, CurrentFunctionFresh
<1>5. Reported'
  BY <1>1 DEF IInv, Reported
<1>6. Apart'
  <2>1. 1 \in 1..Len(frames')
    OBVIOUS
  <2> QED
    BY <2>1, <1>1 DEF IInv, Apart, Declared
<1> QED
  BY <1>1, <1>2, <1>3, <1>4, <1>5, <1>6 DEF IInv

\* The top handler returns.
LEMMA LeaveFacts ==
  ASSUME IInv, Len(frames) > 1, NEW ok \in BOOLEAN, Leave(ok)
  PROVE  /\ frames' \in Seq(FrameType) /\ Len(frames') \in 1..(MaxFrames + 1)
         /\ \A k \in 1..Len(frames') : k \in 1..Len(frames) /\ frames'[k] = frames[k]
         /\ ret' \in {"call", "ok", "failed"}
         /\ ret' = "failed" <=> ~ok
<1>1. /\ frames' = Front(frames) /\ frames \in Seq(FrameType) /\ frames # <<>>
      /\ Len(frames) \in Nat /\ Len(frames) <= MaxFrames + 1
  BY TopFacts DEF Leave
<1>2. /\ Front(frames) \in Seq(FrameType) /\ Len(Front(frames)) = Len(frames) - 1
      /\ \A k \in 1..(Len(frames) - 1) : Front(frames)[k] = frames[k]
  BY <1>1, FrontProperties
<1>3. Len(frames') \in 1..(MaxFrames + 1)
  BY <1>1, <1>2, CheckerAssumption
<1>4. \A k \in 1..Len(frames') : k \in 1..Len(frames) /\ frames'[k] = frames[k]
  BY <1>1, <1>2
<1> QED
  BY <1>1, <1>2, <1>3, <1>4 DEF Leave

\* The frame at m goes on with its kind and names.
LEMMA ExceptFacts ==
  ASSUME IInv, NEW m \in 1..Len(frames), NEW f \in FrameType,
         frames' = [frames EXCEPT ![m] = f],
         f.kind = frames[m].kind, f.fn = frames[m].fn, f.declared = frames[m].declared
  PROVE  /\ frames' \in Seq(FrameType) /\ Len(frames') = Len(frames) /\ Len(frames') \in 1..(MaxFrames + 1)
         /\ \A k \in 1..Len(frames) :
              /\ frames'[k].kind = frames[k].kind /\ frames'[k].fn = frames[k].fn
              /\ frames'[k].declared = frames[k].declared
              /\ frames'[k] = IF k = m THEN f ELSE frames[k]
         /\ \A still \in BOOLEAN : (still => ~errors) => Sync(scopes, frames', still)
<1>1. frames \in Seq(FrameType) /\ Len(frames) \in 1..(MaxFrames + 1) /\ scopes \in Seq(LayerType)
  BY DEF IInv, Typed
<1>2. /\ frames' \in Seq(FrameType) /\ Len(frames') = Len(frames)
      /\ \A k \in 1..Len(frames) : frames'[k] = IF k = m THEN f ELSE frames[k]
  BY <1>1, ExceptSeq
<1>3. \A k \in 1..Len(frames) :
        /\ frames'[k].kind = frames[k].kind /\ frames'[k].fn = frames[k].fn
        /\ frames'[k].declared = frames[k].declared
  BY <1>2
<1>4. Sync(scopes, frames, ~errors) /\ (~errors) \in BOOLEAN
  BY DEF IInv
<1>5. ASSUME NEW still \in BOOLEAN, still => ~errors
      PROVE  Sync(scopes, frames', still)
  BY <1>1, <1>2, <1>3, <1>4, <1>5, SyncSame
<1> QED
  BY <1>1, <1>2, <1>3, <1>5

\* A handler begins at a statement.
LEMMA AppendFacts ==
  ASSUME IInv, CanNest, NEW kind \in {"Block", "If", "For"}
  PROVE  LET f == Frame(kind, NoName)
         IN  /\ f \in FrameType /\ f.kind = kind /\ f.ok /\ f.declared = {}
             /\ Append(frames, f) \in Seq(FrameType)
             /\ Len(Append(frames, f)) = Len(frames) + 1 /\ Len(frames) + 2 \in 1..(MaxFrames + 1)
             /\ Append(frames, f)[Len(frames) + 1] = f
             /\ \A k \in 1..Len(frames) : Append(frames, f)[k] = frames[k]
             /\ Len(frames) \in Nat /\ Len(frames) > 1
<1> DEFINE f == Frame(kind, NoName)
<1>1. f \in FrameType /\ f.kind = kind /\ f.ok /\ f.declared = {}
  BY DEF Frame, FrameType, FrameKinds
<1> HIDE DEF f
<1>2. frames \in Seq(FrameType) /\ Len(frames) \in Nat /\ Len(frames) > 1
  BY TopFacts DEF CanNest, AtStmt
<1>3. Len(frames) + 2 \in 1..(MaxFrames + 1)
  BY <1>2, CheckerAssumption DEF CanNest
<1> QED
  BY <1>1, <1>2, <1>3, AppendProperties DEF f

\* What the handlers of nested statements share when they begin with a scope.
LEMMA PushedSync ==
  ASSUME IInv, CanNest, NEW kind \in {"Block", "For"}
  PROVE  LET layer == Layer(kind = "For")
         IN  /\ Append(scopes, layer) \in Seq(LayerType)
             /\ Sync(Append(scopes, layer), Append(frames, Frame(kind, NoName)), ~errors)
<1> DEFINE layer == Layer(kind = "For")
           f == Frame(kind, NoName)
<1>1. layer \in LayerType /\ layer.is_loop = (kind = "For") /\ \A n \in Names : layer.names[n] = 0
  BY CheckerAssumption DEF Layer, LayerType
<1>2. f \in FrameType /\ f.kind = kind /\ f.declared = {}
  BY AppendFacts
<1> HIDE DEF layer, f
<1>3. LayerOf(layer, f, Len(frames) + 1)
  BY <1>1, <1>2 DEF LayerOf
<1>4. scopes \in Seq(LayerType) /\ frames \in Seq(FrameType) /\ Sync(scopes, frames, ~errors) /\ (~errors) \in BOOLEAN
  BY DEF IInv, Typed
<1>5. Sync(Append(scopes, layer), Append(frames, f), ~errors)
  BY <1>1, <1>2, <1>3, <1>4, SyncPush
<1>6. Append(scopes, layer) \in Seq(LayerType)
  BY <1>1, <1>4, AppendProperties
<1> QED
  BY <1>5, <1>6 DEF layer, f

\* A block pushes a scope and a frame that holds names.
LEMMA CheckBlockStep == ASSUME IInv, check_block PROVE IInv'
<1> DEFINE f == Frame("Block", NoName)
<1>1. /\ CanNest /\ Running /\ ret = "call"
      /\ frames' = Append(frames, f) /\ scopes' = Append(scopes, Layer(FALSE))
      /\ UNCHANGED <<functions, current_function, stale, errors, ret, verdict, flaw>>
  BY DEF check_block, CanNest, AtStmt
<1>2. Layer("Block" = "For") = Layer(FALSE)
  BY DEF Layer
<1>3. scopes' \in Seq(LayerType) /\ Sync(scopes', frames', ~errors')
  BY <1>1, <1>2, PushedSync
<1>4. /\ f.kind = "Block" /\ f.ok /\ frames' \in Seq(FrameType)
      /\ Len(frames') = Len(frames) + 1 /\ Len(frames) + 2 \in 1..(MaxFrames + 1)
      /\ frames'[Len(frames) + 1] = f /\ \A k \in 1..Len(frames) : frames'[k] = frames[k]
      /\ Len(frames) \in Nat /\ Len(frames) > 1
  BY <1>1, AppendFacts
<1> HIDE DEF f
<1>5. Len(frames') \in 1..(MaxFrames + 1)
  BY <1>4, CheckerAssumption
<1>6. \A k \in 1..Len(frames') :
        \/ /\ k \in 1..Len(frames)
           /\ frames'[k].kind = frames[k].kind /\ frames'[k].fn = frames[k].fn
           /\ frames'[k].ok = frames[k].ok \/ errors' \/ frames'[k].ok
           /\ k = 1 => frames'[k].declared = frames[k].declared
        \/ k \notin {1, 2} /\ frames'[k].kind \in {"Block", "If", "For", "ForInit"} /\ frames'[k].ok
  <2> SUFFICES ASSUME NEW k \in 1..Len(frames'), k \notin 1..Len(frames)
               PROVE  k \notin {1, 2} /\ frames'[k].kind = "Block" /\ frames'[k].ok
    BY <1>4
  <2>1. k = Len(frames) + 1
    BY <1>4
  <2> QED
    BY <2>1, <1>4
<1>7. errors' = (errors \/ FALSE) /\ flaw' = (flaw \/ FALSE)
  BY <1>1 DEF IInv, Typed
<1> QED
  BY <1>1, <1>3, <1>4, <1>5, <1>6, <1>7, FramesStep

\* The condition of an if.
LEMMA CheckIfStep ==
  ASSUME IInv, NEW e \in Exprs, check_if_stmt(e)
  PROVE  IInv'
<1> DEFINE f == Frame("If", NoName)
<1>1. CanNest /\ Running /\ ret = "call"
  BY DEF check_if_stmt, CanNest, AtStmt
<1>2. CASE Refused(e)
  <2>1. ~errors => Flawed(e)
    BY <1>2, RefusalsAreFlaws
  <2>2. Flawed(e) \in BOOLEAN
    BY DEF Flawed
  <2>3. /\ UNCHANGED <<code, frames, verdict>> /\ errors' = (errors \/ TRUE) /\ flaw' = (flaw \/ Flawed(e))
        /\ ret' = "failed"
    BY <1>2 DEF check_if_stmt, Return
  <2> HIDE DEF Flawed
  <2> QED
    BY <1>1, <2>1, <2>2, <2>3, KeptStep
<1>3. CASE ~Refused(e)
  <2>1. /\ frames' = Append(frames, f) /\ flaw' = (flaw \/ Flawed(e))
        /\ UNCHANGED <<functions, current_function, stale, scopes, errors, ret, verdict>>
    BY <1>3 DEF check_if_stmt, code
  <2>2. Flawed(e) \in BOOLEAN /\ (~errors => ~Flawed(e))
    BY <1>3, RefusalsAreFlaws DEF Flawed
  <2>3. /\ f \in FrameType /\ f.kind = "If" /\ f.ok /\ frames' \in Seq(FrameType)
        /\ Len(frames') = Len(frames) + 1 /\ Len(frames) + 2 \in 1..(MaxFrames + 1)
        /\ frames'[Len(frames) + 1] = f /\ \A k \in 1..Len(frames) : frames'[k] = frames[k]
        /\ Len(frames) \in Nat /\ Len(frames) > 1
    BY <1>1, <2>1, AppendFacts
  <2> HIDE DEF f
  <2>4. scopes' \in Seq(LayerType) /\ Sync(scopes', frames', ~errors')
    <3>1. scopes \in Seq(LayerType) /\ frames \in Seq(FrameType) /\ Sync(scopes, frames, ~errors) /\ (~errors) \in BOOLEAN
      BY DEF IInv, Typed
    <3>2. Sync(scopes, Append(frames, f), ~errors)
      BY <3>1, <2>3, SyncEnter
    <3> QED
      BY <3>1, <3>2, <2>1
  <2>5. Len(frames') \in 1..(MaxFrames + 1)
    BY <2>3, CheckerAssumption
  <2>6. \A k \in 1..Len(frames') :
          \/ /\ k \in 1..Len(frames)
             /\ frames'[k].kind = frames[k].kind /\ frames'[k].fn = frames[k].fn
             /\ frames'[k].ok = frames[k].ok \/ errors' \/ frames'[k].ok
             /\ k = 1 => frames'[k].declared = frames[k].declared
          \/ k \notin {1, 2} /\ frames'[k].kind \in {"Block", "If", "For", "ForInit"} /\ frames'[k].ok
    <3> SUFFICES ASSUME NEW k \in 1..Len(frames'), k \notin 1..Len(frames)
                 PROVE  k \notin {1, 2} /\ frames'[k].kind = "If" /\ frames'[k].ok
      BY <2>3
    <3>1. k = Len(frames) + 1
      BY <2>3
    <3> QED
      BY <3>1, <2>3
  <2>7. errors \in BOOLEAN /\ errors' = (errors \/ FALSE)
    BY <2>1 DEF IInv, Typed
  <2> HIDE DEF Flawed, Refused
  <2> QED
    BY <1>1, <2>1, <2>2, <2>3, <2>4, <2>5, <2>6, <2>7, FramesStep
<1> QED
  BY <1>2, <1>3

\* A loop pushes one scope for its init and its body.
LEMMA CheckForStep == ASSUME IInv, check_for_stmt PROVE IInv'
<1> DEFINE f == Frame("For", NoName)
           g == Frame("ForInit", NoName)
           fr == Append(frames, f)
<1>1. /\ CanNest /\ Running /\ ret = "call"
      /\ frames' = frames \o <<f, g>> /\ scopes' = Append(scopes, Layer(TRUE))
      /\ UNCHANGED <<functions, current_function, stale, errors, ret, verdict, flaw>>
  BY DEF check_for_stmt, CanNest, AtStmt
<1>2. Layer("For" = "For") = Layer(TRUE)
  BY DEF Layer
<1>3. scopes' \in Seq(LayerType) /\ Sync(scopes', fr, ~errors)
  BY <1>1, <1>2, PushedSync
<1>4. /\ f \in FrameType /\ f.kind = "For" /\ f.ok /\ fr \in Seq(FrameType)
      /\ Len(fr) = Len(frames) + 1 /\ Len(frames) + 2 \in 1..(MaxFrames + 1)
      /\ fr[Len(frames) + 1] = f /\ \A k \in 1..Len(frames) : fr[k] = frames[k]
      /\ Len(frames) \in Nat /\ Len(frames) > 1
  BY <1>1, AppendFacts
<1>5. g \in FrameType /\ g.kind = "ForInit" /\ g.ok
  BY DEF Frame, FrameType, FrameKinds
<1>6. frames \in Seq(FrameType)
  BY DEF IInv, Typed
<1> HIDE DEF f, g
<1>7. frames' = Append(fr, g)
  BY <1>1, <1>4, <1>5, <1>6
<1> HIDE DEF fr
<1>8. /\ frames' \in Seq(FrameType) /\ Len(frames') = Len(frames) + 2
      /\ frames'[Len(frames) + 2] = g /\ frames'[Len(frames) + 1] = f
      /\ \A k \in 1..Len(frames) : frames'[k] = frames[k]
  <2>1. /\ frames' \in Seq(FrameType) /\ Len(frames') = Len(fr) + 1 /\ frames'[Len(fr) + 1] = g
        /\ \A k \in 1..Len(fr) : frames'[k] = fr[k]
    BY <1>4, <1>5, <1>7, AppendProperties
  <2> QED
    BY <2>1, <1>4
<1>9. Sync(scopes', frames', ~errors')
  <2>1. (~errors) \in BOOLEAN /\ errors' = errors
    BY <1>1
  <2>2. Sync(scopes', Append(fr, g), ~errors)
    BY <1>3, <1>4, <1>5, <2>1, SyncEnter
  <2> QED
    BY <2>1, <2>2, <1>7
<1>10. \A k \in 1..Len(frames') :
         \/ /\ k \in 1..Len(frames)
            /\ frames'[k].kind = frames[k].kind /\ frames'[k].fn = frames[k].fn
            /\ frames'[k].ok = frames[k].ok \/ errors' \/ frames'[k].ok
            /\ k = 1 => frames'[k].declared = frames[k].declared
         \/ k \notin {1, 2} /\ frames'[k].kind \in {"Block", "If", "For", "ForInit"} /\ frames'[k].ok
  <2> SUFFICES ASSUME NEW k \in 1..Len(frames'), k \notin 1..Len(frames)
               PROVE  k \notin {1, 2} /\ frames'[k].kind \in {"For", "ForInit"} /\ frames'[k].ok
    BY <1>8
  <2>1. k = Len(frames) + 1 \/ k = Len(frames) + 2
    BY <1>4, <1>8
  <2> QED
    BY <2>1, <1>4, <1>5, <1>8
<1>11. Len(frames') \in 1..(MaxFrames + 1)
  BY <1>4, <1>8
<1>12. errors' = (errors \/ FALSE) /\ flaw' = (flaw \/ FALSE)
  BY <1>1 DEF IInv, Typed
<1> QED
  BY <1>1, <1>3, <1>8, <1>9, <1>10, <1>11, <1>12, FramesStep

\* A handler returns with its layer, or has none, or leaves it after a refusal.
LEMMA LeaveSync ==
  ASSUME IInv, Len(frames) > 1, frames' = Front(frames),
         \/ UNCHANGED scopes /\ (~errors => Len(frames) \notin ScopedIn(frames))
         \/ scopes' = Front(scopes) /\ Len(frames) \in ScopedIn(frames),
         UNCHANGED errors
  PROVE  scopes' \in Seq(LayerType) /\ Sync(scopes', frames', ~errors')
<1>1. /\ frames \in Seq(FrameType) /\ scopes \in Seq(LayerType) /\ frames # <<>>
      /\ 1 \in ScopedIn(frames) /\ Sync(scopes, frames, ~errors) /\ (~errors) \in BOOLEAN
  BY TopFacts DEF IInv
<1>2. CASE UNCHANGED scopes /\ (~errors => Len(frames) \notin ScopedIn(frames))
  <2>1. Sync(scopes, Front(frames), ~errors)
    BY <1>1, <1>2, SyncLeave
  <2> QED
    BY <2>1, <1>1, <1>2
<1>3. CASE scopes' = Front(scopes) /\ Len(frames) \in ScopedIn(frames)
  <2>1. Sync(Front(scopes), Front(frames), ~errors) /\ Len(scopes) > 1
    BY <1>1, <1>3, SyncPop
  <2>2. scopes # <<>>
    BY <2>1, <1>1, EmptySeq, LenProperties
  <2>3. Front(scopes) \in Seq(LayerType)
    BY <2>2, <1>1, FrontProperties
  <2> QED
    BY <2>1, <2>3, <1>3
<1> QED
  BY <1>2, <1>3

\* Any handler that returns without an error has popped the scope that it pushed.
LEMMA LeaveStep ==
  ASSUME IInv, Running, Len(frames) > 1, NEW ok \in BOOLEAN, Leave(ok), ~ok => errors,
         \/ UNCHANGED scopes /\ (~errors => Len(frames) \notin ScopedIn(frames))
         \/ scopes' = Front(scopes) /\ Len(frames) \in ScopedIn(frames),
         UNCHANGED <<functions, current_function, stale, errors, verdict, flaw>>
  PROVE  IInv'
<1>1. scopes' \in Seq(LayerType) /\ Sync(scopes', frames', ~errors')
  BY LeaveSync DEF Leave
<1>2. /\ frames' \in Seq(FrameType) /\ Len(frames') \in 1..(MaxFrames + 1)
      /\ \A k \in 1..Len(frames') : k \in 1..Len(frames) /\ frames'[k] = frames[k]
      /\ ret' \in {"call", "ok", "failed"} /\ (ret' = "failed" => errors')
  BY LeaveFacts
<1>3. errors' = (errors \/ FALSE) /\ flaw' = (flaw \/ FALSE)
  BY DEF IInv, Typed
<1> QED
  BY <1>1, <1>2, <1>3, FramesStep

\* The frame at m goes on.
LEMMA GoOnStep ==
  ASSUME IInv, Running, NEW m \in 1..Len(frames), NEW f \in FrameType,
         frames' = [frames EXCEPT ![m] = f],
         f.kind = frames[m].kind, f.fn = frames[m].fn, f.declared = frames[m].declared,
         NEW refused \in BOOLEAN, NEW flawed \in BOOLEAN,
         errors' = (errors \/ refused), flaw' = (flaw \/ flawed),
         ~errors => (refused => flawed), ~errors /\ Plain => (flawed => refused),
         ret' \in {"call", "ok", "failed"}, ret' = "failed" => errors',
         f.ok = frames[m].ok \/ f.ok \/ errors',
         UNCHANGED <<code, verdict>>
  PROVE  IInv'
<1>1. /\ frames' \in Seq(FrameType) /\ Len(frames') = Len(frames) /\ Len(frames') \in 1..(MaxFrames + 1)
      /\ \A k \in 1..Len(frames) :
           /\ frames'[k].kind = frames[k].kind /\ frames'[k].fn = frames[k].fn
           /\ frames'[k].declared = frames[k].declared
           /\ frames'[k] = IF k = m THEN f ELSE frames[k]
      /\ \A still \in BOOLEAN : (still => ~errors) => Sync(scopes, frames', still)
  BY ExceptFacts
<1>2. scopes' \in Seq(LayerType) /\ UNCHANGED <<scopes, functions, current_function, stale, verdict>>
  BY DEF IInv, Typed, code
<1>3. Sync(scopes', frames', ~errors')
  <2>1. (~errors') \in BOOLEAN /\ (~errors' => ~errors)
    BY DEF IInv, Typed
  <2> QED
    BY <2>1, <1>1, <1>2
<1>4. \A k \in 1..Len(frames') :
        /\ k \in 1..Len(frames)
        /\ frames'[k].kind = frames[k].kind /\ frames'[k].fn = frames[k].fn
        /\ frames'[k].ok = frames[k].ok \/ errors' \/ frames'[k].ok
        /\ frames'[k].declared = frames[k].declared
  BY <1>1
<1> QED
  BY <1>1, <1>2, <1>3, <1>4, FramesStep

\* The end of a block, or its next statement.
LEMMA BlockNextStep == ASSUME IInv, block_next PROVE IInv'
<1>1. Running /\ Top.kind = "Block" /\ UNCHANGED <<functions, current_function, stale, errors, verdict, flaw>>
  BY DEF block_next
<1>2. CASE ret = "ok" /\ ret' = "call" /\ UNCHANGED <<scopes, frames>>
  <2>1. errors' = (errors \/ FALSE) /\ flaw' = (flaw \/ FALSE)
    BY <1>1 DEF IInv, Typed
  <2> QED
    BY <2>1, <1>1, <1>2, KeptStep DEF code
<1>3. CASE ret \in {"call", "failed"} /\ scopes' = Front(scopes) /\ Leave(ret # "failed")
  <2>1. ret = "failed" => errors
    BY TopFacts DEF IInv, Reported
  <2>2. Len(frames) > 1 /\ Len(frames) \in ScopedIn(frames)
    BY <1>1, TopFacts
  <2> QED
    BY <1>1, <1>3, <2>1, <2>2, LeaveStep
<1> QED
  BY <1>2, <1>3 DEF block_next

\* What the top frame holds after an assignment to its stage or its ok.
LEMMA TopExcept ==
  ASSUME IInv, NEW s \in {"start", "else", "head", "body"}, NEW b \in BOOLEAN
  PROVE  LET m == Len(frames)
             f == [Top EXCEPT !.stage = s, !.ok = b]
         IN  /\ m \in 1..Len(frames) /\ f \in FrameType /\ Top = frames[m]
             /\ f.kind = Top.kind /\ f.fn = Top.fn /\ f.declared = Top.declared /\ f.ok = b
             /\ Top.ok \in BOOLEAN /\ Top.stage \in {"start", "else", "head", "body"}
             /\ [frames EXCEPT ![m].stage = s, ![m].ok = b] = [frames EXCEPT ![m] = f]
             /\ [frames EXCEPT ![m].stage = s] = [frames EXCEPT ![m] = [Top EXCEPT !.stage = s, !.ok = Top.ok]]
             /\ [frames EXCEPT ![m].ok = b] = [frames EXCEPT ![m] = [Top EXCEPT !.stage = Top.stage, !.ok = b]]
<1> DEFINE m == Len(frames)
           f == [Top EXCEPT !.stage = s, !.ok = b]
<1>1. m \in 1..Len(frames) /\ Top = frames[m] /\ Top \in FrameType /\ frames \in Seq(FrameType)
  BY TopFacts
<1>2. f \in FrameType /\ f.kind = Top.kind /\ f.fn = Top.fn /\ f.declared = Top.declared /\ f.ok = b
  BY <1>1 DEF FrameType
<1>3. Top.ok \in BOOLEAN /\ Top.stage \in {"start", "else", "head", "body"}
  BY <1>1 DEF FrameType
<1>4. [frames EXCEPT ![m].stage = s, ![m].ok = b] = [frames EXCEPT ![m] = f]
  BY <1>1
<1>5. [frames[m] EXCEPT !.stage = s] = [frames[m] EXCEPT !.stage = s, !.ok = Top.ok]
  BY <1>1 DEF FrameType
<1>6. [frames[m] EXCEPT !.ok = b] = [frames[m] EXCEPT !.stage = Top.stage, !.ok = b]
  BY <1>1 DEF FrameType
<1>7. [frames EXCEPT ![m].stage = s] = [frames EXCEPT ![m] = [Top EXCEPT !.stage = s, !.ok = Top.ok]]
  BY <1>1, <1>5
<1>8. [frames EXCEPT ![m].ok = b] = [frames EXCEPT ![m] = [Top EXCEPT !.stage = Top.stage, !.ok = b]]
  BY <1>1, <1>6
<1> QED
  BY <1>1, <1>2, <1>3, <1>4, <1>7, <1>8

\* From a branch of an if to the next, or to its end.
LEMMA IfNextStep == ASSUME IInv, if_next PROVE IInv'
<1>1. Running /\ Top.kind = "If" /\ UNCHANGED <<code, errors, verdict, flaw>>
  BY DEF if_next
<1>2. errors' = (errors \/ FALSE) /\ flaw' = (flaw \/ FALSE)
  BY <1>1 DEF IInv, Typed
<1>3. CASE /\ frames' = [frames EXCEPT ![Len(frames)].stage = "else"]
           /\ ret' = "call"
  <2> DEFINE f == [Top EXCEPT !.stage = "else", !.ok = Top.ok]
  <2>0. Top.ok \in BOOLEAN
    BY TopExcept
  <2>1. /\ Len(frames) \in 1..Len(frames) /\ f \in FrameType /\ Top = frames[Len(frames)]
        /\ f.kind = Top.kind /\ f.fn = Top.fn /\ f.declared = Top.declared /\ f.ok = Top.ok
        /\ frames' = [frames EXCEPT ![Len(frames)] = f]
    BY <1>3, <2>0, TopExcept
  <2> HIDE DEF f
  <2> QED
    BY <1>1, <1>2, <1>3, <2>1, GoOnStep
<1>4. CASE ret # "call" /\ Leave(ret = "ok")
  <2>1. ret # "ok" => errors
    BY <1>4, TopFacts DEF IInv, Reported, Typed
  <2>2. Len(frames) > 1 /\ Len(frames) \notin ScopedIn(frames)
    BY <1>1, TopFacts
  <2> QED
    BY <1>1, <1>4, <2>1, <2>2, LeaveStep DEF code
<1> QED
  BY <1>3, <1>4 DEF if_next

\* The init of a loop, one declaration after the other.
LEMMA InitNextStep == ASSUME IInv, init_next PROVE IInv'
<1>1. Running /\ Top.kind = "ForInit" /\ UNCHANGED <<code, errors, verdict, flaw>>
  BY DEF init_next
<1>2. errors' = (errors \/ FALSE) /\ flaw' = (flaw \/ FALSE)
  BY <1>1 DEF IInv, Typed
<1>3. CASE /\ ret # "call"
           /\ frames' = [frames EXCEPT ![Len(frames)].ok = @ /\ ret = "ok"]
           /\ ret' = "call"
  <2> DEFINE ok == Top.ok /\ ret = "ok"
             f == [Top EXCEPT !.stage = Top.stage, !.ok = ok]
  <2>0. Top.ok \in BOOLEAN /\ Top.stage \in {"start", "else", "head", "body"} /\ ok \in BOOLEAN
    BY TopExcept
  <2>1. frames' = [frames EXCEPT ![Len(frames)].ok = ok]
    BY <1>3, TopFacts
  <2>2. ok = Top.ok \/ errors'
    <3>1. ret = "ok" \/ errors'
      BY <1>1, <1>3, TopFacts DEF IInv, Reported, Typed
    <3>2. ret = "ok" => ok = Top.ok
      BY <2>0
    <3> QED
      BY <3>1, <3>2
  <2> HIDE DEF ok
  <2>3. /\ Len(frames) \in 1..Len(frames) /\ f \in FrameType /\ Top = frames[Len(frames)]
        /\ f.kind = Top.kind /\ f.fn = Top.fn /\ f.declared = Top.declared /\ f.ok = ok
        /\ frames' = [frames EXCEPT ![Len(frames)] = f]
    BY <2>0, <2>1, TopExcept
  <2> HIDE DEF f
  <2> QED
    BY <1>1, <1>2, <1>3, <2>2, <2>3, GoOnStep
<1>4. CASE ret = "call" /\ Leave(Top.ok)
  <2>1. Top.ok \in BOOLEAN /\ (~Top.ok => errors)
    BY TopExcept DEF IInv, Reported
  <2>2. Len(frames) > 1 /\ Len(frames) \notin ScopedIn(frames)
    BY <1>1, TopFacts
  <2> QED
    BY <1>1, <1>4, <2>1, <2>2, LeaveStep DEF code
<1> QED
  BY <1>3, <1>4 DEF init_next

\* The loop goes on with what its init returned.
LEMMA ForAfterInitStep == ASSUME IInv, for_after_init PROVE IInv'
<1>1. Running /\ Top.kind = "For" /\ UNCHANGED <<code, errors, verdict, flaw>>
  BY DEF for_after_init
<1>2. errors' = (errors \/ FALSE) /\ flaw' = (flaw \/ FALSE)
  BY <1>1 DEF IInv, Typed
<1>3. CASE /\ frames' = [frames EXCEPT ![Len(frames)].stage = "head"]
           /\ ret' = "call"
  <2> DEFINE f == [Top EXCEPT !.stage = "head", !.ok = Top.ok]
  <2>0. Top.ok \in BOOLEAN
    BY TopExcept
  <2>1. /\ Len(frames) \in 1..Len(frames) /\ f \in FrameType /\ Top = frames[Len(frames)]
        /\ f.kind = Top.kind /\ f.fn = Top.fn /\ f.declared = Top.declared /\ f.ok = Top.ok
        /\ frames' = [frames EXCEPT ![Len(frames)] = f]
    BY <1>3, <2>0, TopExcept
  <2> HIDE DEF f
  <2> QED
    BY <1>1, <1>2, <1>3, <2>1, GoOnStep
<1>4. CASE ret = "failed" /\ Leave(FALSE)
  <2>1. errors
    BY <1>4, TopFacts DEF IInv, Reported
  <2>2. Len(frames) > 1
    BY <1>1, TopFacts
  <2> QED
    BY <1>1, <1>4, <2>1, <2>2, LeaveStep DEF code
<1> QED
  BY <1>3, <1>4 DEF for_after_init

\* The condition and the step of a loop.
LEMMA ForHeadStep ==
  ASSUME IInv, NEW cond \in Exprs, NEW step \in Exprs, for_head(cond, step)
  PROVE  IInv'
<1> DEFINE ok == ~Refused(cond)
           flawed == Flawed(cond) \/ Flawed(step)
           f == [Top EXCEPT !.stage = "body", !.ok = ok]
<1>1. /\ Running /\ Top.kind = "For" /\ UNCHANGED <<code, ret, verdict>> /\ ret = "call"
      /\ frames' = [frames EXCEPT ![Len(frames)].stage = "body", ![Len(frames)].ok = ok]
      /\ errors' = (errors \/ ~ok) /\ flaw' = (flaw \/ flawed)
      /\ StepsFlawed \/ ~Flawed(step)
  BY DEF for_head
<1>2. ok \in BOOLEAN /\ flawed \in BOOLEAN /\ (~ok) \in BOOLEAN
  BY DEF Refused, Flawed
<1>3. ~errors => (~ok => flawed)
  BY RefusalsAreFlaws
<1>4. ~errors /\ Plain => (flawed => ~ok)
  BY <1>1, RefusalsAreFlaws DEF Plain
<1> HIDE DEF ok, flawed
<1>5. /\ Len(frames) \in 1..Len(frames) /\ f \in FrameType /\ Top = frames[Len(frames)]
      /\ f.kind = Top.kind /\ f.fn = Top.fn /\ f.declared = Top.declared /\ f.ok = ok
      /\ frames' = [frames EXCEPT ![Len(frames)] = f]
  BY <1>1, <1>2, TopExcept
<1> HIDE DEF f
<1>6. f.ok = frames[Len(frames)].ok \/ f.ok \/ errors'
  BY <1>1, <1>2, <1>5 DEF IInv, Typed
<1> QED
  BY <1>1, <1>2, <1>3, <1>4, <1>5, <1>6, GoOnStep

\* The end of a loop pops its scope.
LEMMA ForAfterBodyStep == ASSUME IInv, for_after_body PROVE IInv'
<1>1. /\ Running /\ Top.kind = "For" /\ ret # "call" /\ scopes' = Front(scopes)
      /\ Leave(Top.ok /\ ret = "ok")
      /\ UNCHANGED <<functions, current_function, stale, errors, verdict, flaw>>
  BY DEF for_after_body
<1>2. Top.ok \in BOOLEAN /\ (~(Top.ok /\ ret = "ok") => errors)
  BY <1>1, TopExcept DEF IInv, Reported, Typed
<1>3. Len(frames) > 1 /\ Len(frames) \in ScopedIn(frames)
  BY <1>1, TopFacts
<1>4. (Top.ok /\ ret = "ok") \in BOOLEAN
  OBVIOUS
<1> QED
  BY <1>1, <1>2, <1>3, <1>4, LeaveStep

\* A function ends at a refusal with its layer left behind, or at its end.
LEMMA FunctionNextStep == ASSUME IInv, function_next PROVE IInv'
<1>1. Running /\ Top.kind = "Function" /\ UNCHANGED <<functions, stale, errors, verdict, flaw>>
  BY DEF function_next
<1>2. errors' = (errors \/ FALSE) /\ flaw' = (flaw \/ FALSE)
  BY <1>1 DEF IInv, Typed
<1>3. Len(frames) = 2 /\ Len(frames) > 1 /\ Len(frames) \in ScopedIn(frames)
  BY <1>1, TopFacts
<1>4. CASE ret = "ok" /\ ret' = "call" /\ UNCHANGED <<scopes, current_function, frames>>
  BY <1>1, <1>2, <1>4, KeptStep DEF code
<1>5. CASE ret = "failed" /\ Leave(FALSE) /\ UNCHANGED <<scopes, current_function>>
  <2>1. errors
    BY <1>5, TopFacts DEF IInv, Reported
  <2> QED
    BY <1>1, <1>3, <1>5, <2>1, LeaveStep
<1>6. CASE ret = "call" /\ Leave(TRUE) /\ scopes' = Front(scopes) /\ current_function' = NoName
  <2>1. scopes' \in Seq(LayerType) /\ Sync(scopes', frames', ~errors')
    BY <1>1, <1>3, <1>6, LeaveSync DEF Leave
  <2>2. /\ frames' \in Seq(FrameType) /\ Len(frames') \in 1..(MaxFrames + 1)
        /\ \A k \in 1..Len(frames') : k \in 1..Len(frames) /\ frames'[k] = frames[k]
        /\ ret' \in {"call", "ok", "failed"} /\ ret' # "failed"
    BY <1>3, <1>6, LeaveFacts
  <2>3. Len(frames') = 1
    <3>1. frames \in Seq(FrameType) /\ frames # <<>> /\ frames' = Front(frames)
      BY <1>6, TopFacts DEF Leave
    <3>2. Len(Front(frames)) = Len(frames) - 1
      BY <3>1, FrontProperties
    <3> QED
      BY <3>1, <3>2, <1>3
  <2>4. Judged' /\ errors' \in BOOLEAN /\ flaw' \in BOOLEAN
    BY <1>1, <1>2, JudgedStep
  <2>5. Typed'
    BY <1>1, <1>6, <2>1, <2>2, <2>4 DEF IInv, Typed, Declared
  <2>6. Shape' /\ Reported' /\ Apart'
    BY <1>1, <2>2 DEF IInv, Shape, Reported, Apart, Declared
  <2>7. CurrentFunctionFresh'
    BY <2>2, <2>3 DEF IInv, Shape, CurrentFunctionFresh
  <2> QED
    BY <2>1, <2>4, <2>5, <2>6, <2>7 DEF IInv
<1> QED
  BY <1>4, <1>5, <1>6 DEF function_next

\* From one global declaration to the next.
LEMMA GlobalNextStep == ASSUME IInv, global_next PROVE IInv'
<1>1. /\ Running /\ Top.kind = "Root" /\ UNCHANGED <<code, errors, verdict, flaw>> /\ ret # "call"
      /\ frames' = [frames EXCEPT ![1].ok = @ /\ ret = "ok"] /\ ret' = "call"
  BY DEF global_next
<1>2. errors' = (errors \/ FALSE) /\ flaw' = (flaw \/ FALSE)
  BY <1>1 DEF IInv, Typed
<1>3. Len(frames) = 1
  BY <1>1, TopFacts
<1> DEFINE ok == Top.ok /\ ret = "ok"
           f == [Top EXCEPT !.stage = Top.stage, !.ok = ok]
<1>4. Top.ok \in BOOLEAN /\ Top.stage \in {"start", "else", "head", "body"} /\ ok \in BOOLEAN
  BY TopExcept
<1>5. frames' = [frames EXCEPT ![Len(frames)].ok = ok]
  BY <1>1, <1>3, TopFacts
<1>6. ok = Top.ok \/ errors'
  <2>1. ret = "ok" \/ errors'
    BY <1>1, TopFacts DEF IInv, Reported, Typed
  <2>2. ret = "ok" => ok = Top.ok
    BY <1>4
  <2> QED
    BY <2>1, <2>2
<1> HIDE DEF ok
<1>7. /\ Len(frames) \in 1..Len(frames) /\ f \in FrameType /\ Top = frames[Len(frames)]
      /\ f.kind = Top.kind /\ f.fn = Top.fn /\ f.declared = Top.declared /\ f.ok = ok
      /\ frames' = [frames EXCEPT ![Len(frames)] = f]
  BY <1>4, <1>5, TopExcept
<1> HIDE DEF f
<1> QED
  BY <1>1, <1>2, <1>6, <1>7, GoOnStep

-----------------------------------------------------------------------------
(***************************************************************************)
(* Functions and main.                                                     *)
(***************************************************************************)

\* At a global statement the root is the only handler.
LEMMA AtGlobalFacts ==
  ASSUME IInv, Running, Top.kind = "Root"
  PROVE  /\ Len(frames) = 1 /\ Top = frames[1] /\ \A k \in 1..Len(frames) : k = 1
         /\ frames[1].kind = "Root"
<1>1. Len(frames) = 1 /\ Top = frames[Len(frames)]
  BY TopFacts
<1> QED
  BY <1>1

\* What check_function refuses before the body is then a flaw, and the other way round.
LEMMA FunctionRefusals ==
  ASSUME IInv, ~errors, Running, Top.kind = "Root", NEW n \in Names, NEW type, NEW typed, NEW body
  PROVE  RefusedFunction(n, typed, type, body) <=> FlawedFunction(n, typed, type, body)
<1>1. lookup_global_var(n) # 0 <=> n \in frames[1].declared
  BY Agreement, AtGlobalFacts
<1>2. n \in frames[1].declared => ~Declared(n)
  BY DEF IInv, Apart
<1> QED
  BY <1>1, <1>2 DEF RefusedFunction, FlawedFunction

\* What the registration of a function leaves in the list of functions.
LEMMA RegisterFacts ==
  ASSUME IInv, NEW n \in Names, NEW type \in FnTypes, NEW body \in BOOLEAN, Register(n, type, body)
  PROVE  /\ functions' \in [Names -> Entry]
         /\ \A m \in Names : m # n => functions'[m] = functions[m]
         /\ functions'[n].type = type
         /\ \A m \in Names : Declared(m)' => functions'[m].type \in FnTypes
         /\ stale' \in BOOLEAN /\ (body => ~stale')
<1> DEFINE entry == [type |-> type, body |-> functions[n].body \/ body]
<1>1. functions \in [Names -> Entry] /\ \A m \in Names : Declared(m) => functions[m].type \in FnTypes
  BY DEF IInv, Typed
<1>2. entry \in Entry /\ entry.type = type
  BY DEF Entry
<1>3. functions' = [functions EXCEPT ![n] = entry]
  BY <1>1 DEF Register
<1> HIDE DEF entry
<1>4. /\ functions' \in [Names -> Entry] /\ functions'[n] = entry
      /\ \A m \in Names : m # n => functions'[m] = functions[m]
  BY <1>1, <1>2, <1>3
<1>5. \A m \in Names : Declared(m)' => functions'[m].type \in FnTypes
  BY <1>1, <1>2, <1>4 DEF Declared
<1>6. stale' \in BOOLEAN /\ (body => ~stale')
  BY DEF Register, IInv, Typed
<1> QED
  BY <1>2, <1>4, <1>5, <1>6

\* A prototype is registered unless it is refused.
LEMMA CheckPrototypeStep ==
  ASSUME IInv, NEW n \in Names, NEW type \in FnTypes, NEW typed \in BOOLEAN, NEW body \in BOOLEAN,
         check_prototype(n, typed, type, body)
  PROVE  IInv'
<1> DEFINE refused == RefusedFunction(n, typed, type, body)
           flawed == FlawedFunction(n, typed, type, body)
<1>1. /\ Running /\ Top.kind = "Root" /\ Return(~refused) /\ flaw' = (flaw \/ flawed)
      /\ IF ~refused THEN Register(n, type, FALSE) ELSE UNCHANGED <<functions, stale>>
      /\ UNCHANGED <<scopes, current_function, frames, verdict>>
  BY DEF check_prototype, AtGlobal
<1>2. refused \in BOOLEAN /\ flawed \in BOOLEAN
  BY DEF RefusedFunction, FlawedFunction
<1>3. ~errors => (refused <=> flawed)
  BY <1>1, FunctionRefusals
<1>4. flawed \/ n \notin frames[1].declared
  BY DEF FlawedFunction
<1> HIDE DEF refused, flawed
<1>5. CASE refused
  BY <1>1, <1>2, <1>3, <1>5, KeptStep DEF Return, code
<1>6. CASE ~refused
  <2>1. errors' = errors /\ ret' = "ok" /\ errors' = (errors \/ refused)
    BY <1>1, <1>6 DEF Return, IInv, Typed
  <2>2. Judged' /\ errors' \in BOOLEAN /\ flaw' \in BOOLEAN
    BY <1>1, <1>2, <1>3, <2>1, JudgedStep
  <2>3. /\ functions' \in [Names -> Entry]
        /\ \A m \in Names : m # n => functions'[m] = functions[m]
        /\ \A m \in Names : Declared(m)' => functions'[m].type \in FnTypes
        /\ stale' \in BOOLEAN
    BY <1>1, <1>6, RegisterFacts
  <2>4. Typed'
    BY <1>1, <2>1, <2>2, <2>3 DEF IInv, Typed
  <2>5. Shape' /\ Reported'
    BY <1>1, <2>1 DEF IInv, Shape, Reported
  <2>6. CurrentFunctionFresh'
    <3>1. \A k \in 1..Len(frames) : frames[k].kind # "Function"
      BY <1>1, AtGlobalFacts
    <3> QED
      BY <3>1, <1>1 DEF CurrentFunctionFresh
  <2>7. Sync(scopes, frames, ~errors)'
    BY <1>1, <2>1 DEF IInv
  <2>8. Apart'
    <3>1. frames[1].declared \subseteq Names
      BY TopFacts, AtGlobalFacts, <1>1 DEF FrameType
    <3> QED
      BY <3>1, <1>1, <1>3, <1>4, <1>6, <2>1, <2>3 DEF IInv, Apart, Declared
  <2> QED
    BY <2>2, <2>4, <2>5, <2>6, <2>7, <2>8 DEF IInv
<1> QED
  BY <1>5, <1>6

\* The layer and the frame of a function that is defined.
LEMMA ParamFacts ==
  ASSUME NEW n \in Names, NEW D, NEW params \in [D -> Names]
  PROVE  LET f == [Frame("Function", n) EXCEPT !.declared = Range(params)]
         IN  /\ ParamLayer(params) \in LayerType /\ f \in FrameType
             /\ f.kind = "Function" /\ f.fn = n /\ f.ok
             /\ LayerOf(ParamLayer(params), f, 2)
<1> DEFINE f == [Frame("Function", n) EXCEPT !.declared = Range(params)]
           names == [m \in Names |-> IF m \in Range(params) THEN 2 ELSE 0]
<1>1. Range(params) \subseteq Names
  BY DEF Range
<1>2. names \in [Names -> 0..(MaxFrames + 1)]
  BY CheckerAssumption
<1>3. /\ ParamLayer(params) \in LayerType
      /\ ParamLayer(params).is_loop = FALSE /\ ParamLayer(params).names = names
  BY <1>2 DEF ParamLayer, LayerType
<1>4. /\ f \in FrameType /\ f.kind = "Function" /\ f.fn = n /\ f.ok
      /\ f.declared = Range(params)
  BY <1>1 DEF Frame, FrameType, FrameKinds
<1>5. LayerOf(ParamLayer(params), f, 2)
  BY <1>3, <1>4 DEF LayerOf
<1> QED
  BY <1>3, <1>4, <1>5

\* A definition registers the function, then pushes the scope of its parameters.
LEMMA CheckFunctionStep ==
  ASSUME IInv, NEW n \in Names, NEW type \in FnTypes, NEW params \in [1..Len(type.params) -> Names],
         check_function(n, type, params)
  PROVE  IInv'
<1> DEFINE layer == ParamLayer(params)
           f == [Frame("Function", n) EXCEPT !.declared = Range(params)]
           refused == RefusedFunction(n, TRUE, type, TRUE)
           unfit == FlawedFunction(n, TRUE, type, TRUE)
           repeated == Repeated(params)
<1>1. /\ Running /\ Top.kind = "Root" /\ ~refused /\ Register(n, type, TRUE)
      /\ current_function' = n /\ scopes' = Append(scopes, layer)
      /\ IF repeated
           THEN ret' = "failed" /\ errors' = TRUE /\ UNCHANGED frames
           ELSE frames' = Append(frames, f) /\ UNCHANGED <<ret, errors>>
      /\ flaw' = (flaw \/ unfit \/ repeated) /\ UNCHANGED verdict
  BY DEF check_function, AtGlobal
<1>2. unfit \in BOOLEAN /\ repeated \in BOOLEAN /\ (~errors => ~unfit)
  <2>1. unfit \in BOOLEAN
    BY DEF FlawedFunction
  <2>2. repeated \in BOOLEAN
    BY DEF Repeated
  <2>3. ~errors => ~unfit
    BY <1>1, FunctionRefusals
  <2> QED
    BY <2>1, <2>2, <2>3
<1>3. unfit \/ n \notin frames[1].declared
  BY DEF FlawedFunction
<1>4. /\ layer \in LayerType /\ f \in FrameType
      /\ f.kind = "Function" /\ f.fn = n /\ f.ok /\ LayerOf(layer, f, 2)
  BY ParamFacts
<1> HIDE DEF layer, f, refused, unfit, repeated
<1>5. /\ functions' \in [Names -> Entry]
      /\ \A m \in Names : m # n => functions'[m] = functions[m]
      /\ \A m \in Names : Declared(m)' => functions'[m].type \in FnTypes
      /\ stale' = FALSE
  BY <1>1, RegisterFacts
<1>6. /\ scopes \in Seq(LayerType) /\ frames \in Seq(FrameType) /\ Len(frames) = 1
      /\ Sync(scopes, frames, ~errors) /\ (~errors) \in BOOLEAN
      /\ frames[1].declared \subseteq Names /\ frames[1].kind = "Root"
  BY <1>1, TopFacts, AtGlobalFacts DEF IInv, FrameType
<1>7. scopes' \in Seq(LayerType)
  BY <1>1, <1>4, <1>6, AppendProperties
<1>8. errors' = (errors \/ repeated) /\ flaw' = (flaw \/ (unfit \/ repeated))
  BY <1>1, <1>2 DEF IInv, Typed
<1>9. Judged' /\ errors' \in BOOLEAN /\ flaw' \in BOOLEAN
  <2>1. (unfit \/ repeated) \in BOOLEAN
    BY <1>2
  <2> QED
    BY <2>1, <1>1, <1>2, <1>8, JudgedStep
<1>10. CASE repeated
  <2>1. ret' = "failed" /\ errors' = TRUE /\ UNCHANGED frames
    BY <1>1, <1>10
  <2>2. Sync(scopes', frames', ~errors')
    BY <2>1, <1>1, <1>4, <1>6, SyncLeft
  <2>3. Typed'
    BY <2>1, <1>1, <1>5, <1>7, <1>9 DEF IInv, Typed
  <2>4. Shape' /\ Reported' /\ Apart'
    BY <2>1 DEF IInv, Shape, Reported, Apart
  <2>5. CurrentFunctionFresh'
    BY <2>1, <1>6 DEF CurrentFunctionFresh
  <2> QED
    BY <2>2, <2>3, <2>4, <2>5, <1>9 DEF IInv
<1>11. CASE ~repeated
  <2>1. frames' = Append(frames, f) /\ UNCHANGED <<ret, errors>>
    BY <1>1, <1>11
  <2>2. /\ frames' \in Seq(FrameType) /\ Len(frames') = 2
        /\ frames'[1] = frames[1] /\ frames'[2] = f
    <3>0. frames \in Seq(FrameType) /\ f \in FrameType /\ frames' = Append(frames, f)
      BY <2>1, <1>4, <1>6
    <3>1. /\ frames' \in Seq(FrameType) /\ Len(frames') = Len(frames) + 1 /\ frames'[Len(frames) + 1] = f
          /\ \A k \in 1..Len(frames) : frames'[k] = frames[k]
      BY <3>0, AppendProperties
    <3>2. Len(frames) + 1 = 2 /\ 1 \in 1..Len(frames)
      BY <1>6
    <3>3. frames'[1] = frames[1]
      BY <3>1, <3>2
    <3>4. Len(frames') = 2 /\ frames'[2] = f
      BY <3>1, <3>2
    <3> QED
      BY <3>1, <3>3, <3>4
  <2>3. \A k \in 1..Len(frames') : k = 1 \/ k = 2
    BY <2>2
  <2>4. Sync(scopes', frames', ~errors')
    <3>1. Len(frames) + 1 = 2
      BY <1>6
    <3>2. Sync(Append(scopes, layer), Append(frames, f), ~errors)
      BY <3>1, <1>4, <1>6, SyncPush
    <3> QED
      BY <3>2, <2>1, <1>1
  <2>5. Len(frames') \in 1..(MaxFrames + 1)
    BY <2>2, CheckerAssumption
  <2>6. Typed'
    BY <2>1, <2>2, <2>5, <1>1, <1>5, <1>7, <1>9 DEF IInv, Typed
  <2>7. Shape'
    BY <2>2, <2>3, <1>4, <1>6 DEF Shape
  <2>8. Reported'
    BY <2>1, <2>2, <2>3, <1>4, <1>6 DEF IInv, Reported
  <2>9. CurrentFunctionFresh'
    BY <2>2, <2>3, <1>1, <1>4, <1>5, <1>6 DEF CurrentFunctionFresh
  <2>10. Apart'
    BY <2>1, <2>2, <1>2, <1>3, <1>5, <1>6 DEF IInv, Apart, Declared
  <2> QED
    BY <2>4, <2>6, <2>7, <2>8, <2>9, <2>10, <1>9 DEF IInv
<1> QED
  BY <1>10, <1>11

\* What check_main refuses, the language does; and on plain programs nothing more.
LEMMA MainIsValid ==
  ASSUME IInv
  PROVE  /\ \A type : IsMainType(type) => main_is_valid(type)
         /\ Plain /\ functions["main"].body /\ main_is_valid(functions["main"].type)
              => IsMainType(functions["main"].type)
<1>1. Len(ArgcArgv) = 2 /\ Len(<<>>) # 2
  BY DEF ArgcArgv
<1>2. \A type : IsMainType(type) => main_is_valid(type)
  BY <1>1 DEF IsMainType, main_is_valid
<1>3. functions["main"].body => functions["main"].type \in FnTypes
  <2>1. "main" \in Names /\ NoFn.body = FALSE
    BY CheckerAssumption DEF NoFn
  <2> QED
    BY <2>1 DEF IInv, Typed, Declared
<1> QED
  BY <1>2, <1>3 DEF Plain

\* The verdict.
LEMMA CheckMainStep == ASSUME IInv, check_main PROVE IInv'
<1> DEFINE main == functions["main"]
           ok == main.body /\ main_is_valid(main.type)
           proper == main.body /\ IsMainType(main.type)
<1>1. /\ Running /\ Top.kind = "Root"
      /\ errors' = (errors \/ ~ok) /\ flaw' = (flaw \/ ~proper)
      /\ verdict' = IF Top.ok /\ ok /\ ~errors' THEN "accepted" ELSE "rejected"
      /\ UNCHANGED <<code, frames, ret>>
  BY DEF check_main
<1>2. (proper => ok) /\ (Plain /\ ok => proper)
  BY MainIsValid
<1> HIDE DEF ok, proper
<1>3. Top.ok \/ errors
  BY TopFacts DEF IInv, Reported
<1>4. errors' \in BOOLEAN /\ flaw' \in BOOLEAN /\ Plain' = Plain
  BY <1>1 DEF IInv, Typed, Plain, main_is_valid, IsMainType
<1>5. errors \in BOOLEAN /\ flaw \in BOOLEAN /\ (errors => flaw) /\ (Plain => (flaw => errors))
  BY DEF IInv, Typed, Judged
<1>6. Judged'
  BY <1>1, <1>2, <1>3, <1>4, <1>5 DEF Judged
<1>7. Typed'
  BY <1>1, <1>4 DEF IInv, Typed, code, Declared
<1>8. Shape' /\ CurrentFunctionFresh'
  BY <1>1 DEF IInv, Shape, CurrentFunctionFresh, code
<1>9. Reported' /\ Apart'
  BY <1>1, <1>5 DEF IInv, Reported, Apart, Declared, code
<1>10. Sync(scopes, frames, ~errors)'
  <2>1. frames \in Seq(FrameType) /\ scopes \in Seq(LayerType) /\ Sync(scopes, frames, ~errors)
    BY DEF IInv, Typed
  <2>2. (~errors') \in BOOLEAN /\ (~errors) \in BOOLEAN /\ (~errors' => ~errors)
    BY <1>1, <1>4, <1>5
  <2>3. Sync(scopes, frames, ~errors')
    BY <2>1, <2>2, SyncSame
  <2> QED
    BY <2>3, <1>1 DEF code
<1> QED
  BY <1>6, <1>7, <1>8, <1>9, <1>10 DEF IInv

-----------------------------------------------------------------------------
(***************************************************************************)
(* The theorems.                                                           *)
(***************************************************************************)
\* A step that changes nothing keeps the invariant.
LEMMA Stuttering == IInv /\ UNCHANGED vars => IInv'
<1> SUFFICES ASSUME IInv, UNCHANGED vars PROVE IInv'
  OBVIOUS
<1>1. UNCHANGED <<scopes, functions, current_function, stale, errors, frames, ret, verdict, flaw>>
  BY DEF vars, code
<1>2. Typed' /\ Shape' /\ Reported' /\ Apart' /\ CurrentFunctionFresh'
  BY <1>1 DEF IInv, Typed, Shape, Reported, Apart, CurrentFunctionFresh, Declared
<1>3. Judged'
  BY <1>1 DEF IInv, Judged, Plain, main_is_valid, IsMainType
<1>4. Sync(scopes, frames, ~errors)'
  BY <1>1 DEF IInv
<1> QED
  BY <1>2, <1>3, <1>4 DEF IInv

\* Every step keeps the invariant.
LEMMA NextKeepsIInv == IInv /\ [Next]_vars => IInv'
<1> SUFFICES ASSUME IInv, [Next]_vars PROVE IInv'
  OBVIOUS
<1>1. CASE Statement
  <2>1. ASSUME NEW n \in Names, NEW typed \in BOOLEAN, declare_variable(n, typed)
        PROVE  IInv'
    BY <2>1, DeclareVariableStep
  <2>2. ASSUME NEW n \in Names, NEW e \in Exprs, check_declare_assign(n, e)
        PROVE  IInv'
    BY <2>2, DeclareAssignStep
  <2>3. ASSUME NEW e \in Exprs, check_expr(e) \/ check_return_value(e) \/ check_if_stmt(e)
        PROVE  IInv'
    BY <2>3, CheckExprStep, CheckReturnStep, CheckIfStep
  <2>4. CASE check_jump \/ check_return_bare \/ check_block \/ check_for_stmt
    BY <2>4, CheckJumpStep, CheckReturnStep, CheckBlockStep, CheckForStep
  <2> QED
    BY <1>1, <2>1, <2>2, <2>3, <2>4 DEF Statement
<1>2. CASE GlobalStatement
  <2>1. ASSUME NEW ok \in BOOLEAN, check_structure(ok)
        PROVE  IInv'
    BY <2>1, CheckStructureStep
  <2>2. ASSUME NEW n \in Names, NEW type \in FnTypes, NEW typed \in BOOLEAN, NEW body \in BOOLEAN,
               check_prototype(n, typed, type, body)
        PROVE  IInv'
    BY <2>2, CheckPrototypeStep
  <2>3. ASSUME NEW n \in Names, NEW type \in FnTypes, NEW params \in [1..Len(type.params) -> Names],
               check_function(n, type, params)
        PROVE  IInv'
    BY <2>3, CheckFunctionStep
  <2> QED
    BY <1>2, <2>1, <2>2, <2>3 DEF GlobalStatement
<1>3. CASE Resume
  <2>1. ASSUME NEW cond \in Exprs, NEW step \in Exprs, for_head(cond, step)
        PROVE  IInv'
    BY <2>1, ForHeadStep
  <2> QED
    BY <1>3, <2>1, BlockNextStep, IfNextStep, InitNextStep, ForAfterInitStep, ForAfterBodyStep,
       FunctionNextStep, GlobalNextStep DEF Resume
<1>4. CASE check_main
  BY <1>4, CheckMainStep
<1>5. CASE UNCHANGED vars
  BY <1>5, Stuttering
<1> QED
  BY <1>1, <1>2, <1>3, <1>4, <1>5 DEF Next

\* The scopes stay in step with the frames, refusals are reported, and the
\* verdict follows the flaws, whatever the program.
THEOREM Inductive == Spec => []IInv
<1> QED
  BY InitIInv, NextKeepsIInv, PTL DEF Spec

\* Every variable of the checker keeps its type, and the stack of scopes never
\* runs out: pop_scope always finds the layer it pops.
THEOREM TypeCorrect == Spec => []TypeOK
<1>1. ASSUME IInv
      PROVE  TypeOK
  <2>1. Typed
    BY <1>1 DEF IInv
  <2>2. scopes # <<>>
    <3>1. PICK h : SyncBy(h, scopes, frames, ~errors)
      BY <1>1 DEF IInv, Sync
    <3>2. h[1] \in 1..Len(scopes)
      BY <3>1, <1>1, TopFacts DEF SyncBy
    <3> QED
      BY <3>2
  <2>3. ASSUME NEW k \in 1..Len(frames)
        PROVE  frames[k].kind \in FrameKinds /\ frames[k].declared \subseteq Names
    <3>1. frames[k] \in FrameType
      BY <2>1, ElementOfSeq DEF Typed
    <3> QED
      BY <3>1 DEF FrameType
  <2>4. \A n \in Names : functions[n].body \in BOOLEAN
    BY <2>1 DEF Typed, Entry
  <2> QED
    BY <2>1, <2>2, <2>3, <2>4 DEF TypeOK, Typed, LayerType, FrameKinds
<1> QED
  BY <1>1, Inductive, PTL

\* A handler that returns false, and a rejected program, has reported an error:
\* insert_error was called before.
THEOREM RefusalsReported == Spec => []Diagnosed
<1>1. ASSUME IInv
      PROVE  Diagnosed
  <2>1. 1 \in 1..Len(frames)
    BY <1>1 DEF IInv, Typed
  <2> QED
    BY <1>1, <2>1 DEF IInv, Reported, Judged, Diagnosed
<1> QED
  BY <1>1, Inductive, PTL

\* As long as nothing was refused, lookup_var finds the innermost declaration
\* that is open at that place of the program, however deep it is nested.
THEOREM InnermostFound == Spec => []LookupInnermost
<1>1. ASSUME IInv
      PROVE  LookupInnermost
  BY <1>1, Agreement DEF LookupInnermost
<1> QED
  BY <1>1, Inductive, PTL

\* While a body is checked, current_function points to the entry of its function,
\* which no push_back moved; after a refused function before it too.
THEOREM CurrentFunctionRight == Spec => []CurrentFunctionFresh
<1>1. ASSUME IInv
      PROVE  CurrentFunctionFresh
  BY <1>1 DEF IInv
<1> QED
  BY <1>1, Inductive, PTL

\* The checker rejects no program without a flaw.
SoundProgramsAccepted == verdict = "rejected" => flaw

\* No program that obeys the language is rejected, whatever refusals came
\* before and whatever scopes they left behind.
THEOREM NoFalseAlarm == Spec => []SoundProgramsAccepted
<1>1. ASSUME IInv
      PROVE  SoundProgramsAccepted
  BY <1>1 DEF IInv, Judged, SoundProgramsAccepted
<1> QED
  BY <1>1, Inductive, PTL

\* On the programs without the two flaws that the code passes over, an
\* undeclared name in the step of a loop and a main(argc, argv) that does not return
\* int32_t, check_semantics accepts exactly the programs without a flaw.
THEOREM VerdictIsRight == Plain => (Spec => []VerdictRight)
<1>1. ASSUME IInv
      PROVE  Plain => VerdictRight
  BY <1>1 DEF IInv, Judged, Typed, VerdictRight
<1>2. SUFFICES ASSUME Plain PROVE Spec => []VerdictRight
  OBVIOUS
<1>3. ASSUME IInv
      PROVE  VerdictRight
  BY <1>1, <1>2, <1>3
<1> QED
  BY <1>3, Inductive, PTL
=============================================================================
