--------------------------- MODULE ContractProofs ---------------------------
(***************************************************************************)
(* What the names and keys of contract.py guarantee for all names: that    *)
(* the key templates and _safe keep different names apart, and which of    *)
(* the keys the door writes its own patterns let through.                  *)
(***************************************************************************)
EXTENDS Contract, FiniteSetTheorems, SequenceTheorems, TLAPS

(* Sequences of tokens: what a concatenation determines.                   *)
LEMMA Concat ==
    ASSUME NEW S, NEW a \in Seq(S), NEW c \in Seq(S)
    PROVE  /\ a \o c \in Seq(S)
           /\ Len(a \o c) = Len(a) + Len(c)
           /\ \A i \in 1 .. Len(a) : (a \o c)[i] = a[i]
           /\ \A i \in 1 .. Len(c) : (a \o c)[Len(a) + i] = c[i]
<1>1. /\ Len(a \o c) = Len(a) + Len(c)
      /\ \A i \in 1 .. Len(a) + Len(c) :
             (a \o c)[i] = IF i <= Len(a) THEN a[i] ELSE c[i - Len(a)]
  BY ConcatProperties
<1>2. Len(a) \in Nat /\ Len(c) \in Nat
  OBVIOUS
<1>3. ASSUME NEW i \in 1 .. Len(a) PROVE (a \o c)[i] = a[i]
  BY <1>1, <1>2
<1>4. ASSUME NEW i \in 1 .. Len(c) PROVE (a \o c)[Len(a) + i] = c[i]
  <2>1. Len(a) + i \in 1 .. Len(a) + Len(c) /\ ~(Len(a) + i <= Len(a))
        /\ (Len(a) + i) - Len(a) = i
    BY <1>2
  <2> QED
    BY <1>1, <2>1
<1> QED
  BY <1>1, <1>3, <1>4, ConcatProperties

LEMMA FrontEqual ==
    ASSUME NEW S, NEW a \in Seq(S), NEW b \in Seq(S), NEW c \in Seq(S), NEW d \in Seq(S)
    PROVE  Len(a) = Len(b) /\ a \o c = b \o d => a = b /\ c = d
<1>1. /\ Len(a \o c) = Len(a) + Len(c)
      /\ \A i \in 1 .. Len(a) : (a \o c)[i] = a[i]
      /\ \A i \in 1 .. Len(c) : (a \o c)[Len(a) + i] = c[i]
  BY Concat
<1>2. /\ Len(b \o d) = Len(b) + Len(d)
      /\ \A i \in 1 .. Len(b) : (b \o d)[i] = b[i]
      /\ \A i \in 1 .. Len(d) : (b \o d)[Len(b) + i] = d[i]
  BY Concat
<1> SUFFICES ASSUME Len(a) = Len(b), a \o c = b \o d PROVE a = b /\ c = d
  OBVIOUS
<1>3. PICK l : l = a \o c /\ l = b \o d
  OBVIOUS
<1>4. Len(c) = Len(d)
  BY <1>1, <1>2
<1>5. a = b
  BY <1>1, <1>2, <1>3, SeqEqual
<1>6. c = d
  BY <1>1, <1>2, <1>3, <1>4, SeqEqual
<1> QED
  BY <1>5, <1>6

LEMMA SameFront ==
    ASSUME NEW S, NEW h \in Seq(S), NEW c \in Seq(S), NEW d \in Seq(S)
    PROVE  h \o c = h \o d => c = d
<1> SUFFICES \A g \in Seq(S) : g = h => (g \o c = h \o d => c = d)
  OBVIOUS
<1> TAKE g \in Seq(S)
<1>1. Len(g) = Len(h) /\ g \o c = h \o d => c = d
  BY FrontEqual
<1> QED
  BY <1>1

NoSlash(a) == \A i \in 1 .. Len(a) : a[i] # "/"

LEMMA SplitAtSlash ==
    ASSUME NEW S, NEW a \in Seq(S), NEW b \in Seq(S), NEW c \in Seq(S), NEW d \in Seq(S),
           NoSlash(a), NoSlash(b), Len(c) > 0, Len(d) > 0, c[1] = "/", d[1] = "/"
    PROVE  a \o c = b \o d => a = b /\ c = d
<1>0. 1 \in 1 .. Len(c) /\ 1 \in 1 .. Len(d)
  OBVIOUS
<1>1. (a \o c)[Len(a) + 1] = "/" /\ \A i \in 1 .. Len(a) : (a \o c)[i] = a[i]
  BY <1>0, Concat
<1>2. (b \o d)[Len(b) + 1] = "/" /\ \A i \in 1 .. Len(b) : (b \o d)[i] = b[i]
  BY <1>0, Concat
<1> SUFFICES ASSUME a \o c = b \o d PROVE a = b /\ c = d
  OBVIOUS
<1>3. ASSUME Len(a) < Len(b) PROVE FALSE
  <2>1. Len(a) + 1 \in 1 .. Len(b)
    BY <1>3
  <2> QED
    BY <1>1, <1>2, <2>1 DEF NoSlash
<1>4. ASSUME Len(b) < Len(a) PROVE FALSE
  <2>1. Len(b) + 1 \in 1 .. Len(a)
    BY <1>4
  <2>2. (a \o c)[Len(b) + 1] = a[Len(b) + 1] /\ (a \o c)[Len(b) + 1] = "/"
    BY <1>1, <1>2, <2>1
  <2> QED
    BY <2>1, <2>2 DEF NoSlash
<1>5. Len(a) = Len(b)
  BY <1>3, <1>4
<1> QED
  BY <1>5, FrontEqual

(* _safe leaves something, and no "/" or white space in it.                *)
LEMMA SlugFacts ==
    ASSUME NEW name \in Seq(STRING)
    PROVE  /\ NoSlash(Slug(name)) /\ Len(Slug(name)) \in Nat \ {0}
           /\ \A i \in 1 .. Len(Slug(name)) : Slug(name)[i] # " "
           /\ \E S : Slug(name) \in Seq(S)
<1>1. CASE Kept(name) = {}
  <2>1. Slug(name) = <<"untitled">>
    BY <1>1 DEF Slug
  <2>2. /\ Slug(name) \in Seq({"untitled"})
        /\ Len(Slug(name)) = 1 /\ Slug(name)[1] = "untitled"
    BY <2>1
  <2>3. Len(Slug(name)) \in Nat \ {0}
    BY <2>2
  <2>4. \A i \in 1 .. Len(Slug(name)) : Slug(name)[i] \notin {"/", " "}
    <3>1. "untitled" \notin {"/", " "}
      OBVIOUS
    <3>2. \A i \in 1 .. Len(Slug(name)) : i = 1
      BY <2>2
    <3> QED
      BY <2>2, <3>1, <3>2
  <2> QED
    BY <2>2, <2>3, <2>4 DEF NoSlash
<1>2. CASE Kept(name) # {}
  <2>1. Cardinality(Kept(name)) \in Nat \ {0}
    <3>1. Kept(name) \subseteq 1 .. Len(name)
      <4>1. Kept(name) \subseteq DOMAIN name
        BY Zenon DEF Kept
      <4> QED
        BY <4>1
    <3>2. IsFiniteSet(Kept(name))
      BY <3>1, FS_Interval, FS_Subset
    <3> QED
      BY <1>2, <3>2, FS_EmptySet, FS_CardinalityType
  <2> DEFINE n == Cardinality(Kept(name))
             Nth(i) == CHOOSE k \in Kept(name) : Cardinality({x \in Kept(name) : x <= k}) = i
             at(i) == IF name[Nth(i)] \in {" ", "/"} THEN "_" ELSE name[Nth(i)]
  <2>2. Slug(name) = [i \in 1 .. n |-> at(i)]
    BY <1>2 DEF Slug
  <2>3. \A i \in 1 .. n : at(i) # "/" /\ at(i) # " "
    OBVIOUS
  <2> HIDE DEF at
  <2>4. Len(Slug(name)) = n
    BY <2>1, <2>2
  <2>5. NoSlash(Slug(name)) /\ \A i \in 1 .. Len(Slug(name)) : Slug(name)[i] # " "
    BY <2>2, <2>3, <2>4 DEF NoSlash
  <2>6. Slug(name) \in Seq({at(i) : i \in 1 .. n})
    BY <2>1, <2>2
  <2>7. Len(Slug(name)) \in Nat \ {0}
    BY <2>1, <2>4
  <2> QED
    BY <2>5, <2>6, <2>7
<1> QED
  BY <1>1, <1>2
-----------------------------------------------------------------------------
(* A key as a template spells it: h, the slug a, m, the slug b, t.  Two     *)
(* keys that are the same, by templates whose constant parts have the same *)
(* lengths, have the same slugs and the same words between them.           *)
Parts(S, h, a, m, b, t) ==
    /\ h \in Seq(S) /\ a \in Seq(S) /\ m \in Seq(S) /\ b \in Seq(S) /\ t \in Seq(S)
    /\ NoSlash(a) /\ Len(m) > 0 /\ m[1] = "/"

Nest(h, a, m, b, t) == h \o (a \o (m \o (b \o t)))

LEMMA AfterSlug ==
    ASSUME NEW S, NEW h, NEW a, NEW m, NEW b, NEW t, Parts(S, h, a, m, b, t)
    PROVE  LET n == b \o t
               c == m \o n
           IN  /\ n \in Seq(S) /\ c \in Seq(S) /\ a \o c \in Seq(S)
               /\ Len(n) = Len(b) + Len(t) /\ Len(c) > 0 /\ c[1] = "/"
<1> USE DEF Parts
<1> DEFINE n == b \o t
           c == m \o n
<1>1. n \in Seq(S) /\ c \in Seq(S) /\ a \o c \in Seq(S) /\ Len(n) = Len(b) + Len(t)
  BY ConcatProperties
<1> HIDE DEF n
<1>2. 1 \in 1 .. Len(m)
  OBVIOUS
<1>3. Len(c) = Len(m) + Len(n) /\ \A i \in 1 .. Len(m) : c[i] = m[i]
  BY <1>1, Concat
<1>4. Len(c) > 0 /\ c[1] = "/"
  BY <1>1, <1>2, <1>3
<1> QED
  BY <1>1, <1>4 DEF n

LEMMA SameKey ==
    ASSUME NEW S, NEW h, NEW a, NEW m, NEW b, NEW t, NEW a2, NEW m2, NEW b2, NEW t2,
           Parts(S, h, a, m, b, t), Parts(S, h, a2, m2, b2, t2)
    PROVE  /\ Len(m) = Len(m2) /\ Len(t) = Len(t2)
           /\ Nest(h, a, m, b, t) = Nest(h, a2, m2, b2, t2)
           => a = a2 /\ m = m2 /\ b = b2
<1> DEFINE n == b \o t
           n2 == b2 \o t2
           c == m \o n
           c2 == m2 \o n2
           e == a \o c
           e2 == a2 \o c2
<1>1. /\ n \in Seq(S) /\ c \in Seq(S) /\ e \in Seq(S)
      /\ Len(n) = Len(b) + Len(t) /\ Len(c) > 0 /\ c[1] = "/"
  BY AfterSlug
<1>2. /\ n2 \in Seq(S) /\ c2 \in Seq(S) /\ e2 \in Seq(S)
      /\ Len(n2) = Len(b2) + Len(t2) /\ Len(c2) > 0 /\ c2[1] = "/"
  BY AfterSlug
<1>3. Len(b) = Len(b2) /\ n = n2 => b = b2
  BY FrontEqual DEF Parts
<1> HIDE DEF n, n2
<1>4. Len(m) = Len(m2) /\ c = c2 => m = m2 /\ n = n2
  BY <1>1, <1>2, FrontEqual DEF Parts
<1> HIDE DEF c, c2
<1>5. e = e2 => a = a2 /\ c = c2
  BY <1>1, <1>2, SplitAtSlash DEF Parts
<1> HIDE DEF e, e2
<1>6. h \o e = h \o e2 => e = e2
  BY <1>1, <1>2, SameFront DEF Parts
<1> SUFFICES ASSUME Len(m) = Len(m2), Len(t) = Len(t2),
                    Nest(h, a, m, b, t) = Nest(h, a2, m2, b2, t2)
             PROVE  a = a2 /\ m = m2 /\ b = b2
  OBVIOUS
<1>7. a = a2 /\ c = c2
  BY <1>5, <1>6 DEF Nest, e, e2, c, c2, n, n2
<1>8. m = m2 /\ n = n2
  BY <1>4, <1>7
<1>9. Len(b) = Len(b2)
  <2>1. Len(b) + Len(t) = Len(b2) + Len(t2)
    BY <1>1, <1>2, <1>8
  <2>2. Len(b) \in Nat /\ Len(b2) \in Nat /\ Len(t) \in Nat
    BY DEF Parts
  <2> QED
    BY <2>1, <2>2
<1> QED
  BY <1>3, <1>7, <1>8, <1>9

(* What the templates are made of besides slugs. *)
Words == {"renders", "loras", "/", "keyframes", "clips", ".png", "_i2v.mp4",
          "pytorch_lora_weights.safetensors"}

LEMMA Alphabet ==
    ASSUME NEW p \in Seq(STRING), NEW s \in Seq(STRING),
           NEW p2 \in Seq(STRING), NEW s2 \in Seq(STRING)
    PROVE  \E S : /\ Words \subseteq S
                  /\ Slug(p) \in Seq(S) /\ Slug(s) \in Seq(S)
                  /\ Slug(p2) \in Seq(S) /\ Slug(s2) \in Seq(S)
<1>1. PICK A : Slug(p) \in Seq(A)
  BY SlugFacts
<1>2. PICK B : Slug(s) \in Seq(B)
  BY SlugFacts
<1>3. PICK C : Slug(p2) \in Seq(C)
  BY SlugFacts
<1>4. PICK D : Slug(s2) \in Seq(D)
  BY SlugFacts
<1> DEFINE S == Words \cup A \cup B \cup C \cup D
<1>5. /\ Seq(A) \subseteq Seq(S) /\ Seq(B) \subseteq Seq(S)
      /\ Seq(C) \subseteq Seq(S) /\ Seq(D) \subseteq Seq(S)
  BY SeqMonotonic
<1> WITNESS S
<1> QED
  BY <1>1, <1>2, <1>3, <1>4, <1>5

(* k is what the template root, m, t makes of the names p and s. *)
Spelled(k, root, p, m, s, t) ==
    /\ p \in Seq(STRING) /\ s \in Seq(STRING)
    /\ root \in Seq(Words) /\ m \in Seq(Words) /\ t \in Seq(Words)
    /\ Len(root) > 0 /\ Len(m) > 0 /\ m[1] = "/"
    /\ k = Named(root, p, m, s, t)

LEMMA SpelledTwice ==
    ASSUME NEW k, NEW root, NEW p, NEW m, NEW s, NEW t, NEW p2, NEW m2, NEW s2, NEW t2,
           Spelled(k, root, p, m, s, t), Spelled(k, root, p2, m2, s2, t2)
    PROVE  Len(m) = Len(m2) /\ Len(t) = Len(t2)
               => Slug(p) = Slug(p2) /\ m = m2 /\ Slug(s) = Slug(s2)
<1>1. PICK S : /\ Words \subseteq S
               /\ Slug(p) \in Seq(S) /\ Slug(s) \in Seq(S)
               /\ Slug(p2) \in Seq(S) /\ Slug(s2) \in Seq(S)
  BY Alphabet DEF Spelled
<1>2. Seq(Words) \subseteq Seq(S)
  BY <1>1, SeqMonotonic
<1>3. NoSlash(Slug(p)) /\ NoSlash(Slug(p2))
  BY SlugFacts DEF Spelled
<1>4. Parts(S, root, Slug(p), m, Slug(s), t) /\ Parts(S, root, Slug(p2), m2, Slug(s2), t2)
  BY <1>1, <1>2, <1>3 DEF Parts, Spelled
<1>5. /\ k = Nest(root, Slug(p), m, Slug(s), t)
      /\ k = Nest(root, Slug(p2), m2, Slug(s2), t2)
  BY DEF Nest, Named, Spelled
<1>6. Nest(root, Slug(p), m, Slug(s), t) = Nest(root, Slug(p2), m2, Slug(s2), t2)
  BY <1>5
<1> QED
  BY <1>4, <1>6, SameKey, ZenonT(30)

LEMMA SpelledStarts ==
    ASSUME NEW k, NEW root, NEW p, NEW m, NEW s, NEW t, Spelled(k, root, p, m, s, t)
    PROVE  k[1] = root[1]
<1>1. PICK S : Words \subseteq S /\ Slug(p) \in Seq(S) /\ Slug(s) \in Seq(S)
  BY Alphabet DEF Spelled
<1>2. root \in Seq(S) /\ m \in Seq(S) /\ t \in Seq(S)
  BY <1>1, SeqMonotonic DEF Spelled
<1> DEFINE rest == Slug(p) \o (m \o (Slug(s) \o t))
<1>3. rest \in Seq(S)
  BY <1>1, <1>2, ConcatProperties
<1> HIDE DEF rest
<1>4. (root \o rest)[1] = root[1]
  <2>1. 1 \in 1 .. Len(root)
    BY <1>2 DEF Spelled
  <2> QED
    BY <1>2, <1>3, <2>1, Concat
<1> QED
  BY <1>4 DEF Spelled, Named, rest

Spells(k, q, root, m, t) == \E s \in ToSet(q.shots) : Spelled(k, root, q.project, m, s, t)

(* An accepted job writes under keys of its kind's template only. *)
LEMMA Keys ==
    ASSUME NEW token, NEW q \in Request, Accepted(q, token), NEW k \in Written(q)
    PROVE  \/ /\ q.action = "preview"
              /\ Spells(k, q, <<"renders", "/">>, <<"/", "keyframes", "/">>, <<".png">>)
           \/ /\ q.action = "i2v_clip"
              /\ Spells(k, q, <<"renders", "/">>, <<"/", "clips", "/">>, <<"_i2v.mp4">>)
           \/ /\ q.action = "train_lora"
              /\ Spells(k, q, <<"loras", "/">>, <<"/">>,
                        <<"/", "pytorch_lora_weights.safetensors">>)
<1>1. q \in Request /\ q.action \in {"preview", "i2v_clip", "train_lora"}
  BY DEF Accepted, Answer
<1>2. /\ q.project \in Seq(STRING) /\ q.shots \in Seq(Seq(STRING))
      /\ q.action = "i2v_clip" => q.shots # <<>>
  BY <1>1 DEF Request
<1>3. \A s \in ToSet(q.shots) : s \in Seq(STRING)
  BY <1>2 DEF ToSet
<1>4. q.shots # <<>> => q.shots[1] \in ToSet(q.shots)
  BY <1>2 DEF ToSet
<1>5. CASE q.action = "preview"
  BY <1>2, <1>3, <1>5 DEF Written, KeyframeKey, Spells, Spelled, Words
<1>6. CASE q.action = "i2v_clip"
  BY <1>2, <1>3, <1>4, <1>6 DEF Written, ClipKey, Spells, Spelled, Words
<1>7. CASE q.action = "train_lora"
  BY <1>2, <1>3, <1>7 DEF Written, LoraKey, Spells, Spelled, Words
<1> QED
  BY <1>1, <1>5, <1>6, <1>7

(* Two accepted jobs that write the same key are of the same kind, and     *)
(* name the same project and the same shot or slot, up to _safe: no two    *)
(* of the templates of contract.py ever spell the same key.                *)
THEOREM KeysTellNames ==
    ASSUME NEW token, NEW q \in Request, NEW p \in Request,
           Accepted(q, token), Accepted(p, token),
           NEW k \in Written(q), k \in Written(p)
    PROVE  q.action = p.action /\ SameNames(q, p)
<1> DEFINE renders == <<"renders", "/">>
           loras   == <<"loras", "/">>
           frames  == <<"/", "keyframes", "/">>
           clipsAt == <<"/", "clips", "/">>
           slash   == <<"/">>
           png     == <<".png">>
           mp4     == <<"_i2v.mp4">>
           weights == <<"/", "pytorch_lora_weights.safetensors">>
<1>1. /\ renders \in Seq(Words) /\ loras \in Seq(Words) /\ frames \in Seq(Words)
      /\ clipsAt \in Seq(Words) /\ slash \in Seq(Words) /\ png \in Seq(Words)
      /\ mp4 \in Seq(Words) /\ weights \in Seq(Words)
  BY DEF Words
<1>2. /\ Len(renders) = 2 /\ Len(loras) = 2 /\ renders[1] # loras[1]
      /\ Len(frames) = 3 /\ Len(clipsAt) = 3 /\ Len(slash) = 1 /\ frames # clipsAt
      /\ frames[1] = "/" /\ clipsAt[1] = "/" /\ slash[1] = "/"
      /\ Len(png) = 1 /\ Len(mp4) = 1
  OBVIOUS
<1> HIDE DEF renders, loras, frames, clipsAt, slash, png, mp4, weights
<1> DEFINE F(x) == Spells(k, x, renders, frames, png)
           C(x) == Spells(k, x, renders, clipsAt, mp4)
           L(x) == Spells(k, x, loras, slash, weights)
<1>3. \A x \in {q, p} :
         \/ x.action = "preview" /\ F(x)
         \/ x.action = "i2v_clip" /\ C(x)
         \/ x.action = "train_lora" /\ L(x)
  BY Keys DEF renders, loras, frames, clipsAt, slash, png, mp4, weights
<1>4. ASSUME NEW root, NEW m, NEW t, NEW m2, NEW t2, Len(m) = Len(m2), Len(t) = Len(t2),
             Spells(k, q, root, m, t), Spells(k, p, root, m2, t2)
      PROVE  m = m2 /\ SameNames(q, p)
  <2>1. PICK s \in ToSet(q.shots) : Spelled(k, root, q.project, m, s, t)
    BY <1>4 DEF Spells
  <2>2. PICK s2 \in ToSet(p.shots) : Spelled(k, root, p.project, m2, s2, t2)
    BY <1>4 DEF Spells
  <2>3. Slug(q.project) = Slug(p.project) /\ m = m2 /\ Slug(s) = Slug(s2)
    BY <1>4, <2>1, <2>2, SpelledTwice
  <2> QED
    BY <2>3 DEF SameNames
<1>5. ASSUME NEW x, NEW y, L(x), F(y) \/ C(y)
      PROVE  FALSE
  <2>1. k[1] = loras[1]
    BY <1>5, SpelledStarts DEF Spells
  <2>2. k[1] = renders[1]
    BY <1>5, SpelledStarts DEF Spells
  <2> QED
    BY <1>2, <2>1, <2>2
<1>6. F(q) /\ F(p) => SameNames(q, p)
  BY <1>1, <1>2, <1>4
<1>7. C(q) /\ C(p) => SameNames(q, p)
  BY <1>1, <1>2, <1>4
<1>8. L(q) /\ L(p) => SameNames(q, p)
  BY <1>1, <1>2, <1>4
<1>9. ~(F(q) /\ C(p)) /\ ~(C(q) /\ F(p))
  <2>1. F(q) /\ C(p) => frames = clipsAt
    BY <1>2, <1>4
  <2>2. C(q) /\ F(p) => clipsAt = frames
    BY <1>2, <1>4
  <2> QED
    BY <1>2, <2>1, <2>2
<1> HIDE DEF F, C, L
<1>10. (F(q) \/ C(q) \/ L(q)) /\ (F(p) \/ C(p) \/ L(p))
  BY <1>3
<1> QED
  BY <1>3, <1>5, <1>6, <1>7, <1>8, <1>9
-----------------------------------------------------------------------------
(* Where in a key its parts are.                                           *)
Placed(S, k, h, a, m, b, t) ==
    /\ k \in Seq(S)
    /\ Len(k) = Len(h) + Len(a) + Len(m) + Len(b) + Len(t)
    /\ \A i \in 1 .. Len(h) : k[i] = h[i]
    /\ \A i \in 1 .. Len(a) : k[Len(h) + i] = a[i]
    /\ \A i \in 1 .. Len(m) : k[Len(h) + Len(a) + i] = m[i]
    /\ \A i \in 1 .. Len(b) : k[Len(h) + Len(a) + Len(m) + i] = b[i]
    /\ \A i \in 1 .. Len(t) : k[Len(h) + Len(a) + Len(m) + Len(b) + i] = t[i]

LEMMA Offsets ==
    ASSUME NEW S, NEW h \in Seq(S), NEW a \in Seq(S), NEW m \in Seq(S),
           NEW b \in Seq(S), NEW t \in Seq(S), NEW k, k = Nest(h, a, m, b, t)
    PROVE  Placed(S, k, h, a, m, b, t)
<1>1. PICK n : n = b \o t
  OBVIOUS
<1>2. /\ n \in Seq(S) /\ Len(n) = Len(b) + Len(t)
      /\ \A i \in 1 .. Len(b) : n[i] = b[i]
      /\ \A i \in 1 .. Len(t) : n[Len(b) + i] = t[i]
  BY <1>1, Concat
<1>n. n \in Seq(S)
  BY <1>2
<1>3. PICK c : c = m \o n
  OBVIOUS
<1>4. /\ c \in Seq(S) /\ Len(c) = Len(m) + Len(n)
      /\ \A i \in 1 .. Len(m) : c[i] = m[i]
      /\ \A i \in 1 .. Len(n) : c[Len(m) + i] = n[i]
  BY <1>n, <1>3, Concat
<1>c. c \in Seq(S)
  BY <1>4
<1>5. PICK e : e = a \o c
  OBVIOUS
<1>6. /\ e \in Seq(S) /\ Len(e) = Len(a) + Len(c)
      /\ \A i \in 1 .. Len(a) : e[i] = a[i]
      /\ \A i \in 1 .. Len(c) : e[Len(a) + i] = c[i]
  BY <1>c, <1>5, Concat
<1>e. e \in Seq(S)
  BY <1>6
<1>7. k = h \o e
  BY <1>1, <1>3, <1>5 DEF Nest
<1>8. /\ k \in Seq(S) /\ Len(k) = Len(h) + Len(e)
      /\ \A i \in 1 .. Len(h) : k[i] = h[i]
      /\ \A i \in 1 .. Len(e) : k[Len(h) + i] = e[i]
  BY <1>e, <1>7, Concat
<1>9. /\ Len(h) \in Nat /\ Len(a) \in Nat /\ Len(m) \in Nat
      /\ Len(b) \in Nat /\ Len(t) \in Nat
  OBVIOUS
<1>10. ASSUME NEW i \in 1 .. Len(a) PROVE k[Len(h) + i] = a[i]
  BY <1>4, <1>6, <1>8, <1>9, <1>10
<1>11. ASSUME NEW i \in 1 .. Len(c) PROVE k[Len(h) + Len(a) + i] = c[i]
  <2>1. Len(a) + i \in 1 .. Len(e) /\ e[Len(a) + i] = c[i]
    BY <1>4, <1>6, <1>9, <1>11
  <2>2. k[Len(h) + (Len(a) + i)] = c[i]
    BY <1>8, <2>1
  <2> QED
    BY <1>9, <2>2
<1>12. ASSUME NEW i \in 1 .. Len(n) PROVE k[Len(h) + Len(a) + Len(m) + i] = n[i]
  <2>1. Len(m) + i \in 1 .. Len(c) /\ c[Len(m) + i] = n[i]
    BY <1>2, <1>4, <1>9, <1>12
  <2>2. k[Len(h) + Len(a) + (Len(m) + i)] = n[i]
    BY <1>11, <2>1
  <2> QED
    BY <1>9, <2>2
<1>13. ASSUME NEW i \in 1 .. Len(m) PROVE k[Len(h) + Len(a) + i] = m[i]
  BY <1>2, <1>4, <1>9, <1>11, <1>13
<1>14. ASSUME NEW i \in 1 .. Len(b) PROVE k[Len(h) + Len(a) + Len(m) + i] = b[i]
  BY <1>2, <1>9, <1>12, <1>14
<1>15. ASSUME NEW i \in 1 .. Len(t)
       PROVE  k[Len(h) + Len(a) + Len(m) + Len(b) + i] = t[i]
  <2>1. Len(b) + i \in 1 .. Len(n) /\ n[Len(b) + i] = t[i]
    BY <1>2, <1>9, <1>15
  <2>2. k[Len(h) + Len(a) + Len(m) + (Len(b) + i)] = t[i]
    BY <1>12, <2>1
  <2> QED
    BY <1>9, <2>2
<1>16. Len(k) = Len(h) + Len(a) + Len(m) + Len(b) + Len(t)
  BY <1>2, <1>4, <1>6, <1>8, <1>9
<1> QED
  BY <1>8, <1>10, <1>13, <1>14, <1>15, <1>16 DEF Placed

(* What a slug is like: SlugFacts. *)
SlugLike(a) == Len(a) \in Nat \ {0} /\ NoSlash(a)

Clean(a) == \A i \in 1 .. Len(a) : a[i] \notin Odd

(* k is a key under renders/, of the slugs a and b. *)
RenderLaid(k, a, dir, b, ending) ==
    /\ \E S : k \in Seq(S)
    /\ Len(k) = Len(a) + Len(b) + 6
    /\ k[1] = "renders" /\ k[2] = "/"
    /\ \A i \in 1 .. Len(a) : k[i + 2] = a[i]
    /\ k[Len(a) + 3] = "/" /\ k[Len(a) + 4] = dir /\ k[Len(a) + 5] = "/"
    /\ \A i \in 1 .. Len(b) : k[Len(a) + 5 + i] = b[i]
    /\ k[Len(a) + Len(b) + 6] = ending

(* k is the key of a LoRA, of the slugs a and b. *)
LoraLaid(k, a, b) ==
    /\ \E S : k \in Seq(S)
    /\ Len(k) = Len(a) + Len(b) + 5
    /\ k[1] = "loras" /\ k[2] = "/"
    /\ \A i \in 1 .. Len(a) : k[i + 2] = a[i]
    /\ k[Len(a) + 3] = "/"
    /\ \A i \in 1 .. Len(b) : k[Len(a) + 3 + i] = b[i]
    /\ k[Len(a) + Len(b) + 4] = "/"
    /\ k[Len(a) + Len(b) + 5] = "pytorch_lora_weights.safetensors"

LEMMA RenderIsLaid ==
    ASSUME NEW p \in Seq(STRING), NEW s \in Seq(STRING), NEW dir \in Words, NEW ending \in Words
    PROVE  RenderLaid(Named(<<"renders", "/">>, p, <<"/", dir, "/">>, s, <<ending>>),
                      Slug(p), dir, Slug(s), ending)
<1>1. PICK S : Words \subseteq S /\ Slug(p) \in Seq(S) /\ Slug(s) \in Seq(S)
  BY Alphabet
<1> DEFINE h == <<"renders", "/">>
           m == <<"/", dir, "/">>
           t == <<ending>>
<1>2. /\ h \in Seq(S) /\ m \in Seq(S) /\ t \in Seq(S)
      /\ Slug(p) \in Seq(S) /\ Slug(s) \in Seq(S)
  BY <1>1 DEF Words
<1>3. /\ Len(h) = 2 /\ h[1] = "renders" /\ h[2] = "/"
      /\ Len(m) = 3 /\ m[1] = "/" /\ m[2] = dir /\ m[3] = "/"
      /\ Len(t) = 1 /\ t[1] = ending
  OBVIOUS
<1> HIDE DEF h, m, t
<1>4. PICK k : k = Nest(h, Slug(p), m, Slug(s), t)
  OBVIOUS
<1>5. Placed(S, k, h, Slug(p), m, Slug(s), t)
  BY <1>2, <1>4, Offsets
<1>6. Len(Slug(p)) \in Nat /\ Len(Slug(s)) \in Nat
  BY SlugFacts
<1>7. RenderLaid(k, Slug(p), dir, Slug(s), ending)
  <2>1. Len(k) = Len(Slug(p)) + Len(Slug(s)) + 6
    BY <1>3, <1>5, <1>6 DEF Placed
  <2>2. k[1] = "renders" /\ k[2] = "/"
    BY <1>3, <1>5 DEF Placed
  <2>3. \A i \in 1 .. Len(Slug(p)) : k[i + 2] = Slug(p)[i]
    BY <1>3, <1>5, <1>6 DEF Placed
  <2>4. k[Len(Slug(p)) + 3] = "/" /\ k[Len(Slug(p)) + 4] = dir /\ k[Len(Slug(p)) + 5] = "/"
    BY <1>3, <1>5, <1>6 DEF Placed
  <2>5. \A i \in 1 .. Len(Slug(s)) : k[Len(Slug(p)) + 5 + i] = Slug(s)[i]
    BY <1>3, <1>5, <1>6 DEF Placed
  <2>6. k[Len(Slug(p)) + Len(Slug(s)) + 6] = ending
    BY <1>3, <1>5, <1>6 DEF Placed
  <2> QED
    BY <1>5, <2>1, <2>2, <2>3, <2>4, <2>5, <2>6 DEF RenderLaid, Placed
<1> QED
  BY <1>4, <1>7 DEF Named, Nest, h, m, t

LEMMA LoraIsLaid ==
    ASSUME NEW p \in Seq(STRING), NEW s \in Seq(STRING)
    PROVE  LoraLaid(LoraKey(p, s), Slug(p), Slug(s))
<1>1. PICK S : Words \subseteq S /\ Slug(p) \in Seq(S) /\ Slug(s) \in Seq(S)
  BY Alphabet
<1> DEFINE h == <<"loras", "/">>
           m == <<"/">>
           t == <<"/", "pytorch_lora_weights.safetensors">>
<1>2. /\ h \in Seq(S) /\ m \in Seq(S) /\ t \in Seq(S)
      /\ Slug(p) \in Seq(S) /\ Slug(s) \in Seq(S)
  BY <1>1 DEF Words
<1>3. /\ Len(h) = 2 /\ h[1] = "loras" /\ h[2] = "/"
      /\ Len(m) = 1 /\ m[1] = "/"
      /\ Len(t) = 2 /\ t[1] = "/" /\ t[2] = "pytorch_lora_weights.safetensors"
  OBVIOUS
<1> HIDE DEF h, m, t
<1>4. PICK k : k = Nest(h, Slug(p), m, Slug(s), t)
  OBVIOUS
<1>5. Placed(S, k, h, Slug(p), m, Slug(s), t)
  BY <1>2, <1>4, Offsets
<1>6. Len(Slug(p)) \in Nat /\ Len(Slug(s)) \in Nat
  BY SlugFacts
<1>7. LoraLaid(k, Slug(p), Slug(s))
  <2>1. Len(k) = Len(Slug(p)) + Len(Slug(s)) + 5
    BY <1>3, <1>5, <1>6 DEF Placed
  <2>2. k[1] = "loras" /\ k[2] = "/"
    BY <1>3, <1>5 DEF Placed
  <2>3. \A i \in 1 .. Len(Slug(p)) : k[i + 2] = Slug(p)[i]
    BY <1>3, <1>5, <1>6 DEF Placed
  <2>4. k[Len(Slug(p)) + 3] = "/"
    BY <1>3, <1>5, <1>6 DEF Placed
  <2>5. \A i \in 1 .. Len(Slug(s)) : k[Len(Slug(p)) + 3 + i] = Slug(s)[i]
    BY <1>3, <1>5, <1>6 DEF Placed
  <2>6. /\ k[Len(Slug(p)) + Len(Slug(s)) + 4] = "/"
        /\ k[Len(Slug(p)) + Len(Slug(s)) + 5] = "pytorch_lora_weights.safetensors"
    BY <1>3, <1>5, <1>6 DEF Placed
  <2> QED
    BY <1>5, <2>1, <2>2, <2>3, <2>4, <2>5, <2>6 DEF LoraLaid, Placed
<1> QED
  BY <1>4, <1>7 DEF LoraKey, Named, Nest, h, m, t
-----------------------------------------------------------------------------
DotDot(a) == Len(a) = 2 /\ a[1] = "." /\ a[2] = "."

(* Which keys under renders/ pass for a safe path. *)
LEMMA RenderSafe ==
    ASSUME NEW k, NEW a, NEW dir, NEW b, NEW ending, RenderLaid(k, a, dir, b, ending),
           SlugLike(a), SlugLike(b), dir \in {"keyframes", "clips"},
           ending \in {".png", "_i2v.mp4"}
    PROVE  SafePath(k) <=> Clean(a) /\ Clean(b) /\ ~DotDot(a)
<1> DEFINE A == Len(a)
           B == Len(b)
           N == A + B + 6
<1>1. /\ A \in Nat \ {0} /\ B \in Nat \ {0} /\ N \in Nat
      /\ \A i \in 1 .. A : a[i] # "/"
      /\ \A i \in 1 .. B : b[i] # "/"
  BY DEF SlugLike, NoSlash
<1>2. /\ Len(k) = N /\ k[1] = "renders" /\ k[2] = "/"
      /\ \A i \in 1 .. A : k[i + 2] = a[i]
      /\ k[A + 3] = "/" /\ k[A + 4] = dir /\ k[A + 5] = "/"
      /\ \A i \in 1 .. B : k[A + 5 + i] = b[i]
      /\ k[N] = ending
  BY DEF RenderLaid
<1>3. DOMAIN k = 1 .. N /\ k # <<>>
  BY <1>1, <1>2 DEF RenderLaid
<1> HIDE DEF A, B, N
<1>4. N = A + B + 6
  BY DEF N
<1>5. \A i \in 1 .. N : \/ i \in {1, 2, A + 3, A + 4, A + 5, N}
                        \/ i - 2 \in 1 .. A \/ i - (A + 5) \in 1 .. B
  BY <1>1, <1>4
<1>6. \A i \in 1 .. N : i - 2 \in 1 .. A => k[i] = a[i - 2]
  BY <1>1, <1>2
<1>7. \A i \in 1 .. N : i - (A + 5) \in 1 .. B => k[i] = b[i - (A + 5)]
  BY <1>1, <1>2
<1>8. \A i \in {1, 2, A + 3, A + 4, A + 5, N} :
          /\ k[i] \notin {" ", "'", "."}
          /\ k[i] = "/" <=> i \in {2, A + 3, A + 5}
  BY <1>1, <1>2, <1>4
<1>9. ASSUME NEW i \in 1 .. N PROVE k[i] = "/" <=> i \in {2, A + 3, A + 5}
  <2>1. CASE i \in {1, 2, A + 3, A + 4, A + 5, N}
    BY <1>8, <2>1
  <2>2. CASE i - 2 \in 1 .. A
    <3>1. k[i] # "/"
      BY <1>1, <1>6, <2>2
    <3>2. i \notin {2, A + 3, A + 5}
      BY <1>1, <2>2
    <3> QED
      BY <3>1, <3>2
  <2>3. CASE i - (A + 5) \in 1 .. B
    <3>1. k[i] # "/"
      BY <1>1, <1>7, <2>3
    <3>2. i \notin {2, A + 3, A + 5}
      BY <1>1, <2>3
    <3> QED
      BY <3>1, <3>2
  <2> QED
    BY <1>5, <2>1, <2>2, <2>3
<1>10. k # <<>> /\ k[1] # "/" /\ Last(k) # "/"
  BY <1>1, <1>2, <1>3, <1>4, <1>9 DEF Last
<1>11. \A i \in 2 .. N : ~(k[i - 1] = "/" /\ k[i] = "/")
  BY <1>1, <1>4, <1>9
<1>12. (\A i \in DOMAIN k : k[i] \notin Odd \ {"/"}) <=> Clean(a) /\ Clean(b)
  <2>1. ASSUME Clean(a), Clean(b), NEW i \in 1 .. N PROVE k[i] \notin Odd \ {"/"}
    BY <1>5, <1>6, <1>7, <1>8, <2>1 DEF Clean, Odd, A, B
  <2>2. ASSUME \A i \in 1 .. N : k[i] \notin Odd \ {"/"}, NEW i \in 1 .. A
        PROVE  a[i] \notin Odd
    <3>1. i + 2 \in 1 .. N /\ k[i + 2] = a[i] /\ a[i] # "/"
      BY <1>1, <1>2, <1>4
    <3> QED
      BY <2>2, <3>1
  <2>3. ASSUME \A i \in 1 .. N : k[i] \notin Odd \ {"/"}, NEW i \in 1 .. B
        PROVE  b[i] \notin Odd
    <3>1. A + 5 + i \in 1 .. N /\ k[A + 5 + i] = b[i] /\ b[i] # "/"
      BY <1>1, <1>2, <1>4
    <3> QED
      BY <2>3, <3>1
  <2> QED
    BY <1>3, <2>1, <2>2, <2>3 DEF Clean, A, B
<1>13. SafePath(k) => ~DotDot(a)
  <2> SUFFICES ASSUME SafePath(k), DotDot(a) PROVE FALSE
    OBVIOUS
  <2>1. A = 2 /\ a[1] = "." /\ a[2] = "."
    BY DEF DotDot, A
  <2>2. k[3] = "." /\ k[4] = "." /\ k[2] = "/" /\ k[5] = "/" /\ 4 \in 2 .. Len(k)
    BY <1>1, <1>2, <1>4, <2>1
  <2>3. \A i \in 2 .. Len(k) : k[i - 1] = "." /\ k[i] = "." =>
            \/ i > 2 /\ k[i - 2] # "/"
            \/ i < Len(k) /\ k[i + 1] # "/"
    BY DEF SafePath
  <2> QED
    BY <2>2, <2>3
<1>14. ASSUME ~DotDot(a), NEW i \in 2 .. N, k[i - 1] = ".", k[i] = "."
       PROVE  \/ i > 2 /\ k[i - 2] # "/"
              \/ i < N /\ k[i + 1] # "/"
  <2>1. i - 2 \in 1 .. A \/ i - (A + 5) \in 1 .. B
    <3>1. i \in 1 .. N /\ i \notin {1, 2, A + 3, A + 4, A + 5, N}
      <4>1. i \in 1 .. N
        BY <1>1, <1>4
      <4>2. \A x \in {1, 2, A + 3, A + 4, A + 5, N} : k[x] # "."
        BY <1>8
      <4> QED
        BY <1>14, <4>1, <4>2
    <3> QED
      BY <1>5, <3>1
  <2>2. CASE i - (A + 5) \in 1 .. B
    <3>1. i < N /\ i + 1 \in 1 .. N /\ i + 1 \notin {2, A + 3, A + 5}
      BY <1>1, <1>4, <2>2
    <3> QED
      BY <1>9, <3>1
  <2>3. CASE i - 2 \in 1 .. A
    <3>1. i # 3
      BY <1>2, <1>14
    <3>2. CASE i > 4
      BY <1>1, <1>4, <1>9, <2>3, <3>2
    <3>3. CASE i = 4 /\ A > 2
      BY <1>1, <1>4, <1>9, <3>3
    <3>4. CASE i = 4 /\ A = 2
      BY <1>1, <1>2, <1>14, <3>4 DEF DotDot, A
    <3> QED
      BY <1>1, <2>3, <3>1, <3>2, <3>3, <3>4
  <2> QED
    BY <2>1, <2>2, <2>3
<1>15. ASSUME Clean(a), Clean(b), ~DotDot(a) PROVE SafePath(k)
  <2>1. \A i \in 2 .. Len(k) : ~(k[i - 1] = "/" /\ k[i] = "/")
    BY <1>2, <1>11
  <2>2. \A i \in 2 .. Len(k) : k[i - 1] = "." /\ k[i] = "." =>
            \/ i > 2 /\ k[i - 2] # "/"
            \/ i < Len(k) /\ k[i + 1] # "/"
    BY <1>2, <1>14, <1>15
  <2> QED
    BY <1>10, <1>12, <1>15, <2>1, <2>2 DEF SafePath
<1>16. SafePath(k) => Clean(a) /\ Clean(b)
  BY <1>12 DEF SafePath
<1> QED
  BY <1>13, <1>15, <1>16

(* Which keys of LoRAs do. *)
LEMMA LoraSafe ==
    ASSUME NEW k, NEW a, NEW b, LoraLaid(k, a, b), SlugLike(a), SlugLike(b)
    PROVE  SafePath(k) <=> Clean(a) /\ Clean(b) /\ ~DotDot(a) /\ ~DotDot(b)
<1> DEFINE A == Len(a)
           B == Len(b)
           N == A + B + 5
<1>1. /\ A \in Nat \ {0} /\ B \in Nat \ {0} /\ N \in Nat
      /\ \A i \in 1 .. A : a[i] # "/"
      /\ \A i \in 1 .. B : b[i] # "/"
  BY DEF SlugLike, NoSlash
<1>2. /\ Len(k) = N /\ k[1] = "loras" /\ k[2] = "/"
      /\ \A i \in 1 .. A : k[i + 2] = a[i]
      /\ k[A + 3] = "/" /\ k[A + B + 4] = "/"
      /\ \A i \in 1 .. B : k[A + 3 + i] = b[i]
      /\ k[N] = "pytorch_lora_weights.safetensors"
  BY DEF LoraLaid
<1>3. DOMAIN k = 1 .. N /\ k # <<>>
  BY <1>1, <1>2 DEF LoraLaid
<1> HIDE DEF A, B, N
<1>4. N = A + B + 5
  BY DEF N
<1>5. \A i \in 1 .. N : \/ i \in {1, 2, A + 3, A + B + 4, N}
                        \/ i - 2 \in 1 .. A \/ i - (A + 3) \in 1 .. B
  BY <1>1, <1>4
<1>6. \A i \in 1 .. N : i - 2 \in 1 .. A => k[i] = a[i - 2]
  BY <1>1, <1>2
<1>7. \A i \in 1 .. N : i - (A + 3) \in 1 .. B => k[i] = b[i - (A + 3)]
  BY <1>1, <1>2
<1>8. \A i \in {1, 2, A + 3, A + B + 4, N} :
          /\ k[i] \notin {" ", "'", "."}
          /\ k[i] = "/" <=> i \in {2, A + 3, A + B + 4}
  BY <1>1, <1>2, <1>4
<1>9. \A i \in 1 .. N : k[i] = "/" <=> i \in {2, A + 3, A + B + 4}
  BY <1>1, <1>4, <1>5, <1>6, <1>7, <1>8
<1>10. k # <<>> /\ k[1] # "/" /\ Last(k) # "/"
  BY <1>1, <1>2, <1>3, <1>4, <1>9 DEF Last
<1>11. \A i \in 2 .. N : ~(k[i - 1] = "/" /\ k[i] = "/")
  BY <1>1, <1>4, <1>9
<1>12. (\A i \in DOMAIN k : k[i] \notin Odd \ {"/"}) <=> Clean(a) /\ Clean(b)
  <2>1. ASSUME Clean(a), Clean(b), NEW i \in 1 .. N PROVE k[i] \notin Odd \ {"/"}
    BY <1>5, <1>6, <1>7, <1>8, <2>1 DEF Clean, Odd, A, B
  <2>2. ASSUME \A i \in 1 .. N : k[i] \notin Odd \ {"/"}, NEW i \in 1 .. A
        PROVE  a[i] \notin Odd
    <3>1. i + 2 \in 1 .. N /\ k[i + 2] = a[i] /\ a[i] # "/"
      BY <1>1, <1>2, <1>4
    <3> QED
      BY <2>2, <3>1
  <2>3. ASSUME \A i \in 1 .. N : k[i] \notin Odd \ {"/"}, NEW i \in 1 .. B
        PROVE  b[i] \notin Odd
    <3>1. A + 3 + i \in 1 .. N /\ k[A + 3 + i] = b[i] /\ b[i] # "/"
      BY <1>1, <1>2, <1>4
    <3> QED
      BY <2>3, <3>1
  <2> QED
    BY <1>3, <2>1, <2>2, <2>3 DEF Clean, A, B
<1>13. SafePath(k) => ~DotDot(a) /\ ~DotDot(b)
  <2> SUFFICES ASSUME SafePath(k), DotDot(a) \/ DotDot(b) PROVE FALSE
    OBVIOUS
  <2>1. \A i \in 2 .. Len(k) : k[i - 1] = "." /\ k[i] = "." =>
            \/ i > 2 /\ k[i - 2] # "/"
            \/ i < Len(k) /\ k[i + 1] # "/"
    BY DEF SafePath
  <2>2. CASE DotDot(a)
    <3>1. A = 2 /\ a[1] = "." /\ a[2] = "."
      BY <2>2 DEF DotDot, A
    <3>2. k[3] = "." /\ k[4] = "." /\ k[2] = "/" /\ k[5] = "/" /\ 4 \in 2 .. Len(k)
      BY <1>1, <1>2, <1>4, <3>1
    <3> QED
      BY <2>1, <3>2
  <2>3. CASE DotDot(b)
    <3>1. B = 2 /\ b[1] = "." /\ b[2] = "."
      BY <2>3 DEF DotDot, B
    <3>2. /\ k[A + 4] = "." /\ k[A + 5] = "." /\ k[A + 3] = "/" /\ k[A + 6] = "/"
          /\ A + 5 \in 2 .. Len(k)
      BY <1>1, <1>2, <1>4, <3>1
    <3>3. (A + 5) - 1 = A + 4 /\ (A + 5) - 2 = A + 3 /\ (A + 5) + 1 = A + 6
      BY <1>1
    <3> QED
      BY <2>1, <3>2, <3>3
  <2> QED
    BY <2>2, <2>3
<1>14. ASSUME ~DotDot(a), ~DotDot(b), NEW i \in 2 .. N, k[i - 1] = ".", k[i] = "."
       PROVE  \/ i > 2 /\ k[i - 2] # "/"
              \/ i < N /\ k[i + 1] # "/"
  <2>1. i - 2 \in 1 .. A \/ i - (A + 3) \in 1 .. B
    <3>1. i \in 1 .. N /\ i \notin {1, 2, A + 3, A + B + 4, N}
      <4>1. i \in 1 .. N
        BY <1>1, <1>4
      <4>2. \A x \in {1, 2, A + 3, A + B + 4, N} : k[x] # "."
        BY <1>8
      <4> QED
        BY <1>14, <4>1, <4>2
    <3> QED
      BY <1>5, <3>1
  <2>2. CASE i - (A + 3) \in 1 .. B
    <3>1. i # A + 4
      BY <1>1, <1>2, <1>14
    <3>2. CASE i > A + 5
      BY <1>1, <1>4, <1>9, <2>2, <3>2
    <3>3. CASE i = A + 5 /\ B > 2
      BY <1>1, <1>4, <1>9, <3>3
    <3>4. CASE i = A + 5 /\ B = 2
      <4>1. k[A + 4] = b[1] /\ k[A + 5] = b[2]
        BY <1>1, <1>2, <3>4
      <4> QED
        BY <1>1, <1>14, <3>4, <4>1 DEF DotDot, B
    <3> QED
      BY <1>1, <2>2, <3>1, <3>2, <3>3, <3>4
  <2>3. CASE i - 2 \in 1 .. A
    <3>1. i # 3
      BY <1>2, <1>14
    <3>2. CASE i > 4
      BY <1>1, <1>4, <1>9, <2>3, <3>2
    <3>3. CASE i = 4 /\ A > 2
      BY <1>1, <1>4, <1>9, <3>3
    <3>4. CASE i = 4 /\ A = 2
      BY <1>1, <1>2, <1>14, <3>4 DEF DotDot, A
    <3> QED
      BY <1>1, <2>3, <3>1, <3>2, <3>3, <3>4
  <2> QED
    BY <2>1, <2>2, <2>3
<1>15. ASSUME Clean(a), Clean(b), ~DotDot(a), ~DotDot(b) PROVE SafePath(k)
  <2>1. \A i \in 2 .. Len(k) : ~(k[i - 1] = "/" /\ k[i] = "/")
    BY <1>2, <1>11
  <2>2. \A i \in 2 .. Len(k) : k[i - 1] = "." /\ k[i] = "." =>
            \/ i > 2 /\ k[i - 2] # "/"
            \/ i < Len(k) /\ k[i + 1] # "/"
    BY <1>2, <1>14, <1>15
  <2> QED
    BY <1>10, <1>12, <1>15, <2>1, <2>2 DEF SafePath
<1>16. SafePath(k) => Clean(a) /\ Clean(b)
  BY <1>12 DEF SafePath
<1> QED
  BY <1>13, <1>15, <1>16
-----------------------------------------------------------------------------
(* Prefixes and stretches of a sequence, item by item. *)
LEMMA PrefixAt ==
    ASSUME NEW S, NEW h \in Seq(S), NEW T, NEW k \in Seq(T)
    PROVE  IsPrefix(h, k) <=> Len(h) <= Len(k) /\ \A i \in 1 .. Len(h) : k[i] = h[i]
<1>1. SubSeq(h, 1, Len(h)) = h
  BY SubSeqFull
<1>2. ASSUME Len(h) <= Len(k)
      PROVE  /\ SubSeq(k, 1, Len(h)) \in Seq(T) /\ Len(SubSeq(k, 1, Len(h))) = Len(h)
             /\ \A i \in 1 .. Len(h) : SubSeq(k, 1, Len(h))[i] = k[i]
  BY <1>2
<1>3. ASSUME Len(h) <= Len(k), \A i \in 1 .. Len(h) : k[i] = h[i]
      PROVE  SubSeq(k, 1, Len(h)) = h
  <2>1. PICK l : l = SubSeq(k, 1, Len(h))
    OBVIOUS
  <2>2. l \in Seq(T) /\ Len(l) = Len(h) /\ \A i \in 1 .. Len(h) : l[i] = h[i]
    BY <1>2, <1>3, <2>1
  <2> QED
    BY <2>1, <2>2, SeqEqual
<1>4. ASSUME Len(h) <= Len(k), SubSeq(k, 1, Len(h)) = h
      PROVE  \A i \in 1 .. Len(h) : k[i] = h[i]
  BY <1>2, <1>4
<1> QED
  BY <1>1, <1>3, <1>4 DEF IsPrefix

Stretch(k, i, x, y, z) == SubSeq(k, i, i + 2) = <<x, y, z>>

LEMMA ThreeAt ==
    ASSUME NEW T, NEW k \in Seq(T), NEW i \in 1 .. Len(k) - 2, NEW x, NEW y, NEW z
    PROVE  Stretch(k, i, x, y, z) <=> k[i] = x /\ k[i + 1] = y /\ k[i + 2] = z
<1>1. PICK l : l = SubSeq(k, i, i + 2)
  OBVIOUS
<1>2. l \in Seq(T) /\ Len(l) = 3 /\ \A n \in 1 .. 3 : l[n] = k[i + n - 1]
  <2>1. i \in Int /\ i + 2 \in Int /\ i <= i + 2 /\ (i + 2) - i + 1 = 3
    OBVIOUS
  <2>2. \A n \in i .. i + 2 : k[n] \in T
    <3>1. DOMAIN k = 1 .. Len(k) /\ Len(k) \in Nat
      OBVIOUS
    <3>2. \A n \in i .. i + 2 : n \in 1 .. Len(k)
      BY <3>1
    <3> QED
      BY <3>1, <3>2
  <2>3. /\ l \in Seq(T) /\ Len(l) = 3
        /\ \A n \in 1 .. 3 : l[n] = k[i + n - 1]
    BY <1>1, <2>1, <2>2, SubSeqProperties
  <2> QED
    BY <2>3
<1>3. l[1] = k[i] /\ l[2] = k[i + 1] /\ l[3] = k[i + 2]
  BY <1>2
<1>4. l = <<l[1], l[2], l[3]>>
  BY <1>2
<1>5. l = <<x, y, z>> => l[1] = x /\ l[2] = y /\ l[3] = z
  OBVIOUS
<1>6. l[1] = x /\ l[2] = y /\ l[3] = z => l = <<x, y, z>>
  BY <1>4
<1> QED
  BY <1>1, <1>3, <1>5, <1>6 DEF Stretch

(* The prefix of the keyframes of a project. *)
LEMMA UnderIsLaid ==
    ASSUME NEW p \in Seq(STRING), NEW a, a = Slug(p)
    PROVE  /\ \E S : Under(p) \in Seq(S)
           /\ Len(Under(p)) = Len(a) + 5
           /\ Under(p)[1] = "renders" /\ Under(p)[2] = "/"
           /\ \A i \in 1 .. Len(a) : Under(p)[i + 2] = a[i]
           /\ Under(p)[Len(a) + 3] = "/" /\ Under(p)[Len(a) + 4] = "keyframes"
           /\ Under(p)[Len(a) + 5] = "/"
<1>1. PICK S : Words \subseteq S /\ a \in Seq(S)
  BY Alphabet
<1> DEFINE h == <<"renders", "/">>
           m == <<"/", "keyframes", "/">>
<1>2. h \in Seq(S) /\ m \in Seq(S) /\ a \in Seq(S)
  BY <1>1 DEF Words
<1>3. /\ Len(h) = 2 /\ h[1] = "renders" /\ h[2] = "/"
      /\ Len(m) = 3 /\ m[1] = "/" /\ m[2] = "keyframes" /\ m[3] = "/"
  OBVIOUS
<1> HIDE DEF h, m
<1>4. PICK e : e = h \o a
  OBVIOUS
<1>5. /\ e \in Seq(S) /\ Len(e) = Len(h) + Len(a)
      /\ \A i \in 1 .. Len(h) : e[i] = h[i]
      /\ \A i \in 1 .. Len(a) : e[Len(h) + i] = a[i]
  BY <1>2, <1>4, Concat
<1>6. e \in Seq(S)
  BY <1>5
<1>7. PICK u : u = e \o m
  OBVIOUS
<1>8. /\ u \in Seq(S) /\ Len(u) = Len(e) + Len(m)
      /\ \A i \in 1 .. Len(e) : u[i] = e[i]
      /\ \A i \in 1 .. Len(m) : u[Len(e) + i] = m[i]
  BY <1>2, <1>6, <1>7, Concat
<1>9. Under(p) = u
  BY <1>4, <1>7 DEF Under, h, m
<1>10. Len(a) \in Nat
  BY <1>2
<1>11. Len(u) = Len(a) + 5 /\ u[1] = "renders" /\ u[2] = "/"
  BY <1>3, <1>5, <1>8, <1>10
<1>12. \A i \in 1 .. Len(a) : u[i + 2] = a[i]
  BY <1>3, <1>5, <1>8, <1>10
<1>13. u[Len(a) + 3] = "/" /\ u[Len(a) + 4] = "keyframes" /\ u[Len(a) + 5] = "/"
  BY <1>3, <1>5, <1>8, <1>10
<1> QED
  BY <1>8, <1>9, <1>11, <1>12, <1>13
-----------------------------------------------------------------------------
(* A slug has neither a slash nor white space, and is ".." or not. *)
LEMMA SlugIsLike ==
    ASSUME NEW p \in Seq(STRING)
    PROVE  /\ SlugLike(Slug(p))
           /\ Clean(Slug(p)) <=> Plain(p)
           /\ DotDot(Slug(p)) <=> Slug(p) = <<".", ".">>
<1>1. PICK S : Slug(p) \in Seq(S)
  BY SlugFacts
<1>2. SlugLike(Slug(p))
  BY SlugFacts DEF SlugLike
<1>3. DOMAIN Slug(p) = 1 .. Len(Slug(p))
  BY <1>1
<1>4. Clean(Slug(p)) <=> Plain(p)
  BY <1>3 DEF Clean, Plain
<1>5. PICK a : a = Slug(p)
  OBVIOUS
<1>6. ASSUME DotDot(a) PROVE a = <<".", ".">>
  <2>1. a = <<a[1], a[2]>>
    BY <1>1, <1>5, <1>6 DEF DotDot
  <2> QED
    BY <1>6, <2>1 DEF DotDot
<1>7. a = <<".", ".">> => DotDot(a)
  BY DEF DotDot
<1> QED
  BY <1>2, <1>4, <1>5, <1>6, <1>7

(* The key of a keyframe can be named exactly by requests of its own       *)
(* project, up to _safe, and unless a name has a character that _safe      *)
(* keeps and the patterns refuse, or the project is "..".                  *)
THEOREM KeyframeNamed ==
    ASSUME NEW p \in Seq(STRING), NEW s \in Seq(STRING), NEW other \in Seq(STRING)
    PROVE  KeyMatchesProject(KeyframeKey(p, s), other) <=>
               Nameable(p) /\ Plain(s) /\ Slug(other) = Slug(p)
<1> DEFINE k == KeyframeKey(p, s)
           a == Slug(p)
           b == Slug(s)
           c == Slug(other)
           u == Under(other)
<1>1. RenderLaid(k, a, "keyframes", b, ".png")
  BY RenderIsLaid DEF KeyframeKey, Words
<1>2. /\ SlugLike(a) /\ SlugLike(b) /\ SlugLike(c)
      /\ Clean(a) <=> Plain(p)
      /\ Clean(b) <=> Plain(s)
      /\ DotDot(a) <=> a = <<".", ".">>
  BY SlugIsLike
<1>3. SafePath(k) <=> Nameable(p) /\ Plain(s)
  BY <1>1, <1>2, RenderSafe DEF Nameable
<1>4. PICK T : k \in Seq(T)
  BY <1>1 DEF RenderLaid
<1>5. /\ \E S : u \in Seq(S)
      /\ Len(u) = Len(c) + 5
      /\ u[1] = "renders" /\ u[2] = "/"
      /\ \A i \in 1 .. Len(c) : u[i + 2] = c[i]
      /\ u[Len(c) + 3] = "/" /\ u[Len(c) + 4] = "keyframes"
      /\ u[Len(c) + 5] = "/"
  BY UnderIsLaid
<1>6. (\E S : a \in Seq(S)) /\ (\E S : c \in Seq(S))
  BY SlugFacts
<1>7. /\ Len(k) = Len(a) + Len(b) + 6
      /\ k[1] = "renders" /\ k[2] = "/"
      /\ \A i \in 1 .. Len(a) : k[i + 2] = a[i]
      /\ k[Len(a) + 3] = "/" /\ k[Len(a) + 4] = "keyframes" /\ k[Len(a) + 5] = "/"
      /\ \A i \in 1 .. Len(b) : k[Len(a) + 5 + i] = b[i]
      /\ k[Len(a) + Len(b) + 6] = ".png"
  BY <1>1 DEF RenderLaid
<1>8. /\ Len(a) \in Nat \ {0} /\ Len(b) \in Nat \ {0} /\ Len(c) \in Nat \ {0}
      /\ \A i \in 1 .. Len(a) : a[i] # "/"
      /\ \A i \in 1 .. Len(b) : b[i] # "/"
      /\ \A i \in 1 .. Len(c) : c[i] # "/"
  BY <1>2 DEF SlugLike, NoSlash
<1> HIDE DEF k, a, b, c, u
<1>9. IsSafeKeyframeKey(k) <=> SafePath(k)
  <2> DEFINE root == <<"renders", "/">>
  <2>1. root \in Seq(Words) /\ Len(root) = 2 /\ root[1] = "renders" /\ root[2] = "/"
    BY DEF Words
  <2> HIDE DEF root
  <2>2. IsPrefix(root, k)
    <3>1. Len(root) <= Len(k) /\ \A i \in 1 .. Len(root) : k[i] = root[i]
      BY <1>7, <1>8, <2>1
    <3> QED
      BY <1>4, <2>1, <3>1, PrefixAt
  <2>3. Last(k) = ".png"
    BY <1>7 DEF Last
  <2> DEFINE at == Len(a) + 3
  <2>4. at \in 4 .. Len(k) - 4
    BY <1>7, <1>8
  <2>5. SubSeq(k, at, at + 2) = <<"/", "keyframes", "/">>
    <3>1. k[at] = "/" /\ k[at + 1] = "keyframes" /\ k[at + 2] = "/"
      BY <1>7, <1>8
    <3>2. at \in 1 .. Len(k) - 2
      BY <1>7, <1>8
    <3> HIDE DEF at
    <3>3. Stretch(k, at, "/", "keyframes", "/")
      BY <1>4, <3>1, <3>2, ThreeAt
    <3> QED
      BY <3>3 DEF Stretch
  <2>6. ASSUME NEW n \in at + 3 .. Len(k) PROVE k[n] # "/"
    <3>1. n = Len(a) + Len(b) + 6 \/ n - (Len(a) + 5) \in 1 .. Len(b)
      <4>1. n \in Len(a) + 6 .. Len(a) + Len(b) + 6
        BY <1>7, <1>8
      <4>2. Len(a) \in Int /\ Len(b) \in Int
        BY <1>8
      <4> QED
        BY <4>1, <4>2
    <3>2. CASE n - (Len(a) + 5) \in 1 .. Len(b)
      <4>1. n = Len(a) + 5 + (n - (Len(a) + 5))
        BY <1>8
      <4>2. k[Len(a) + 5 + (n - (Len(a) + 5))] = b[n - (Len(a) + 5)]
        BY <1>7, <3>2
      <4>3. b[n - (Len(a) + 5)] # "/"
        BY <1>8, <3>2
      <4> QED
        BY <4>1, <4>2, <4>3
    <3> QED
      BY <1>7, <3>1, <3>2
  <2> HIDE DEF at
  <2> QED
    BY <2>2, <2>3, <2>4, <2>5, <2>6 DEF IsSafeKeyframeKey, root
<1>10. IsPrefix(u, k) <=> c = a
  <2>1. IsPrefix(u, k) <=> Len(u) <= Len(k) /\ \A i \in 1 .. Len(u) : k[i] = u[i]
    <3>1. PICK S : u \in Seq(S)
      BY <1>5
    <3> QED
      BY <1>4, <3>1, PrefixAt
  <2>2. ASSUME \A i \in 1 .. Len(u) : k[i] = u[i] PROVE c = a
    <3>1. ~(Len(c) < Len(a))
      <4> SUFFICES ASSUME Len(c) < Len(a) PROVE FALSE
        OBVIOUS
      <4>1. Len(c) + 1 \in 1 .. Len(a) /\ (Len(c) + 1) + 2 = Len(c) + 3
            /\ Len(c) + 3 \in 1 .. Len(u)
        BY <1>5, <1>8
      <4>2. k[Len(c) + 3] = "/" /\ k[Len(c) + 3] = a[Len(c) + 1]
        BY <1>5, <1>7, <2>2, <4>1
      <4> QED
        BY <1>8, <4>1, <4>2
    <3>2. ~(Len(a) < Len(c))
      <4> SUFFICES ASSUME Len(a) < Len(c) PROVE FALSE
        OBVIOUS
      <4>1. Len(a) + 1 \in 1 .. Len(c) /\ (Len(a) + 1) + 2 = Len(a) + 3
            /\ Len(a) + 3 \in 1 .. Len(u)
        BY <1>5, <1>8
      <4>2. k[Len(a) + 3] = "/" /\ k[Len(a) + 3] = c[Len(a) + 1]
        BY <1>5, <1>7, <2>2, <4>1
      <4> QED
        BY <1>8, <4>1, <4>2
    <3>3. Len(a) = Len(c)
      BY <1>8, <3>1, <3>2
    <3>4. \A i \in 1 .. Len(a) : a[i] = c[i]
      <4> TAKE i \in 1 .. Len(a)
      <4>1. i + 2 \in 1 .. Len(u)
        BY <1>5, <1>8, <3>3
      <4> QED
        BY <1>5, <1>7, <2>2, <3>3, <4>1
    <3>5. PICK S, T2 : a \in Seq(S) /\ c \in Seq(T2)
      BY <1>6
    <3>6. a \in Seq(S \cup T2) /\ c \in Seq(S \cup T2)
      BY <3>5, SeqMonotonic
    <3> QED
      BY <3>3, <3>4, <3>6, SeqEqual
  <2>3. ASSUME c = a PROVE Len(u) <= Len(k) /\ \A i \in 1 .. Len(u) : k[i] = u[i]
    <3>1. Len(u) = Len(a) + 5 /\ Len(u) <= Len(k)
      BY <1>5, <1>7, <1>8, <2>3
    <3>2. ASSUME NEW i \in 1 .. Len(u) PROVE k[i] = u[i]
      <4>1. i \in {1, 2, Len(a) + 3, Len(a) + 4, Len(a) + 5} \/ i - 2 \in 1 .. Len(a)
        BY <1>8, <3>1
      <4>2. CASE i - 2 \in 1 .. Len(a)
        <5>1. PICK j \in 1 .. Len(a) : i = j + 2
          BY <4>2
        <5>2. k[j + 2] = a[j] /\ u[j + 2] = a[j]
          BY <1>5, <1>7, <2>3
        <5> QED
          BY <5>1, <5>2
      <4>3. CASE i \in {1, 2, Len(a) + 3, Len(a) + 4, Len(a) + 5}
        <5>1. u[Len(a) + 3] = "/" /\ u[Len(a) + 4] = "keyframes" /\ u[Len(a) + 5] = "/"
          BY <1>5, <2>3
        <5>2. /\ k[1] = u[1] /\ k[2] = u[2] /\ k[Len(a) + 3] = u[Len(a) + 3]
              /\ k[Len(a) + 4] = u[Len(a) + 4] /\ k[Len(a) + 5] = u[Len(a) + 5]
          BY <1>5, <1>7, <5>1
        <5> QED
          BY <4>3, <5>2
      <4> QED
        BY <4>1, <4>2, <4>3
    <3> QED
      BY <3>1, <3>2
  <2> QED
    BY <2>1, <2>2, <2>3
<1> QED
  BY <1>3, <1>9, <1>10 DEF KeyMatchesProject, k, a, c, u
-----------------------------------------------------------------------------
(* A key starts with a word if the first token is that word. *)
LEMMA StartsWith ==
    ASSUME NEW T, NEW k \in Seq(T), NEW w \in {"renders", "loras", "bundles"},
           Len(k) > 2, k[2] = "/"
    PROVE  IsPrefix(<<w, "/">>, k) <=> k[1] = w
<1> DEFINE h == <<w, "/">>
<1>1. h \in Seq({w, "/"}) /\ Len(h) = 2 /\ h[1] = w /\ h[2] = "/"
  OBVIOUS
<1> HIDE DEF h
<1>2. IsPrefix(h, k) <=> Len(h) <= Len(k) /\ \A i \in 1 .. Len(h) : k[i] = h[i]
  BY <1>1, PrefixAt
<1>3. IsPrefix(h, k) <=> k[1] = w
  BY <1>1, <1>2
<1> QED
  BY <1>3 DEF h

(* The keys under renders/ are no keys of LoRAs, and a clip is no keyframe. *)
LEMMA RenderKeyIsNone ==
    ASSUME NEW p \in Seq(STRING), NEW s \in Seq(STRING), NEW dir \in Words,
           NEW ending \in Words, NEW k,
           k = Named(<<"renders", "/">>, p, <<"/", dir, "/">>, s, <<ending>>)
    PROVE  ~IsSafeLoraKey(k) /\ (ending # ".png" => ~IsSafeKeyframeKey(k))
<1>1. RenderLaid(k, Slug(p), dir, Slug(s), ending)
  BY RenderIsLaid
<1>2. PICK T : k \in Seq(T)
  BY <1>1 DEF RenderLaid
<1>3. Len(Slug(p)) \in Nat /\ Len(Slug(s)) \in Nat
  BY SlugFacts
<1>4. Len(k) > 2 /\ k[1] = "renders" /\ k[2] = "/" /\ k[Len(k)] = ending
  <2>1. Len(k) = Len(Slug(p)) + Len(Slug(s)) + 6
    BY <1>1 DEF RenderLaid
  <2>2. k[Len(k)] = ending
    BY <1>1, <2>1 DEF RenderLaid
  <2>3. Len(k) > 2
    BY <1>3, <2>1
  <2> QED
    BY <1>1, <2>2, <2>3 DEF RenderLaid
<1>5. ~IsPrefix(<<"loras", "/">>, k)
  BY <1>2, <1>4, StartsWith
<1>6. ~IsPrefix(<<"bundles", "/">>, k)
  BY <1>2, <1>4, StartsWith
<1> QED
  BY <1>4, <1>5, <1>6 DEF IsSafeLoraKey, IsSafeKeyframeKey, Last

(* A clip can never be named as a keyframe, nor can anything under renders/ *)
(* be bound as a LoRA.                                                     *)
THEOREM ClipNeverNamed ==
    ASSUME NEW p \in Seq(STRING), NEW s \in Seq(STRING)
    PROVE  /\ ~IsSafeKeyframeKey(ClipKey(p, s)) /\ ~IsSafeLoraKey(ClipKey(p, s))
           /\ ~IsSafeLoraKey(KeyframeKey(p, s))
<1>1. ~IsSafeKeyframeKey(ClipKey(p, s)) /\ ~IsSafeLoraKey(ClipKey(p, s))
  BY RenderKeyIsNone DEF ClipKey, Words
<1>2. ~IsSafeLoraKey(KeyframeKey(p, s))
  BY RenderKeyIsNone DEF KeyframeKey, Words
<1> QED
  BY <1>1, <1>2

(* What a training stores can be bound by a preview, of any project, unless *)
(* a name has a character that _safe keeps and the pattern refuses, or is  *)
(* ".."; it can never be named as a keyframe.                              *)
THEOREM LoraBound ==
    ASSUME NEW p \in Seq(STRING), NEW s \in Seq(STRING)
    PROVE  /\ IsSafeLoraKey(LoraKey(p, s)) <=> Nameable(p) /\ Nameable(s)
           /\ ~IsSafeKeyframeKey(LoraKey(p, s))
<1>1. PICK k : k = LoraKey(p, s)
  OBVIOUS
<1>2. LoraLaid(k, Slug(p), Slug(s))
  BY <1>1, LoraIsLaid
<1>3. PICK T : k \in Seq(T)
  BY <1>2 DEF LoraLaid
<1>4. Len(Slug(p)) \in Nat /\ Len(Slug(s)) \in Nat
  BY SlugFacts
<1>5. Len(k) > 2 /\ k[1] = "loras" /\ k[2] = "/"
  BY <1>2, <1>4 DEF LoraLaid
<1>6. IsPrefix(<<"loras", "/">>, k)
  BY <1>3, <1>5, StartsWith
<1>7. ~IsPrefix(<<"renders", "/">>, k)
  BY <1>3, <1>5, StartsWith
<1>8. /\ SlugLike(Slug(p)) /\ SlugLike(Slug(s))
      /\ Clean(Slug(p)) <=> Plain(p)
      /\ Clean(Slug(s)) <=> Plain(s)
      /\ DotDot(Slug(p)) <=> Slug(p) = <<".", ".">>
      /\ DotDot(Slug(s)) <=> Slug(s) = <<".", ".">>
  BY SlugIsLike
<1>9. SafePath(k) <=> Nameable(p) /\ Nameable(s)
  BY <1>2, <1>8, LoraSafe DEF Nameable
<1> QED
  BY <1>1, <1>5, <1>6, <1>7, <1>9 DEF IsSafeLoraKey, IsSafeKeyframeKey

(* The keyframe a clip job reads, whether named or found by the template,  *)
(* is never the clip or the LoRA of anybody, and a keyframe only if its    *)
(* project and (found by the template) its shot are, up to _safe, the job's.*)
THEOREM KeyframeIsOwn ==
    ASSUME NEW q \in Request, q.action = "i2v_clip", ClipOk(q),
           NEW p \in Seq(STRING), NEW s \in Seq(STRING)
    PROVE  /\ KeyframeOf(q) = KeyframeKey(p, s) =>
                 /\ Slug(p) = Slug(q.project)
                 /\ q.key = <<>> => Slug(s) = Slug(q.shots[1])
           /\ KeyframeOf(q) # ClipKey(p, s)
           /\ KeyframeOf(q) # LoraKey(p, s)
<1>1. q.project \in Seq(STRING) /\ (q.key = <<>> => q.shots[1] \in Seq(STRING))
  <2>1. q.shots \in Seq(Seq(STRING)) /\ q.shots # <<>> /\ q.project \in Seq(STRING)
    BY DEF Request
  <2> QED
    BY <2>1
<1>2. CASE q.key # <<>>
  <2>1. KeyMatchesProject(q.key, q.project) /\ KeyframeOf(q) = q.key
    BY <1>2 DEF ClipOk, KeyframeOf
  <2>2. q.key = KeyframeKey(p, s) => Slug(p) = Slug(q.project)
    BY <1>1, <2>1, KeyframeNamed
  <2>3. q.key # ClipKey(p, s) /\ q.key # LoraKey(p, s)
    BY <2>1, ClipNeverNamed, LoraBound DEF KeyMatchesProject
  <2> QED
    BY <1>2, <2>1, <2>2, <2>3
<1>3. CASE q.key = <<>>
  <2>1. PICK t \in Seq(STRING) : t = q.shots[1]
    BY <1>1, <1>3
  <2>2. KeyframeOf(q) = KeyframeKey(q.project, t)
    BY <1>3, <2>1 DEF KeyframeOf
  <2>3. RenderLaid(KeyframeOf(q), Slug(q.project), "keyframes", Slug(t), ".png")
    BY <1>1, <2>2, RenderIsLaid DEF KeyframeKey, Words
  <2>4. ASSUME KeyframeOf(q) = KeyframeKey(p, s)
        PROVE  Slug(p) = Slug(q.project) /\ Slug(s) = Slug(t)
    <3> DEFINE root == <<"renders", "/">>
               m == <<"/", "keyframes", "/">>
    <3>1. Spelled(KeyframeOf(q), root, p, m, s, <<".png">>)
      BY <2>4 DEF Spelled, KeyframeKey, Words
    <3>2. Spelled(KeyframeOf(q), root, q.project, m, t, <<".png">>)
      BY <1>1, <2>2 DEF Spelled, KeyframeKey, Words
    <3> HIDE DEF root, m
    <3> QED
      BY <3>1, <3>2, SpelledTwice
  <2>5. KeyframeOf(q) # LoraKey(p, s)
    <3>1. KeyframeOf(q)[1] = "renders"
      BY <2>3 DEF RenderLaid
    <3>2. LoraLaid(LoraKey(p, s), Slug(p), Slug(s))
      BY LoraIsLaid
    <3>3. LoraKey(p, s)[1] = "loras"
      BY <3>2 DEF LoraLaid
    <3> QED
      BY <3>1, <3>3
  <2>6. KeyframeOf(q) # ClipKey(p, s)
    <3>1. RenderLaid(ClipKey(p, s), Slug(p), "clips", Slug(s), "_i2v.mp4")
      BY RenderIsLaid DEF ClipKey, Words
    <3>2. ClipKey(p, s)[Len(ClipKey(p, s))] = "_i2v.mp4"
      BY <3>1 DEF RenderLaid
    <3>3. KeyframeOf(q)[Len(KeyframeOf(q))] = ".png"
      BY <2>3 DEF RenderLaid
    <3> QED
      BY <3>2, <3>3
  <2> QED
    BY <1>3, <2>1, <2>4, <2>5, <2>6
<1> QED
  BY <1>2, <1>3

(* A name that _safe made is left as it is, so a caller that has a slug    *)
(* for a name reaches the same keys.                                       *)
THEOREM SlugIsFixed ==
    ASSUME NEW name \in Seq(STRING)
    PROVE  Slug(Slug(name)) = Slug(name)
<1> DEFINE x == Slug(name)
<1>1. PICK S : x \in Seq(S)
  BY SlugFacts
<1>2. Len(x) \in Nat \ {0} /\ NoSlash(x) /\ \A i \in 1 .. Len(x) : x[i] # " "
  BY SlugFacts
<1> HIDE DEF x
<1>3. DOMAIN x = 1 .. Len(x)
  BY <1>1
<1>n. Len(x) \in Nat /\ Len(x) # 0
  BY <1>2
<1>4. Kept(x) = 1 .. Len(x)
  BY <1>2, <1>3 DEF Kept
<1>5. \A n \in 1 .. Len(x) : {i \in 1 .. Len(x) : i <= n} = 1 .. n
  BY <1>n
<1>6. \A n \in 1 .. Len(x) : Cardinality({i \in 1 .. Len(x) : i <= n}) = n
  <2> TAKE n \in 1 .. Len(x)
  <2>1. n \in Nat /\ 1 <= n /\ n - 1 + 1 = n
    BY <1>n
  <2>2. Cardinality(1 .. n) = n
    BY <2>1, FS_Interval
  <2> QED
    BY <1>5, <2>2
<1>7. Cardinality(Kept(x)) = Len(x)
  <2>1. 1 <= Len(x) /\ Len(x) - 1 + 1 = Len(x)
    BY <1>n
  <2> QED
    BY <1>4, <1>n, <2>1, FS_Interval
<1> DEFINE Nth(n) == CHOOSE i \in Kept(x) : Cardinality({j \in Kept(x) : j <= i}) = n
<1>8. \A n \in 1 .. Len(x) : Nth(n) = n
  BY <1>4, <1>6
<1> HIDE DEF Nth
<1>9. Slug(x) = [n \in 1 .. Len(x) |-> IF x[Nth(n)] \in {" ", "/"} THEN "_" ELSE x[Nth(n)]]
  <2>1. Kept(x) # {}
    BY <1>4, <1>n
  <2> QED
    BY <1>7, <2>1 DEF Slug, Nth
<1>10. Slug(x) = [n \in 1 .. Len(x) |-> x[n]]
  BY <1>2, <1>8, <1>9 DEF NoSlash
<1>11. x = [n \in 1 .. Len(x) |-> x[n]]
  BY <1>1, <1>3
<1> QED
  BY <1>10, <1>11 DEF x
=============================================================================
