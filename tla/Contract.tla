------------------------------ MODULE Contract ------------------------------
(***************************************************************************)
(* The wire contract of the door: src/src/vivijure_local/core/contract.py, *)
(* and the order in which route of core/server.py applies it to a POST     *)
(* /run.  Which names share a key, and which keys a request may name, is a *)
(* question of characters, so names and keys are sequences of tokens: a    *)
(* token is one character, or a word no name contains.  Every other value  *)
(* of a request is reduced to the question asked about it.                 *)
(***************************************************************************)
EXTENDS Naturals, FiniteSets, Sequences, SequencesExt

CONSTANT MaxLoras     \* _MAX_PRETRAINED_LORAS

ASSUME ContractAssumption == MaxLoras \in Nat

(* The characters [A-Za-z0-9._-] leaves out, one of each kind _safe knows. *)
Odd == {" ", "/", "'"}

-----------------------------------------------------------------------------
(* _safe: strip, one "_" for a run of white space, "_" for "/".  What is   *)
(* kept: the solid characters, and the first white space between two.      *)
Kept(name) ==
    LET Solid(i) == name[i] # " "
    IN  {i \in DOMAIN name :
            \/ Solid(i)
            \/ i > 1 /\ Solid(i - 1) /\ \E k \in DOMAIN name : k > i /\ Solid(k)}

Slug(name) ==
    LET Nth(n) == CHOOSE i \in Kept(name) : Cardinality({k \in Kept(name) : k <= i}) = n
    IN  IF Kept(name) = {}
        THEN <<"untitled">>
        ELSE [n \in 1 .. Cardinality(Kept(name)) |->
                 IF name[Nth(n)] \in {" ", "/"} THEN "_" ELSE name[Nth(n)]]

Under(project) == <<"renders", "/">> \o Slug(project) \o <<"/", "keyframes", "/">>

(* The f-string templates all have this shape. *)
Named(root, project, middle, name, ending) ==
    root \o (Slug(project) \o (middle \o (Slug(name) \o ending)))

KeyframeKey(project, shot) ==
    Named(<<"renders", "/">>, project, <<"/", "keyframes", "/">>, shot, <<".png">>)

ClipKey(project, shot) ==
    Named(<<"renders", "/">>, project, <<"/", "clips", "/">>, shot, <<"_i2v.mp4">>)

LoraKey(project, slot) ==
    Named(<<"loras", "/">>, project, <<"/">>, slot,
          <<"/", "pytorch_lora_weights.safetensors">>)
-----------------------------------------------------------------------------
(* The key patterns.  SafePath is [A-Za-z0-9._-]+(/[A-Za-z0-9._-]+)* with  *)
(* no ".." segment.                                                        *)
SafePath(k) ==
    /\ k # <<>> /\ k[1] # "/" /\ Last(k) # "/"
    /\ \A i \in DOMAIN k : k[i] \notin Odd \ {"/"}
    /\ \A i \in 2 .. Len(k) : ~(k[i - 1] = "/" /\ k[i] = "/")
    /\ \A i \in 2 .. Len(k) : k[i - 1] = "." /\ k[i] = "." =>
          \/ i > 2 /\ k[i - 2] # "/"
          \/ i < Len(k) /\ k[i + 1] # "/"

IsSafeBundleKey(k) == SafePath(k) /\ Len(k) > 2 /\ IsPrefix(<<"bundles", "/">>, k)

IsSafeLoraKey(k) ==
    /\ SafePath(k)
    /\ \/ Len(k) > 2 /\ IsPrefix(<<"loras", "/">>, k)
       \/ /\ IsPrefix(<<"bundles", "/">>, k)
          /\ \E i \in 4 .. Len(k) - 3 : SubSeq(k, i, i + 2) = <<"/", "loras", "/">>

IsSafeKeyframeKey(k) ==
    /\ SafePath(k) /\ IsPrefix(<<"renders", "/">>, k) /\ Last(k) = ".png"
    /\ \E i \in 4 .. Len(k) - 4 :
          /\ SubSeq(k, i, i + 2) = <<"/", "keyframes", "/">>
          /\ \A n \in i + 3 .. Len(k) : k[n] # "/"

(* A broken twin, named for its slip, stands before its operator. *)
MatchesRawProject(k, project) ==
    /\ IsSafeKeyframeKey(k)
    /\ IsPrefix(<<"renders", "/">> \o project \o <<"/", "keyframes", "/">>, k)

KeyMatchesProject(k, project) == IsSafeKeyframeKey(k) /\ IsPrefix(Under(project), k)
-----------------------------------------------------------------------------
(* A request after from_input: absent names have their defaults, fields of *)
(* a wrong type are gone, process_shot_ids (or the bundle's shots, or the  *)
(* slots to train) are "shots"; the stripped, lower-case model_family is   *)
(* "sdxl" or not; "knobs" are the entries of render_overrides.keyframe, of *)
(* which only the name and whether it is a finite number are looked at.    *)
Request ==
    {q \in [action : STRING, selftest : BOOLEAN, bearer : STRING, prompt : BOOLEAN,
            project : Seq(STRING), shots : Seq(Seq(STRING)),
            key : Seq(STRING), bundle : Seq(STRING),
            loras : SUBSET [slot : Seq(STRING), key : Seq(STRING)],
            knobs : SUBSET [name : STRING, finite : BOOLEAN], sdxl : BOOLEAN] :
        q.action = "i2v_clip" => q.shots # <<>>}

SafeSlot(slot) ==
    Len(slot) \in 1 .. 64 /\ \A i \in DOMAIN slot : slot[i] \notin Odd \cup {"."}

ClipOk(q) == q.prompt /\ (q.key # <<>> => KeyMatchesProject(q.key, q.project))

(* _KEYFRAME_OVERRIDE_LIMITS; EngineKnobs clamps the values. *)
Knobs == {"width", "height", "steps", "guidance_scale", "seed"}

PreviewOk(q) ==
    /\ IsSafeBundleKey(q.bundle)
    /\ Cardinality(q.loras) <= MaxLoras
    /\ \A l \in q.loras : SafeSlot(l.slot) /\ IsSafeLoraKey(l.key)
    /\ \A n \in q.knobs : n.name \in Knobs /\ n.finite

TrainOk(q) == IsSafeBundleKey(q.bundle) /\ q.sdxl

(* token_error: an unset token refuses everybody. *)
TokenError(bearer, expected) == IF expected = "" THEN 503 ELSE IF bearer # expected THEN 401 ELSE 200

(* POST /run; the job is submitted on 200, but for the open self test. *)
Answer(q, expected) ==
    IF q.selftest THEN 200
    ELSE IF TokenError(q.bearer, expected) # 200 THEN TokenError(q.bearer, expected)
    ELSE IF \/ q.action = "i2v_clip" /\ ClipOk(q)
            \/ q.action = "preview" /\ PreviewOk(q)
            \/ q.action = "train_lora" /\ TrainOk(q)
         THEN 200 ELSE 400

Accepted(q, expected) == ~q.selftest /\ Answer(q, expected) = 200
-----------------------------------------------------------------------------
(* What a job reads and writes: build_i2v_run_fn, render_preview and       *)
(* run_train_lora apply the same templates.                                *)
KeyframeOf(q) == IF q.key # <<>> THEN q.key ELSE KeyframeKey(q.project, q.shots[1])

Written(q) ==
    CASE q.action = "preview"    -> {KeyframeKey(q.project, s) : s \in ToSet(q.shots)}
      [] q.action = "train_lora" -> {LoraKey(q.project, s) : s \in ToSet(q.shots)}
      [] OTHER                   -> {ClipKey(q.project, q.shots[1])}

(* What two jobs have in common if they write the same key.                *)
SameNames(q, p) ==
    /\ Slug(q.project) = Slug(p.project)
    /\ \E s \in ToSet(q.shots), t \in ToSet(p.shots) : Slug(s) = Slug(t)

(* The names whose keys the patterns let through: _safe keeps characters    *)
(* that the patterns refuse, and "..".                                     *)
Plain(name) == \A i \in DOMAIN Slug(name) : Slug(name)[i] \notin Odd

Nameable(name) == Plain(name) /\ Slug(name) # <<".", ".">>
=============================================================================
