------------------------------- MODULE MCDoor -------------------------------
(***************************************************************************)
(* Door with a handful of requests: names that _safe makes equal ("a b"    *)
(* and "a/b"), one with a character the key pattern refuses in a project   *)
(* called "..", a keyframe found by the template, one named, one that no   *)
(* preview ever drew, and one request for every reason to refuse.  One     *)
(* preview comes with a command line longer than a pipe.                   *)
(***************************************************************************)
EXTENDS Door, TLC

Token == "right"

Blank == [action |-> "i2v_clip", selftest |-> FALSE, bearer |-> Token, prompt |-> TRUE,
          project |-> <<"a", " ", "b">>, shots |-> <<<<"s">>>>, key |-> <<>>,
          bundle |-> <<"bundles", "/", "x">>, loras |-> {}, knobs |-> {},
          sdxl |-> TRUE]

Preview == [Blank EXCEPT !.action = "preview"]
Clip    == Blank

MCLong == {Preview}

MCRequests ==
    {Preview,
     [Preview EXCEPT !.project = <<".", ".">>, !.shots = <<<<"s">>, <<"'">>>>],
     Clip,
     [Clip EXCEPT !.project = <<" ", "a", "/", "b">>,
                  !.key = KeyframeKey(Blank.project, <<"s">>)],
     [Blank EXCEPT !.action = "train_lora", !.shots = <<<<"s">>, <<"'">>>>]}
    \cup
    {[Clip EXCEPT !.project = <<"'">>, !.key = KeyframeKey(<<"'">>, <<"s">>)],
     [Clip EXCEPT !.key = KeyframeKey(<<"c">>, <<"s">>)],
     [Clip EXCEPT !.prompt = FALSE],
     [Clip EXCEPT !.bearer = "wrong"],
     [Clip EXCEPT !.selftest = TRUE],
     [Clip EXCEPT !.action = "other"],
     [Preview EXCEPT !.bundle = <<"bundles", "/", ".", ".">>],
     [Preview EXCEPT !.loras = {[slot |-> <<".">>, key |-> <<"loras", "/", "x">>]}],
     [Preview EXCEPT !.knobs = {[name |-> "sampler", finite |-> TRUE]}],
     [Blank EXCEPT !.action = "train_lora", !.sdxl = FALSE]}
=============================================================================
