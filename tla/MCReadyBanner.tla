--------------------------- MODULE MCReadyBanner ----------------------------
(***************************************************************************)
(* ReadyBanner with the .env files that make a difference: a blank and a   *)
(* chosen token, a named tunnel, and one reason to refuse of each guard.   *)
(***************************************************************************)
EXTENDS ReadyBanner, TLC

CONSTANT secret

MCChosen == {secret}

Blank == [token |-> NoToken, r2 |-> TRUE, offload |-> "", named |-> FALSE]

MCEnvs ==
    {Blank,
     [Blank EXCEPT !.token = secret, !.offload = "none"],
     [Blank EXCEPT !.token = secret, !.named = TRUE],
     [Blank EXCEPT !.r2 = FALSE],
     [Blank EXCEPT !.offload = "other"]}
=============================================================================
