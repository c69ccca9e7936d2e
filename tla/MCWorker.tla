------------------------------ MODULE MCWorker ------------------------------
(***************************************************************************)
(* One render worker: the card (RenderCard), a training job's loop         *)
(* (TrainRun) and the limits it imposes (WorkerLimits).  The three share   *)
(* no variable, so an interleaving of theirs reaches nothing that one of   *)
(* them does not reach alone: `moving' picks the one that moves, and the   *)
(* other two rest where they start.  What a card job asks is not what the  *)
(* training loop reads; RenderCard has the training's place on the card.   *)
(***************************************************************************)
EXTENDS RenderCard, TrainRun, WorkerLimits

VARIABLE moving

MCCasts == {<<>>, <<1>>, <<3>>, <<1, 2>>, <<2, 1, 1>>}

NothingAsked == [k \in TrainKnobs |-> NoNumber]

\* The limits of the three knobs the loop depends on and beyond them, and a
\* number that is not finite for another one.
MCAsked ==
    {[NothingAsked EXCEPT !.max_steps = m, !.accumulation = a, !.save_every = s] :
       m \in {NoNumber, -1, 130}, a \in {NoNumber, 0, 7, 100},
       s \in {NoNumber, 25, 40}}
    \cup {[NothingAsked EXCEPT !.seed = v] : v \in NonFinite}

\* Every whole number around the limits of the knobs.
MCNumbers ==
    (-20 .. 60) \cup (120 .. 160) \cup (250 .. 260) \cup (470 .. 530)
      \cup (710 .. 740) \cup (1340 .. 1350) \cup (1530 .. 1540)
      \cup (4990 .. 5010) \cup {NoNumber} \cup NonFinite

\* Small cards.
MCCaps == {NoNumber, -1, 0, 1, 8, 12, 16, 17}
MCTotals == {0, 12, 16}
MCFrees == {0, 7, 12, 16}

WorkerInit ==
    /\ moving \in {"card", "training", "limits"}
    /\ Init
    /\ TrainingInit /\ (moving # "training" => cast = <<>> /\ ask = NothingAsked)
    /\ LimitsInit /\ (moving # "limits" => env = NoNumber /\ total = 0)

MoveCard ==
    /\ moving = "card" /\ Next
    /\ UNCHANGED <<moving, trainVars, limitVars>>

MoveTraining ==
    /\ moving = "training" /\ TrainingNext
    /\ UNCHANGED <<moving, vars, limitVars>>

MoveLimits ==
    /\ moving = "limits" /\ LimitsNext
    /\ UNCHANGED <<moving, vars, trainVars>>

WorkerNext == MoveCard \/ MoveTraining \/ MoveLimits

WorkerSpec == WorkerInit /\ [][WorkerNext]_<<moving, vars, trainVars, limitVars>>

-----------------------------------------------------------------------------
\* The types of the three components.
WorkerTypeOK == TypeOK /\ TrainingTypeOK /\ LimitsTypeOK
=============================================================================
