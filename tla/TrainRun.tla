------------------------------ MODULE TrainRun ------------------------------
(***************************************************************************)
(* One train_lora job (train_lora_job.run_train_lora and                   *)
(* lora_train.train_slot): for each cast slot an adapter is fitted in      *)
(* effective_steps iterations.  An iteration adds one loss to the          *)
(* gradients; the optimizer is stepped and the gradients are cleared every *)
(* gradient_accumulation_steps iterations, an intermediate checkpoint is   *)
(* saved every save_every, and progress is reported at the first and every *)
(* fiftieth.  The conversion of a knob can raise, and so can every step;   *)
(* the exceptions of the progress callback alone are swallowed.            *)
(***************************************************************************)
EXTENDS WorkerInputs

VARIABLES
    cast,       \* references of each slot of the bundle
    ask,        \* what the caller put under render_overrides.lora
    trainAt,    \* where the job is
    slot,       \* index of the slot in training
    step,       \* iterations of the loop that ended
    pending,    \* losses added to the gradients since they were cleared
    whole,      \* every update so far used exactly `accumulation` losses
    updates,    \* optimizer steps of this slot
    checkpoints,\* steps at which this slot saved an intermediate adapter
    uploaded,   \* for each uploaded adapter, the optimizer steps it had
    bar         \* the last on_progress of the job, out of 1000

trainVars == <<cast, ask, trainAt, slot, step, pending, whole, updates,
               checkpoints, uploaded, bar>>

Accumulation == TrainKnob(ask.accumulation, "accumulation")
SaveEvery == TrainKnob(ask.save_every, "save_every")
MaxSteps == TrainKnob(ask.max_steps, "max_steps")
Steps == EffectiveSteps(MaxSteps, cast[slot])

TrainingInit ==
    /\ cast \in Casts
    /\ ask \in Asked
    /\ trainAt = "config" /\ slot = 1
    /\ step = 0 /\ pending = 0 /\ whole = TRUE /\ updates = 0
    /\ checkpoints = {} /\ uploaded = <<>> /\ bar = 0

\* A bundle without references is refused, and config_from_overrides raises on
\* a number that is not finite, for whichever knob it was sent.
Configure ==
    /\ trainAt = "config"
    /\ trainAt' = IF \/ cast = <<>>
                     \/ \E k \in TrainKnobs : TrainKnob(ask[k], k) = Raised
                  THEN "failed" ELSE "slot"
    /\ UNCHANGED <<cast, ask, slot, step, pending, whole, updates, checkpoints,
                   uploaded, bar>>

\* train_slot up to its loop: a UNet, an adapter and an optimizer of its own.
StartSlot ==
    /\ trainAt = "slot"
    /\ trainAt' = "loop"
    /\ step' = 0 /\ pending' = 0 /\ updates' = 0 /\ checkpoints' = {}
    /\ UNCHANGED <<cast, ask, slot, whole, uploaded, bar>>

\* The second half of an iteration, without zero_grad.
UpdateKeepsGradients ==
    IF (step + 1) % Accumulation = 0
      THEN /\ updates' = updates + 1
           /\ whole' = (whole /\ pending + 1 = Accumulation)
           /\ pending' = pending + 1
      ELSE pending' = pending + 1 /\ UNCHANGED <<updates, whole>>

Update ==
    IF (step + 1) % Accumulation = 0
      THEN /\ updates' = updates + 1
           /\ whole' = (whole /\ pending + 1 = Accumulation)
           /\ pending' = 0
      ELSE pending' = pending + 1 /\ UNCHANGED <<updates, whole>>

\* A checkpoint beside the final adapter as well.
CheckpointAtEnd ==
    checkpoints' =
      IF SaveEvery # 0 /\ (step + 1) % SaveEvery = 0
        THEN checkpoints \cup {step + 1} ELSE checkpoints

Checkpoint ==
    checkpoints' =
      IF SaveEvery # 0 /\ (step + 1) % SaveEvery = 0 /\ step + 1 < Steps
        THEN checkpoints \cup {step + 1} ELSE checkpoints

\* The bar of the slot alone.
OverallOfSlot(done) == (done * 1000) \div Steps

\* int(((i + step / total) / slots) * 1000), i counted from zero; the floating
\* point value may be one less where the quotient is exact.
Overall(done) == (((slot - 1) * Steps + done) * 1000) \div (Len(cast) * Steps)

Report ==
    bar' = IF (step + 1) % 50 = 0 \/ step = 0
           THEN Overall(step + 1) ELSE bar

Iterate ==
    /\ trainAt = "loop" /\ step < Steps
    /\ Update /\ Checkpoint /\ Report
    /\ step' = step + 1
    /\ UNCHANGED <<cast, ask, trainAt, slot, uploaded>>

\* range() is exhausted: the final adapter is saved and the slot returns.
Save ==
    /\ trainAt = "loop" /\ step = Steps
    /\ trainAt' = "upload"
    /\ UNCHANGED <<cast, ask, slot, step, pending, whole, updates, checkpoints,
                   uploaded, bar>>

\* put_file, the bar at the end of the slot, and the next slot if any.
Upload ==
    /\ trainAt = "upload"
    /\ uploaded' = Append(uploaded, updates)
    /\ bar' = (slot * 1000) \div Len(cast)
    /\ IF slot < Len(cast)
         THEN slot' = slot + 1 /\ trainAt' = "slot"
         ELSE trainAt' = "done" /\ UNCHANGED slot
    /\ UNCHANGED <<cast, ask, step, pending, whole, updates, checkpoints>>

\* A load, a reference image, an iteration, a save or an upload raises.
TrainingFails ==
    /\ trainAt \in {"slot", "loop", "upload"}
    /\ trainAt' = "failed"
    /\ UNCHANGED <<cast, ask, slot, step, pending, whole, updates, checkpoints,
                   uploaded, bar>>

TrainingNext == Configure \/ StartSlot \/ Iterate \/ Save \/ Upload \/ TrainingFails

TrainingSpec == TrainingInit /\ [][TrainingNext]_trainVars

-----------------------------------------------------------------------------
(* Properties.                                                             *)

\* Every variable has its type; a checkpoint lies before the final adapter.
TrainingTypeOK ==
    /\ cast \in Casts /\ ask \in Asked
    /\ trainAt \in {"config", "slot", "loop", "upload", "done", "failed"}
    /\ slot \in 1 .. Larger(1, Len(cast))
    /\ {step, pending, updates} \subseteq Nat
    /\ trainAt \in {"loop", "upload"} => /\ step <= Steps
                                   /\ checkpoints \subseteq 1 .. (Steps - 1)
    /\ whole \in BOOLEAN
    /\ uploaded \in Seq(Nat) /\ Len(uploaded) <= Len(cast)
    /\ bar \in 0 .. 1000

\* No adapter is uploaded that the optimizer never touched, however few steps
\* and however long an accumulation the caller asks for: the floor on the
\* steps (lora_train.py:201) is above the ceiling on the accumulation.
AdapterWasTrained ==
    /\ trainAt = "upload" => updates > 0
    /\ \A i \in 1 .. Len(uploaded) : uploaded[i] > 0

\* Every optimizer step uses the gradients of exactly `accumulation`
\* iterations of its own slot, and every iteration is in one update or is
\* still pending (lora_train.py:234).
UpdatesAreWhole ==
    /\ whole
    /\ trainAt \in {"loop", "upload"} =>
         /\ pending < Accumulation
         /\ updates * Accumulation + pending = step

\* The bar run_train_lora hands to on_progress never goes back, over the slots
\* as within one, and a job that ends well leaves it full (train_lora_job.py:66).
\* The worker writes it on its event stream; /status does not carry it.
BarGoesForward ==
    [][bar' >= bar /\ (trainAt' = "done" => bar' = 1000)]_trainVars
=============================================================================
