----------------------------- MODULE RenderCard -----------------------------
(***************************************************************************)
(* What the render worker keeps on the graphics card between jobs.         *)
(*                                                                         *)
(* The worker process serves one job at a time (serve_loop) and keeps two  *)
(* process-wide caches: the SDXL keyframe pipeline (preview_sdxl._PIPE)    *)
(* and the image-to-video pipeline (i2v_cogvideox._PIPE_CACHE).  A job is  *)
(* an i2v clip, a keyframe preview or a LoRA training; each first drops    *)
(* what the card must not hold with it, and may fail at any call into      *)
(* torch, diffusers, the bundle or the object store.  A failure is an      *)
(* error event and the worker goes on with what its caches then hold; a    *)
(* cancel or a crash is the end of the process and of both caches.         *)
(*                                                                         *)
(* should_cancel is the constant FALSE in this process                     *)
(* (render_worker.py:85), so the cooperative cancel points never fire.     *)
(* The offload mode comes from the environment and model and tiling are    *)
(* the same in every tier (config.py:88-107), so one process only ever     *)
(* uses one key of _PIPE_CACHE.                                            *)
(***************************************************************************)
EXTENDS Naturals, FiniteSets

CONSTANTS
    Slots,     \* cast slots a character LoRA can be bound to
    Models,    \* the allowlisted SDXL bases
    Anime,     \* KEYFRAME_ANIME, which takes no character LoRA
    MaxParts,  \* bound: files one job uploads (shots, adapters, one clip)
    NoPipe,    \* _PIPE = None
    NoJob      \* the worker waits for a command

ASSUME AnimeAssumption == Anime \in Models
ASSUME PartsAssumption == MaxParts \in Nat \ {0}

VARIABLES
    sdxl,      \* _PIPE with its _PIPE_MODEL, _vj_ip_loaded and adapters
    i2v,       \* the entry of _PIPE_CACHE
    job,       \* what the current (or, once idle, the last) job asked for
    at,        \* where run_fn is
    done,      \* parts the job's loop has gone through
    stored,    \* files the job has in the store
    answer     \* the event that ended the last job

vars == <<sdxl, i2v, job, at, done, stored, answer>>
progress == <<done, stored>>

\* `ip' is whether an IP-Adapter is attached to the pipe and `marked' what
\* _vj_ip_loaded says of it; `own' are the char_<slot> adapters the current job
\* bound, `stale' those earlier jobs left on the pipe.
Pipes == [model : Models, distill : BOOLEAN, ip : BOOLEAN, marked : BOOLEAN,
          own : SUBSET Slots, stale : SUBSET Slots]

I2VPipes == {"none", "ready", "broken"}

Jobs == [kind : {"i2v", "preview", "train"}, model : Models, few : BOOLEAN,
         slots : SUBSET Slots, ref : BOOLEAN, parts : 1 .. MaxParts]

ASSUME AbsentAssumption == NoPipe \notin Pipes /\ NoJob \notin Jobs

Places == {"idle", "i2v_build", "i2v_draw", "i2v_put", "stage", "bind",
           "shots", "ip", "scale", "draw", "put", "train", "train_put"}

Init ==
    /\ sdxl = NoPipe
    /\ i2v = "none"
    /\ job = NoJob
    /\ at = "idle"
    /\ done = 0
    /\ stored = 0
    /\ answer = "none"

-----------------------------------------------------------------------------
(* Dropping what the card holds. *)

\* unload_preview: the SDXL pipe is gone.
UnloadPreview == sdxl' = NoPipe

\* A call on the pipe raised and left it as `left'; _reset_pipe_fail_closed.
ResetForgotten(left) == sdxl' = left
ResetPipe(left) == UnloadPreview

\* unload_i2v -> unload_all.
UnloadI2VKeeps == i2v' = i2v
UnloadI2V == i2v' = "none"

\* The adapters a pipe carries into the next job are nobody's.
Inherited(pipe) ==
    IF pipe = NoPipe THEN NoPipe
    ELSE [pipe EXCEPT !.own = {}, !.stale = @ \cup pipe.own]

\* run_fn raises: serve_loop emits the error and keeps serving.
FailStays ==
    /\ answer' = "error"
    /\ UNCHANGED <<job, at, progress>>

Fail ==
    /\ at' = "idle"
    /\ answer' = "error"
    /\ UNCHANGED <<job, progress>>

\* run_fn returns: serve_loop emits the result.
Succeed ==
    /\ at' = "idle"
    /\ answer' = "result"
    /\ UNCHANGED <<job, progress>>

Begin(j, place) ==
    /\ at = "idle"
    /\ job' = j
    /\ at' = place
    /\ done' = 0
    /\ stored' = 0
    /\ answer' = "none"

\* An upload that raises fails the job.
PutRaisesIgnored(next) ==
    at' = next /\ done' = done + 1 /\ UNCHANGED <<job, stored, answer>>
PutRaises(next) == Fail

PutWorks(next) ==
    /\ at' = next
    /\ done' = done + 1
    /\ stored' = stored + 1
    /\ UNCHANGED <<job, answer>>

Put(next) == PutWorks(next) \/ PutRaises(next)

-----------------------------------------------------------------------------
(* action i2v_clip *)

StartI2V ==
    \E j \in Jobs :
        /\ j.kind = "i2v" /\ j.parts = 1
        /\ Begin(j, "i2v_build")
        /\ UnloadPreview
        /\ UNCHANGED i2v

\* Validation, the keyframe fetch, the image load or from_pretrained raised.
I2VPrepareFails ==
    /\ at = "i2v_build"
    /\ Fail
    /\ UNCHANGED <<sdxl, i2v>>

\* _get_pipe: reuse the warm pipeline or build it.
I2VGetPipe ==
    /\ at = "i2v_build"
    /\ i2v' = IF i2v = "none" THEN "ready" ELSE i2v
    /\ at' = "i2v_draw"
    /\ UNCHANGED <<sdxl, job, progress, answer>>

I2VDraw ==
    /\ at = "i2v_draw"
    /\ at' = "i2v_put"
    /\ UNCHANGED <<sdxl, i2v, job, progress, answer>>

\* A generate that raises leaves a pipeline nobody should use; _evict_pipe
\* drops it.
EvictNothing == "broken"
EvictPipe == "none"

I2VDrawFails ==
    /\ at = "i2v_draw"
    /\ i2v' = EvictPipe
    /\ Fail
    /\ UNCHANGED sdxl

\* put_file of the clip; export_to_video before it fails the same way.
I2VUpload ==
    /\ at = "i2v_put" /\ done < job.parts
    /\ Put("i2v_put")
    /\ UNCHANGED <<sdxl, i2v>>

I2VReturn ==
    /\ at = "i2v_put" /\ done = job.parts
    /\ Succeed
    /\ UNCHANGED <<sdxl, i2v>>

-----------------------------------------------------------------------------
(* action preview *)

\* The LoRAs render_preview stages: none for the anime base.
Staged == IF job.model = Anime THEN {} ELSE job.slots

\* The door has validated the same request before it queued it, so validate
\* refuses nothing here.
StartPreview ==
    \E j \in Jobs :
        /\ j.kind = "preview" /\ ~j.ref
        /\ Begin(j, "stage")
        /\ UnloadI2V
        /\ sdxl' = Inherited(sdxl)

\* The bundle, the shot plan, the overrides or the LoRA files are not usable.
StageFails ==
    /\ at = "stage"
    /\ Fail
    /\ UNCHANGED <<sdxl, i2v>>

\* _get_pipe returns the cached pipe when it is of this job's model.
AnyPipeFits(pipe) == pipe # NoPipe
PipeFits(pipe) == pipe # NoPipe /\ pipe.model = job.model

GetPipeCached ==
    /\ at = "stage"
    /\ PipeFits(sdxl)
    /\ at' = "bind"
    /\ UNCHANGED <<sdxl, i2v, job, progress, answer>>

\* A new pipe; a distill LoRA that does not load is only logged.
GetPipeBuilt ==
    /\ at = "stage"
    /\ ~PipeFits(sdxl)
    /\ \E distilled \in BOOLEAN :
        /\ distilled => job.few
        /\ sdxl' = [model |-> job.model, distill |-> distilled, ip |-> FALSE,
                    marked |-> FALSE, own |-> {}, stale |-> {}]
    /\ at' = "bind"
    /\ UNCHANGED <<i2v, job, progress, answer>>

\* from_pretrained raised, after a pipe of another model was unloaded.
GetPipeFails ==
    /\ at = "stage"
    /\ ~PipeFits(sdxl)
    /\ UnloadPreview
    /\ Fail
    /\ UNCHANGED i2v

\* _bind_pretrained_loras; diffusers refuses an adapter name already in use.
BindLoras ==
    /\ at = "bind"
    /\ Staged \cap sdxl.stale = {}
    /\ sdxl' = [sdxl EXCEPT !.own = Staged]
    /\ at' = "shots"
    /\ UNCHANGED <<i2v, job, progress, answer>>

\* A load or set_adapters raised, perhaps after some adapters were loaded.
BindFails ==
    /\ at = "bind"
    /\ Staged # {}
    /\ \E half \in SUBSET Staged : ResetPipe([sdxl EXCEPT !.own = half])
    /\ Fail
    /\ UNCHANGED i2v

\* A shot with a start image is copied through; opening it may fail.
CopyShot ==
    /\ at = "shots" /\ done < job.parts
    /\ Put("shots")
    /\ UNCHANGED <<sdxl, i2v>>

\* The shot's reference image, if it has one that opens.
PrepareShot ==
    /\ at = "shots" /\ done < job.parts
    /\ \E ref \in BOOLEAN : job' = [job EXCEPT !.ref = ref]
    /\ at' = "ip"
    /\ UNCHANGED <<sdxl, i2v, progress, answer>>

\* _ensure_ip_adapter looks at its own mark on the pipe: as wanted, it returns.
IpFits ==
    /\ at = "ip"
    /\ sdxl.marked = job.ref
    /\ at' = "draw"
    /\ UNCHANGED <<sdxl, i2v, job, progress, answer>>

IpUnloads ==
    /\ at = "ip"
    /\ sdxl.marked /\ ~job.ref
    /\ sdxl' = [sdxl EXCEPT !.ip = FALSE, !.marked = FALSE]
    /\ at' = "draw"
    /\ UNCHANGED <<i2v, job, progress, answer>>

IpLoads ==
    /\ at = "ip"
    /\ ~sdxl.marked /\ job.ref
    /\ sdxl' = [sdxl EXCEPT !.ip = TRUE]
    /\ at' = "scale"
    /\ UNCHANGED <<i2v, job, progress, answer>>

\* set_ip_adapter_scale, and only then the mark.
IpScaled ==
    /\ at = "scale"
    /\ sdxl' = [sdxl EXCEPT !.marked = TRUE]
    /\ at' = "draw"
    /\ UNCHANGED <<i2v, job, progress, answer>>

\* The unload, the load or the scale raised, with the adapter on or off.
IpFails ==
    /\ \/ at = "ip" /\ sdxl.marked # job.ref
       \/ at = "scale"
    /\ \E attached \in BOOLEAN : ResetPipe([sdxl EXCEPT !.ip = attached])
    /\ Fail
    /\ UNCHANGED i2v

\* ip_adapter_image is among the arguments of the draw.
ImageGiven == job.ref /\ sdxl.marked

DrawShot ==
    /\ at = "draw"
    /\ at' = "put"
    /\ UNCHANGED <<sdxl, i2v, job, progress, answer>>

\* The pipe raised; nothing is reset and nothing is unbound.
DrawShotFails ==
    /\ at = "draw"
    /\ Fail
    /\ UNCHANGED <<sdxl, i2v>>

UploadShot ==
    /\ at = "put"
    /\ Put("shots")
    /\ UNCHANGED <<sdxl, i2v>>

\* delete_adapters, whose failure (perhaps after some deletions) is swallowed.
PreviewReturn ==
    /\ at = "shots" /\ done = job.parts
    /\ \E undeleted \in SUBSET sdxl.own :
        sdxl' = [sdxl EXCEPT !.own = undeleted]
    /\ Succeed
    /\ UNCHANGED i2v

-----------------------------------------------------------------------------
(* action train_lora *)

StartTrain ==
    \E j \in Jobs :
        /\ j.kind = "train"
        /\ Begin(j, "train")
        /\ UnloadPreview
        /\ UnloadI2V

\* The bundle is not usable, or train_slot raised.
TrainFails ==
    /\ at = "train" /\ done < job.parts
    /\ Fail
    /\ UNCHANGED <<sdxl, i2v>>

TrainSlot ==
    /\ at = "train" /\ done < job.parts
    /\ at' = "train_put"
    /\ UNCHANGED <<sdxl, i2v, job, progress, answer>>

TrainUpload ==
    /\ at = "train_put"
    /\ Put("train")
    /\ UNCHANGED <<sdxl, i2v>>

TrainReturn ==
    /\ at = "train" /\ done = job.parts
    /\ Succeed
    /\ UNCHANGED <<sdxl, i2v>>

-----------------------------------------------------------------------------
\* The process is killed (a cancel, a shutdown) or crashes, and a later job
\* finds a fresh one.
ProcessReplaced ==
    /\ sdxl' = NoPipe
    /\ i2v' = "none"
    /\ job' = NoJob
    /\ at' = "idle"
    /\ done' = 0
    /\ stored' = 0
    /\ answer' = "none"

I2VNext == \/ StartI2V \/ I2VPrepareFails \/ I2VGetPipe \/ I2VDraw
           \/ I2VDrawFails \/ I2VUpload \/ I2VReturn

PreviewNext == \/ StartPreview \/ StageFails \/ GetPipeCached \/ GetPipeBuilt
               \/ GetPipeFails \/ BindLoras \/ BindFails \/ CopyShot
               \/ PrepareShot \/ IpFits \/ IpUnloads \/ IpLoads \/ IpScaled
               \/ IpFails \/ DrawShot \/ DrawShotFails \/ UploadShot
               \/ PreviewReturn

TrainNext == \/ StartTrain \/ TrainFails \/ TrainSlot \/ TrainUpload
             \/ TrainReturn

Next == I2VNext \/ PreviewNext \/ TrainNext \/ ProcessReplaced

Spec == Init /\ [][Next]_vars

-----------------------------------------------------------------------------
(* Properties *)

\* Every variable keeps its type, and a job that draws has a pipe to draw with.
TypeOK ==
    /\ sdxl \in Pipes \cup {NoPipe}
    /\ i2v \in I2VPipes
    /\ job \in Jobs \cup {NoJob}
    /\ at \in Places
    /\ done \in 0 .. MaxParts
    /\ stored \in 0 .. MaxParts
    /\ answer \in {"none", "result", "error"}
    /\ at # "idle" => job # NoJob
    /\ answer # "none" => job # NoJob
    /\ at \in {"bind", "shots", "ip", "scale", "draw", "put"} => sdxl # NoPipe

\* preview_sdxl.py:13-14, train_lora_job.py:19: one consumer card hosts the
\* stages one after the other.  After any sequence of jobs and failures the
\* SDXL and the CogVideoX pipelines are never resident together, and training
\* runs with neither.
OneOwner ==
    /\ sdxl = NoPipe \/ i2v = "none"
    /\ at \in {"train", "train_put"} => sdxl = NoPipe /\ i2v = "none"

\* A keyframe is drawn by the base model its job asked for, with every
\* character adapter the job requested as loaded by this job (never one of the
\* same name that an earlier job left), and the anime base never carries a
\* character adapter, whatever earlier jobs on the cached pipe did or failed at.
DrawsWithItsOwn ==
    at = "draw" =>
        /\ sdxl.model = job.model
        /\ Staged = sdxl.own
        /\ sdxl.model = Anime => sdxl.stale = {}
        /\ sdxl.own \cap sdxl.stale = {}

\* diffusers raises when a pipe with an IP-Adapter gets no image, and the other
\* way round (preview_sdxl.py:181-183).  At every draw the cached pipe has an
\* IP-Adapter attached exactly when it is given an image, and it is given one
\* exactly when the shot has one, although _ensure_ip_adapter only looks at its
\* own mark, the pipe outlives the job, and an unload, a load or a scale of this
\* or an earlier job may have raised half way.
ReferenceMatches ==
    at = "draw" => /\ sdxl.ip <=> ImageGiven
                   /\ ImageGiven <=> job.ref

\* i2v_cogvideox.py:169: a pipeline whose generate failed never carries into
\* the next job.
NeverPoisoned == at \in {"i2v_draw", "i2v_put"} => i2v = "ready"

\* A result event means every file the job was to produce is in the store:
\* one step of several failing is never reported as a success.
ResultIsStored == answer = "result" => stored = job.parts

\* preview_sdxl.py:439 "drop character adapters so the next job starts clean":
\* no keyframe is drawn with a character adapter another job bound.  The code
\* drops them only on the way to a result.
NextJobStartsClean == at = "draw" => sdxl.stale = {}

\* preview_sdxl.py:6 "RealVisXL + Hyper-SD few-step path (draft/standard);
\* fuller steps on final": a final-tier keyframe is not drawn with the
\* few-step distill LoRA.  _get_pipe compares only the model.
FinalIsFullStep == at = "draw" /\ ~job.few => ~sdxl.distill
=============================================================================
