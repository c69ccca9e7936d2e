-------------------------- MODULE RenderCardProofs --------------------------
(***************************************************************************)
(* What the worker's card guarantees for every set of cast slots and of    *)
(* base models, every number of files of a job and every sequence of jobs, *)
(* failures and replaced processes.                                        *)
(***************************************************************************)
EXTENDS RenderCard, TLAPS

-----------------------------------------------------------------------------
(* The inductive invariant. *)

\* Which of the two caches the current job has emptied, place by place.
CardSplit ==
    /\ sdxl = NoPipe \/ i2v = "none"
    /\ at \in {"i2v_build", "i2v_draw", "i2v_put"} => sdxl = NoPipe
    /\ at \in {"stage", "bind", "shots", "ip", "scale", "draw", "put"} => i2v = "none"
    /\ at \in {"train", "train_put"} => sdxl = NoPipe /\ i2v = "none"

\* The cached i2v pipeline is never one whose generate failed.
I2VSound ==
    /\ i2v # "broken"
    /\ at \in {"i2v_draw", "i2v_put"} => i2v = "ready"

\* Which adapters are on the pipe, from staging to the last shot.
AdaptersKnown ==
    /\ at = "stage" => sdxl = NoPipe \/ sdxl.own = {}
    /\ at = "bind" => sdxl.model = job.model /\ sdxl.own = {}
    /\ at \in {"shots", "ip", "scale", "draw", "put"} =>
          /\ sdxl.model = job.model
          /\ sdxl.own = Staged
          /\ sdxl.own \cap sdxl.stale = {}
    /\ sdxl # NoPipe /\ sdxl.model = Anime => sdxl.own = {} /\ sdxl.stale = {}

\* _vj_ip_loaded says whether an IP-Adapter is attached, except between the
\* load and its mark; a draw finds the mark its shot wants.
MarkIsTrue ==
    /\ sdxl # NoPipe /\ at # "scale" => sdxl.ip = sdxl.marked
    /\ at = "scale" => sdxl.ip /\ ~sdxl.marked /\ job.ref
    /\ at = "draw" => sdxl.marked = job.ref

\* How far the loop over the job's parts is, and what is then in the store.
PartsCounted ==
    /\ at # "idle" => answer = "none" /\ stored = done /\ done <= job.parts
    /\ at \in {"ip", "scale", "draw", "put", "train_put"} => done < job.parts
    /\ answer = "result" => stored = job.parts

Inv ==
    /\ TypeOK
    /\ CardSplit
    /\ I2VSound
    /\ AdaptersKnown
    /\ MarkIsTrue
    /\ PartsCounted

-----------------------------------------------------------------------------
(* What the steps share. *)

LEMMA Counting ==
    ASSUME TypeOK, at # "idle"
    PROVE  /\ job \in Jobs /\ job.parts \in 1 .. MaxParts
           /\ done \in Nat /\ stored \in Nat /\ MaxParts \in Nat
           /\ Staged \subseteq Slots
  BY PartsAssumption DEF TypeOK, Jobs, Staged

LEMMA PipeThere ==
    ASSUME TypeOK, at \in {"bind", "shots", "ip", "scale", "draw", "put"}
    PROVE  /\ sdxl \in Pipes /\ sdxl # NoPipe
           /\ job \in Jobs
  BY DEF TypeOK

\* A failed job changes neither cache, or empties the SDXL one.
LEMMA FailKeepsInv ==
    ASSUME Inv, at # "idle", Fail, i2v' = i2v,
           (sdxl' = sdxl /\ at # "scale") \/ sdxl' = NoPipe
    PROVE  Inv'
<1>1. TypeOK'
  BY DEF Inv, TypeOK, Fail, progress, Places, I2VPipes
<1>2. CardSplit' /\ I2VSound'
  BY DEF Inv, CardSplit, I2VSound, Fail
<1>3. AdaptersKnown'
  BY DEF Inv, AdaptersKnown, Fail
<1>4. MarkIsTrue' /\ PartsCounted'
  BY DEF Inv, MarkIsTrue, PartsCounted, Fail
<1> QED BY <1>1, <1>2, <1>3, <1>4 DEF Inv

\* A job that returns after its last part reports what it stored.
LEMMA SucceedKeepsInv ==
    ASSUME Inv, at \notin {"idle", "scale"}, done = job.parts, Succeed,
           UNCHANGED <<sdxl, i2v>>
    PROVE  Inv'
<1>1. TypeOK'
  BY DEF Inv, TypeOK, Succeed, progress, Places
<1>2. CardSplit' /\ I2VSound' /\ AdaptersKnown' /\ MarkIsTrue'
  BY DEF Inv, CardSplit, I2VSound, AdaptersKnown, MarkIsTrue, Succeed
<1>3. PartsCounted'
  BY DEF Inv, PartsCounted, Succeed, progress
<1> QED BY <1>1, <1>2, <1>3 DEF Inv

-----------------------------------------------------------------------------
(* One lemma per kind of job. *)

LEMMA I2VStep ==
    ASSUME Inv, I2VNext
    PROVE  Inv'
<1>. USE DEF progress
<1>1. CASE StartI2V
  <2>1. PICK j \in Jobs : Begin(j, "i2v_build") /\ UnloadPreview /\ i2v' = i2v
    BY <1>1 DEF StartI2V
  <2>2. TypeOK'
    BY <2>1, AbsentAssumption, PartsAssumption
       DEF Inv, TypeOK, Begin, UnloadPreview, Places
  <2>3. CardSplit' /\ I2VSound' /\ AdaptersKnown' /\ MarkIsTrue'
    BY <2>1 DEF Inv, CardSplit, I2VSound, AdaptersKnown, MarkIsTrue,
                Begin, UnloadPreview
  <2>4. PartsCounted'
    BY <2>1, PartsAssumption DEF PartsCounted, Begin, Jobs
  <2> QED BY <2>2, <2>3, <2>4 DEF Inv
<1>2. CASE I2VPrepareFails
  BY <1>2, FailKeepsInv DEF I2VPrepareFails
<1>3. CASE I2VGetPipe
  <2>1. TypeOK'
    BY <1>3 DEF Inv, TypeOK, I2VGetPipe, Places, I2VPipes
  <2>2. CardSplit' /\ I2VSound' /\ AdaptersKnown' /\ MarkIsTrue'
    BY <1>3 DEF Inv, TypeOK, I2VPipes, CardSplit, I2VSound, AdaptersKnown,
                MarkIsTrue, I2VGetPipe
  <2>3. PartsCounted'
    BY <1>3 DEF Inv, PartsCounted, I2VGetPipe
  <2> QED BY <2>1, <2>2, <2>3 DEF Inv
<1>4. CASE I2VDraw
  <2>1. TypeOK'
    BY <1>4 DEF Inv, TypeOK, I2VDraw, Places
  <2>2. CardSplit' /\ I2VSound' /\ AdaptersKnown' /\ MarkIsTrue'
    BY <1>4 DEF Inv, CardSplit, I2VSound, AdaptersKnown, MarkIsTrue, I2VDraw
  <2>3. PartsCounted'
    BY <1>4 DEF Inv, PartsCounted, I2VDraw
  <2> QED BY <2>1, <2>2, <2>3 DEF Inv
<1>5. CASE I2VDrawFails
  <2>1. TypeOK'
    BY <1>5 DEF Inv, TypeOK, I2VDrawFails, EvictPipe, Fail, Places, I2VPipes
  <2>2. CardSplit' /\ I2VSound' /\ AdaptersKnown' /\ MarkIsTrue'
    BY <1>5 DEF Inv, CardSplit, I2VSound, AdaptersKnown, MarkIsTrue,
                I2VDrawFails, EvictPipe, Fail
  <2>3. PartsCounted'
    BY <1>5 DEF PartsCounted, I2VDrawFails, Fail
  <2> QED BY <2>1, <2>2, <2>3 DEF Inv
<1>6. CASE I2VUpload
  <2>1. CASE PutWorks("i2v_put")
    <3>1. TypeOK'
      BY <1>6, <2>1, Counting DEF Inv, TypeOK, I2VUpload, PutWorks, PartsCounted
    <3>2. CardSplit' /\ I2VSound' /\ AdaptersKnown' /\ MarkIsTrue'
      BY <1>6, <2>1 DEF Inv, CardSplit, I2VSound, AdaptersKnown,
                        MarkIsTrue, I2VUpload, PutWorks
    <3>3. PartsCounted'
      BY <1>6, <2>1, Counting DEF Inv, PartsCounted, I2VUpload, PutWorks
    <3> QED BY <3>1, <3>2, <3>3 DEF Inv
  <2>2. CASE PutRaises("i2v_put")
    BY <1>6, <2>2, FailKeepsInv DEF I2VUpload, PutRaises
  <2> QED BY <1>6, <2>1, <2>2 DEF I2VUpload, Put
<1>7. CASE I2VReturn
  BY <1>7, SucceedKeepsInv DEF I2VReturn
<1> QED BY <1>1, <1>2, <1>3, <1>4, <1>5, <1>6, <1>7 DEF I2VNext

LEMMA TrainStep ==
    ASSUME Inv, TrainNext
    PROVE  Inv'
<1>. USE DEF progress
<1>1. CASE StartTrain
  <2>1. PICK j \in Jobs : Begin(j, "train") /\ UnloadPreview /\ UnloadI2V
    BY <1>1 DEF StartTrain
  <2>2. TypeOK'
    BY <2>1, AbsentAssumption, PartsAssumption
       DEF Inv, TypeOK, Begin, UnloadPreview, UnloadI2V, Places, I2VPipes
  <2>3. CardSplit' /\ I2VSound' /\ AdaptersKnown' /\ MarkIsTrue'
    BY <2>1 DEF CardSplit, I2VSound, AdaptersKnown, MarkIsTrue,
                Begin, UnloadPreview, UnloadI2V
  <2>4. PartsCounted'
    BY <2>1, PartsAssumption DEF PartsCounted, Begin, Jobs
  <2> QED BY <2>2, <2>3, <2>4 DEF Inv
<1>2. CASE TrainFails
  BY <1>2, FailKeepsInv DEF TrainFails
<1>3. CASE TrainSlot
  <2>1. TypeOK'
    BY <1>3 DEF Inv, TypeOK, TrainSlot, Places
  <2>2. CardSplit' /\ I2VSound' /\ AdaptersKnown' /\ MarkIsTrue'
    BY <1>3 DEF Inv, CardSplit, I2VSound, AdaptersKnown, MarkIsTrue, TrainSlot
  <2>3. PartsCounted'
    BY <1>3 DEF Inv, PartsCounted, TrainSlot
  <2> QED BY <2>1, <2>2, <2>3 DEF Inv
<1>4. CASE TrainUpload
  <2>1. CASE PutWorks("train")
    <3>1. TypeOK'
      BY <1>4, <2>1, Counting
         DEF Inv, TypeOK, TrainUpload, PutWorks, PartsCounted, Places
    <3>2. CardSplit' /\ I2VSound' /\ AdaptersKnown' /\ MarkIsTrue'
      BY <1>4, <2>1 DEF Inv, CardSplit, I2VSound, AdaptersKnown,
                        MarkIsTrue, TrainUpload, PutWorks
    <3>3. PartsCounted'
      BY <1>4, <2>1, Counting DEF Inv, PartsCounted, TrainUpload, PutWorks
    <3> QED BY <3>1, <3>2, <3>3 DEF Inv
  <2>2. CASE PutRaises("train")
    BY <1>4, <2>2, FailKeepsInv DEF TrainUpload, PutRaises
  <2> QED BY <1>4, <2>1, <2>2 DEF TrainUpload, Put
<1>5. CASE TrainReturn
  BY <1>5, SucceedKeepsInv DEF TrainReturn
<1> QED BY <1>1, <1>2, <1>3, <1>4, <1>5 DEF TrainNext

\* _ensure_ip_adapter touches the IP-Adapter and its mark alone.
LEMMA EnsureIpStep ==
    ASSUME Inv, IpFits \/ IpUnloads \/ IpLoads \/ IpScaled
    PROVE  Inv'
<1>1. /\ at \in {"ip", "scale"} /\ at' \in {"scale", "draw"}
      /\ UNCHANGED <<i2v, job, done, stored, answer>>
  BY DEF IpFits, IpUnloads, IpLoads, IpScaled, progress
<1>2. sdxl \in Pipes /\ sdxl # NoPipe /\ job \in Jobs
  BY <1>1, PipeThere DEF Inv
<1>3. /\ sdxl' \in Pipes /\ sdxl'.model = sdxl.model
      /\ sdxl'.own = sdxl.own /\ sdxl'.stale = sdxl.stale
  BY <1>2 DEF IpFits, IpUnloads, IpLoads, IpScaled, Pipes
<1>4. TypeOK'
  BY <1>1, <1>3, AbsentAssumption DEF Inv, TypeOK, Places
<1>5. CardSplit' /\ I2VSound'
  BY <1>1, <1>2 DEF Inv, CardSplit, I2VSound
<1>6. AdaptersKnown'
  BY <1>1, <1>2, <1>3 DEF Inv, AdaptersKnown, Staged
<1>7. PartsCounted'
  BY <1>1 DEF Inv, PartsCounted
<1>8. MarkIsTrue'
  <2>1. {sdxl.ip, sdxl.marked, job.ref} \subseteq BOOLEAN
    BY <1>2 DEF Pipes, Jobs
  <2>2. CASE IpFits
    BY <2>2, <1>2 DEF IpFits, Inv, MarkIsTrue
  <2>3. CASE IpUnloads
    <3>1. ~sdxl'.ip /\ ~sdxl'.marked /\ at' = "draw" /\ job' = job /\ ~job.ref
      BY <2>3, <1>2 DEF IpUnloads, Pipes
    <3>2. sdxl'.ip = FALSE /\ sdxl'.marked = FALSE /\ job.ref = FALSE
      BY <2>1, <2>3, <1>2 DEF IpUnloads, Pipes
    <3> QED BY <3>1, <3>2 DEF MarkIsTrue
  <2>4. CASE IpLoads
    <3>1. sdxl'.ip /\ ~sdxl'.marked /\ at' = "scale" /\ job' = job /\ job.ref
      BY <2>4, <1>2 DEF IpLoads, Pipes
    <3> QED BY <3>1 DEF MarkIsTrue
  <2>5. CASE IpScaled
    <3>1. sdxl.ip = TRUE /\ job.ref = TRUE
      BY <2>1, <2>5 DEF IpScaled, Inv, MarkIsTrue
    <3>2. sdxl'.ip = TRUE /\ sdxl'.marked = TRUE /\ at' = "draw" /\ job' = job
      BY <2>5, <1>2, <3>1 DEF IpScaled, Pipes
    <3> QED BY <3>1, <3>2 DEF MarkIsTrue
  <2> QED BY <2>2, <2>3, <2>4, <2>5
<1> QED BY <1>4, <1>5, <1>6, <1>7, <1>8 DEF Inv

LEMMA PreviewStep ==
    ASSUME Inv, PreviewNext
    PROVE  Inv'
<1>. USE DEF progress
<1>1. CASE StartPreview
  <2>1. PICK j \in Jobs :
           ~j.ref /\ Begin(j, "stage") /\ UnloadI2V /\ sdxl' = Inherited(sdxl)
    BY <1>1 DEF StartPreview
  <2>2. sdxl = NoPipe => sdxl' = NoPipe
    BY <2>1 DEF Inherited
  <2>3. sdxl # NoPipe => /\ sdxl' \in Pipes /\ sdxl'.model = sdxl.model
                         /\ sdxl'.own = {}
                         /\ sdxl'.stale = sdxl.stale \cup sdxl.own
                         /\ sdxl'.ip = sdxl.ip /\ sdxl'.marked = sdxl.marked
    BY <2>1 DEF Inherited, Pipes, Inv, TypeOK
  <2>4. TypeOK'
    BY <2>1, <2>2, <2>3, AbsentAssumption, PartsAssumption
       DEF Inv, TypeOK, Begin, UnloadI2V, Places, I2VPipes
  <2>5. CardSplit' /\ I2VSound' /\ MarkIsTrue'
    BY <2>1, <2>2, <2>3 DEF Inv, CardSplit, I2VSound, MarkIsTrue, Begin, UnloadI2V
  <2>6. AdaptersKnown'
    BY <2>1, <2>2, <2>3 DEF Inv, AdaptersKnown, Begin
  <2>7. PartsCounted'
    BY <2>1, PartsAssumption DEF PartsCounted, Begin, Jobs
  <2> QED BY <2>4, <2>5, <2>6, <2>7 DEF Inv
<1>2. CASE StageFails
  BY <1>2, FailKeepsInv DEF StageFails
<1>3. CASE GetPipeCached
  <2>1. TypeOK'
    BY <1>3 DEF Inv, TypeOK, GetPipeCached, PipeFits, Places
  <2>2. CardSplit' /\ I2VSound' /\ AdaptersKnown' /\ MarkIsTrue'
    BY <1>3 DEF Inv, CardSplit, I2VSound, AdaptersKnown, MarkIsTrue,
                GetPipeCached, PipeFits
  <2>3. PartsCounted'
    BY <1>3 DEF Inv, PartsCounted, GetPipeCached
  <2> QED BY <2>1, <2>2, <2>3 DEF Inv
<1>4. CASE GetPipeBuilt
  <2>1. PICK distilled \in BOOLEAN :
           sdxl' = [model |-> job.model, distill |-> distilled, ip |-> FALSE,
                    marked |-> FALSE, own |-> {}, stale |-> {}]
    BY <1>4 DEF GetPipeBuilt
  <2>2. sdxl' \in Pipes /\ sdxl'.model = job.model
        /\ sdxl'.own = {} /\ sdxl'.stale = {}
    BY <1>4, <2>1 DEF Inv, TypeOK, GetPipeBuilt, Pipes, Jobs
  <2>3. TypeOK'
    BY <1>4, <2>2, AbsentAssumption DEF Inv, TypeOK, GetPipeBuilt, Places
  <2>4. CardSplit' /\ I2VSound' /\ MarkIsTrue'
    BY <1>4 DEF Inv, CardSplit, I2VSound, MarkIsTrue, GetPipeBuilt
  <2>5. AdaptersKnown'
    BY <1>4, <2>2 DEF AdaptersKnown, GetPipeBuilt
  <2>6. PartsCounted'
    BY <1>4 DEF Inv, PartsCounted, GetPipeBuilt
  <2> QED BY <2>3, <2>4, <2>5, <2>6 DEF Inv
<1>5. CASE GetPipeFails
  BY <1>5, FailKeepsInv DEF GetPipeFails, UnloadPreview
<1>6. CASE BindLoras
  <2>1. /\ sdxl' \in Pipes /\ sdxl'.model = sdxl.model
        /\ sdxl'.own = Staged /\ sdxl'.stale = sdxl.stale
        /\ sdxl'.ip = sdxl.ip /\ sdxl'.marked = sdxl.marked
    BY <1>6, PipeThere, Counting DEF Inv, BindLoras, Pipes
  <2>2. TypeOK'
    BY <1>6, <2>1, AbsentAssumption DEF Inv, TypeOK, BindLoras, Places
  <2>3. CardSplit' /\ I2VSound' /\ MarkIsTrue'
    BY <1>6, <2>1, PipeThere DEF Inv, CardSplit, I2VSound, MarkIsTrue, BindLoras
  <2>4. Staged' = Staged
    BY <1>6 DEF BindLoras, Staged
  <2>5. AdaptersKnown'
    <3>1. sdxl.model = job.model /\ (sdxl.model = Anime => sdxl.stale = {})
      BY <1>6, PipeThere DEF Inv, AdaptersKnown, BindLoras
    <3>2. job.model = Anime => Staged = {}
      BY DEF Staged
    <3>3. job' = job /\ at' = "shots" /\ Staged \cap sdxl.stale = {}
      BY <1>6 DEF BindLoras
    <3> QED BY <2>1, <2>4, <3>1, <3>2, <3>3 DEF AdaptersKnown
  <2>6. PartsCounted'
    BY <1>6 DEF Inv, PartsCounted, BindLoras
  <2> QED BY <2>2, <2>3, <2>5, <2>6 DEF Inv
<1>7. CASE BindFails
  BY <1>7, FailKeepsInv DEF BindFails, ResetPipe, UnloadPreview
<1>8. CASE CopyShot
  <2>1. CASE PutWorks("shots")
    <3>1. TypeOK'
      BY <1>8, <2>1, Counting DEF Inv, TypeOK, CopyShot, PutWorks, PartsCounted
    <3>2. CardSplit' /\ I2VSound' /\ MarkIsTrue'
      BY <1>8, <2>1 DEF Inv, CardSplit, I2VSound, MarkIsTrue, CopyShot, PutWorks
    <3>3. AdaptersKnown'
      BY <1>8, <2>1 DEF Inv, AdaptersKnown, CopyShot, PutWorks, Staged
    <3>4. PartsCounted'
      BY <1>8, <2>1, Counting DEF Inv, PartsCounted, CopyShot, PutWorks
    <3> QED BY <3>1, <3>2, <3>3, <3>4 DEF Inv
  <2>2. CASE PutRaises("shots")
    BY <1>8, <2>2, FailKeepsInv DEF CopyShot, PutRaises
  <2> QED BY <1>8, <2>1, <2>2 DEF CopyShot, Put
<1>9. CASE PrepareShot
  <2>1. PICK ref \in BOOLEAN : job' = [job EXCEPT !.ref = ref]
    BY <1>9 DEF PrepareShot
  <2>2. /\ job' \in Jobs /\ job'.parts = job.parts
        /\ job'.model = job.model /\ Staged' = Staged
    BY <1>9, <2>1, PipeThere DEF Inv, PrepareShot, Jobs, Staged
  <2>3. TypeOK'
    BY <1>9, <2>2, AbsentAssumption DEF Inv, TypeOK, PrepareShot, Places
  <2>4. CardSplit' /\ I2VSound' /\ MarkIsTrue'
    BY <1>9 DEF Inv, CardSplit, I2VSound, MarkIsTrue, PrepareShot
  <2>5. AdaptersKnown'
    BY <1>9, <2>2 DEF Inv, AdaptersKnown, PrepareShot
  <2>6. PartsCounted'
    BY <1>9, <2>2 DEF Inv, PartsCounted, PrepareShot
  <2> QED BY <2>3, <2>4, <2>5, <2>6 DEF Inv
<1>10. CASE IpFits \/ IpUnloads \/ IpLoads \/ IpScaled
  BY <1>10, EnsureIpStep
<1>11. CASE IpFails
  BY <1>11, FailKeepsInv DEF IpFails, ResetPipe, UnloadPreview
<1>12. CASE DrawShot
  <2>1. TypeOK'
    BY <1>12 DEF Inv, TypeOK, DrawShot, Places
  <2>2. CardSplit' /\ I2VSound' /\ MarkIsTrue'
    BY <1>12 DEF Inv, CardSplit, I2VSound, MarkIsTrue, DrawShot
  <2>3. AdaptersKnown'
    BY <1>12 DEF Inv, AdaptersKnown, DrawShot, Staged
  <2>4. PartsCounted'
    BY <1>12 DEF Inv, PartsCounted, DrawShot
  <2> QED BY <2>1, <2>2, <2>3, <2>4 DEF Inv
<1>13. CASE DrawShotFails
  BY <1>13, FailKeepsInv DEF DrawShotFails
<1>14. CASE UploadShot
  <2>1. CASE PutWorks("shots")
    <3>1. TypeOK'
      BY <1>14, <2>1, Counting
         DEF Inv, TypeOK, UploadShot, PutWorks, PartsCounted, Places
    <3>2. CardSplit' /\ I2VSound' /\ MarkIsTrue'
      BY <1>14, <2>1
         DEF Inv, CardSplit, I2VSound, MarkIsTrue, UploadShot, PutWorks
    <3>3. AdaptersKnown'
      BY <1>14, <2>1 DEF Inv, AdaptersKnown, UploadShot, PutWorks, Staged
    <3>4. PartsCounted'
      BY <1>14, <2>1, Counting DEF Inv, PartsCounted, UploadShot, PutWorks
    <3> QED BY <3>1, <3>2, <3>3, <3>4 DEF Inv
  <2>2. CASE PutRaises("shots")
    BY <1>14, <2>2, FailKeepsInv DEF UploadShot, PutRaises
  <2> QED BY <1>14, <2>1, <2>2 DEF UploadShot, Put
<1>15. CASE PreviewReturn
  <2>1. PICK undeleted \in SUBSET sdxl.own :
           sdxl' = [sdxl EXCEPT !.own = undeleted]
    BY <1>15 DEF PreviewReturn
  <2>2. /\ sdxl' \in Pipes /\ sdxl'.model = sdxl.model
        /\ sdxl'.own \subseteq sdxl.own /\ sdxl'.stale = sdxl.stale
        /\ sdxl'.ip = sdxl.ip /\ sdxl'.marked = sdxl.marked
    BY <1>15, <2>1, PipeThere DEF Inv, PreviewReturn, Pipes
  <2>3. TypeOK'
    BY <1>15, <2>2 DEF Inv, TypeOK, PreviewReturn, Succeed, Places
  <2>4. CardSplit' /\ I2VSound' /\ MarkIsTrue'
    BY <1>15, <2>2, PipeThere
       DEF Inv, CardSplit, I2VSound, MarkIsTrue, PreviewReturn, Succeed
  <2>5. AdaptersKnown'
    BY <1>15, <2>2, PipeThere DEF Inv, AdaptersKnown, PreviewReturn, Succeed
  <2>6. PartsCounted'
    BY <1>15 DEF Inv, PartsCounted, PreviewReturn, Succeed
  <2> QED BY <2>3, <2>4, <2>5, <2>6 DEF Inv
<1> QED BY <1>1, <1>2, <1>3, <1>4, <1>5, <1>6, <1>7, <1>8, <1>9, <1>10, <1>11,
           <1>12, <1>13, <1>14, <1>15 DEF PreviewNext

LEMMA ReplacedStep ==
    ASSUME Inv, ProcessReplaced
    PROVE  Inv'
  BY PartsAssumption
     DEF Inv, TypeOK, CardSplit, I2VSound, AdaptersKnown, MarkIsTrue,
         PartsCounted, ProcessReplaced, Places, I2VPipes

LEMMA InitInv == Init => Inv
  BY PartsAssumption
     DEF Init, Inv, TypeOK, CardSplit, I2VSound, AdaptersKnown,
         MarkIsTrue, PartsCounted, Places, I2VPipes

LEMMA StutterStep ==
    ASSUME Inv, UNCHANGED vars
    PROVE  Inv'
  BY DEF vars, progress, Inv, TypeOK, CardSplit, I2VSound, AdaptersKnown,
         MarkIsTrue, PartsCounted, Staged

-----------------------------------------------------------------------------
(* The theorems. *)

\* The inductive invariant holds in every reachable state.
THEOREM Invariance == Spec => []Inv
<1>1. Inv /\ [Next]_vars => Inv'
  BY I2VStep, PreviewStep, TrainStep, ReplacedStep, StutterStep DEF Next
<1> QED BY InitInv, <1>1, PTL DEF Spec

\* Both caches, the job, its place and its counts keep their types, and a
\* preview job that binds or draws has a pipe.
THEOREM TypeCorrect == Spec => []TypeOK
<1>1. Inv => TypeOK
  BY DEF Inv
<1> QED BY Invariance, <1>1, PTL

\* SDXL and CogVideoX are never resident together (preview_sdxl.py:13-14) and
\* training runs with neither.
THEOREM OneOwnerAlways == Spec => []OneOwner
<1>1. Inv => OneOwner
  BY DEF Inv, CardSplit, OneOwner
<1> QED BY Invariance, <1>1, PTL

\* _get_pipe and _bind_pretrained_loras give every draw the base model its job
\* asked for and the job's own adapters, and the anime base carries none.
THEOREM AlwaysDrawsWithItsOwn == Spec => []DrawsWithItsOwn
<1>1. Inv => DrawsWithItsOwn
  BY DEF Inv, TypeOK, AdaptersKnown, DrawsWithItsOwn
<1> QED BY Invariance, <1>1, PTL

\* _ensure_ip_adapter, through its loads, unloads and their failures and over
\* any sequence of jobs, gives a draw an IP-Adapter and an image together, and
\* exactly when the shot has a reference image.
THEOREM ReferenceAlwaysMatches == Spec => []ReferenceMatches
<1>1. Inv => ReferenceMatches
  <2> SUFFICES ASSUME Inv, at = "draw"
               PROVE  (sdxl.ip <=> ImageGiven) /\ (ImageGiven <=> job.ref)
    BY DEF ReferenceMatches
  <2>1. sdxl \in Pipes /\ sdxl # NoPipe /\ job \in Jobs
    BY PipeThere DEF Inv
  <2>2. {sdxl.ip, sdxl.marked, job.ref} \subseteq BOOLEAN
    BY <2>1 DEF Pipes, Jobs
  <2>3. sdxl.ip = sdxl.marked /\ sdxl.marked = job.ref
    BY <2>1 DEF Inv, MarkIsTrue
  <2> QED BY <2>2, <2>3 DEF ImageGiven
<1> QED BY Invariance, <1>1, PTL

\* _evict_pipe: no i2v pipeline whose generate failed is used again.
THEOREM PoisonedNeverUsed == Spec => []NeverPoisoned
<1>1. Inv => NeverPoisoned
  BY DEF Inv, I2VSound, NeverPoisoned
<1> QED BY Invariance, <1>1, PTL

\* run_fn returns only when every file of the job was uploaded.
THEOREM ResultAlwaysStored == Spec => []ResultIsStored
<1>1. Inv => ResultIsStored
  BY DEF Inv, PartsCounted, ResultIsStored
<1> QED BY Invariance, <1>1, PTL

-----------------------------------------------------------------------------
(* What a warm cache may hand to the next job. *)

\* The places of each kind of job.
PlacesOf(kind) ==
    CASE kind = "i2v"     -> {"i2v_build", "i2v_draw", "i2v_put"}
      [] kind = "preview" -> {"stage", "bind", "shots", "ip", "scale", "draw", "put"}
      [] kind = "train"   -> {"train", "train_put"}

\* The job is of the kind whose code runs.
KindKnown == at # "idle" => at \in PlacesOf(job.kind)

\* Either cache is only warm while, or after, a job of its own kind ran last;
\* of the adapters, those that job itself bound and left are ones it asked for,
\* on its own base model.
WarmFromLastJob ==
    /\ sdxl # NoPipe => job # NoJob /\ job.kind = "preview"
    /\ i2v # "none" => job # NoJob /\ job.kind = "i2v"
    /\ at = "idle" /\ sdxl # NoPipe =>
          sdxl.own = {} \/ (sdxl.model = job.model /\ sdxl.own \subseteq Staged)

WarmInv == KindKnown /\ WarmFromLastJob

LEMMA WarmInit == Init => WarmInv
  BY DEF Init, WarmInv, KindKnown, WarmFromLastJob

\* A job that fails or returns leaves its own kind's cache, no fuller.
LEMMA EndKeepsWarm ==
    ASSUME Inv, WarmInv, at # "idle", at' = "idle", job' = job, i2v' \in {i2v, "none"},
           \/ sdxl' = sdxl \/ sdxl' = NoPipe
           \/ /\ sdxl # NoPipe
              /\ \E left \in SUBSET sdxl.own : sdxl' = [sdxl EXCEPT !.own = left]
    PROVE  WarmInv'
<1>1. sdxl # NoPipe => sdxl \in Pipes
  BY DEF Inv, TypeOK
<1>2. sdxl # NoPipe /\ sdxl' # NoPipe =>
        sdxl'.model = sdxl.model /\ sdxl'.own \subseteq sdxl.own
  BY <1>1 DEF Pipes
<1>3. sdxl # NoPipe => job.kind = "preview" /\ job # NoJob
  BY DEF WarmInv, WarmFromLastJob
<1>4. sdxl # NoPipe => at \in {"stage", "bind", "shots", "ip", "scale", "draw", "put"}
  BY <1>3 DEF WarmInv, KindKnown, PlacesOf
<1>5. sdxl # NoPipe =>
        sdxl.own = {} \/ (sdxl.model = job.model /\ sdxl.own = Staged)
  BY <1>4 DEF Inv, AdaptersKnown
<1>6. Staged' = Staged
  BY DEF Staged
<1>7. i2v' # "none" => job' # NoJob /\ job'.kind = "i2v"
  BY DEF WarmInv, WarmFromLastJob
<1>8. sdxl' # NoPipe => sdxl # NoPipe
  OBVIOUS
<1>9. sdxl' # NoPipe =>
        sdxl'.own = {} \/ (sdxl'.model = job'.model /\ sdxl'.own \subseteq Staged')
  BY <1>2, <1>5, <1>6, <1>8
<1> QED BY <1>3, <1>7, <1>8, <1>9 DEF WarmInv, KindKnown, WarmFromLastJob

\* Between its first and its last step a job stays of its kind and fills only
\* the cache of that kind.
LEMMA MiddleKeepsWarm ==
    ASSUME WarmInv, at # "idle", at' # "idle", job # NoJob, job' # NoJob,
           job'.kind = job.kind,
           at \in PlacesOf(job.kind) => at' \in PlacesOf(job.kind),
           sdxl' = sdxl \/ at \in PlacesOf("preview"),
           i2v' = i2v \/ at \in PlacesOf("i2v"),
           job.kind \in {"i2v", "preview", "train"}
    PROVE  WarmInv'
  BY DEF WarmInv, KindKnown, WarmFromLastJob, PlacesOf

LEMMA WarmI2V ==
    ASSUME Inv, WarmInv, I2VNext
    PROVE  WarmInv'
<1>1. CASE StartI2V
  <2>1. PICK j \in Jobs : j.kind = "i2v" /\ Begin(j, "i2v_build")
    BY <1>1 DEF StartI2V
  <2> QED BY <1>1, <2>1, AbsentAssumption
     DEF StartI2V, UnloadPreview, Begin, WarmInv, KindKnown, WarmFromLastJob, PlacesOf
<1>2. CASE I2VPrepareFails \/ I2VDrawFails \/ I2VReturn \/ (I2VUpload /\ Fail)
  BY <1>2, EndKeepsWarm
     DEF I2VPrepareFails, I2VDrawFails, I2VReturn, I2VUpload, Fail, Succeed, EvictPipe
<1>3. CASE I2VGetPipe \/ I2VDraw \/ (I2VUpload /\ PutWorks("i2v_put"))
  <2>1. /\ at \in PlacesOf("i2v") /\ at' \in PlacesOf("i2v")
        /\ at # "idle" /\ at' # "idle" /\ job' = job /\ sdxl' = sdxl
    BY <1>3 DEF I2VGetPipe, I2VDraw, I2VUpload, PutWorks, PlacesOf
  <2>2. job # NoJob /\ job.kind \in {"i2v", "preview", "train"}
    BY <2>1 DEF Inv, TypeOK, Jobs
  <2>3. job.kind = "i2v"
    BY <2>1, <2>2 DEF WarmInv, KindKnown, PlacesOf
  <2> QED BY <2>1, <2>2, <2>3, MiddleKeepsWarm
<1> QED BY <1>1, <1>2, <1>3 DEF I2VNext, I2VUpload, Put, PutRaises

LEMMA WarmTrain ==
    ASSUME Inv, WarmInv, TrainNext
    PROVE  WarmInv'
<1>1. CASE StartTrain
  <2>1. PICK j \in Jobs : j.kind = "train" /\ Begin(j, "train")
    BY <1>1 DEF StartTrain
  <2> QED BY <1>1, <2>1, AbsentAssumption
     DEF StartTrain, UnloadPreview, UnloadI2V, Begin, WarmInv, KindKnown,
         WarmFromLastJob, PlacesOf
<1>2. CASE TrainFails \/ TrainReturn \/ (TrainUpload /\ Fail)
  BY <1>2, EndKeepsWarm DEF TrainFails, TrainReturn, TrainUpload, Fail, Succeed
<1>3. CASE TrainSlot \/ (TrainUpload /\ PutWorks("train"))
  <2>1. /\ at \in PlacesOf("train") /\ at' \in PlacesOf("train")
        /\ at # "idle" /\ at' # "idle" /\ job' = job /\ UNCHANGED <<sdxl, i2v>>
    BY <1>3 DEF TrainSlot, TrainUpload, PutWorks, PlacesOf
  <2>2. job # NoJob /\ job.kind \in {"i2v", "preview", "train"}
    BY <2>1 DEF Inv, TypeOK, Jobs
  <2>3. job.kind = "train"
    BY <2>1, <2>2 DEF WarmInv, KindKnown, PlacesOf
  <2> QED BY <2>1, <2>2, <2>3, MiddleKeepsWarm
<1> QED BY <1>1, <1>2, <1>3 DEF TrainNext, TrainUpload, Put, PutRaises

LEMMA WarmPreview ==
    ASSUME Inv, WarmInv, PreviewNext
    PROVE  WarmInv'
<1>1. CASE StartPreview
  <2>1. PICK j \in Jobs : j.kind = "preview" /\ Begin(j, "stage")
    BY <1>1 DEF StartPreview
  <2> QED BY <1>1, <2>1, AbsentAssumption
     DEF StartPreview, UnloadI2V, Begin, WarmInv, KindKnown, WarmFromLastJob, PlacesOf
<1>2. CASE \/ StageFails \/ GetPipeFails \/ BindFails \/ IpFails
           \/ DrawShotFails \/ (CopyShot /\ Fail) \/ (UploadShot /\ Fail)
  <2>1. at # "idle" /\ at' = "idle" /\ job' = job /\ i2v' = i2v
    BY <1>2 DEF StageFails, GetPipeFails, BindFails, IpFails,
                DrawShotFails, CopyShot, UploadShot, Fail
  <2>2. sdxl' = sdxl \/ sdxl' = NoPipe
    BY <1>2 DEF StageFails, GetPipeFails, BindFails, IpFails,
                DrawShotFails, CopyShot, UploadShot, UnloadPreview, ResetPipe
  <2> QED BY <2>1, <2>2, EndKeepsWarm
<1>3. CASE PreviewReturn
  <2>1. at = "shots" /\ at' = "idle" /\ job' = job /\ i2v' = i2v
    BY <1>3 DEF PreviewReturn, Succeed
  <2>2. sdxl # NoPipe
    BY <2>1 DEF Inv, TypeOK
  <2>3. \E left \in SUBSET sdxl.own : sdxl' = [sdxl EXCEPT !.own = left]
    BY <1>3 DEF PreviewReturn
  <2> QED BY <2>1, <2>2, <2>3, EndKeepsWarm
<1>4. CASE \/ GetPipeCached \/ GetPipeBuilt \/ BindLoras \/ PrepareShot
           \/ IpFits \/ IpUnloads \/ IpLoads \/ IpScaled \/ DrawShot
           \/ (CopyShot /\ PutWorks("shots"))
           \/ (UploadShot /\ PutWorks("shots"))
  <2>1. /\ at \in PlacesOf("preview") /\ at' \in PlacesOf("preview")
        /\ at # "idle" /\ at' # "idle" /\ i2v' = i2v
    BY <1>4 DEF GetPipeCached, GetPipeBuilt, BindLoras, PrepareShot, IpFits,
                IpUnloads, IpLoads, IpScaled, DrawShot,
                CopyShot, UploadShot, PutWorks, PlacesOf
  <2>2. job \in Jobs
    BY <2>1 DEF Inv, TypeOK
  <2>3. \/ job' = job
        \/ \E ref \in BOOLEAN : job' = [job EXCEPT !.ref = ref]
    BY <1>4 DEF GetPipeCached, GetPipeBuilt, BindLoras, PrepareShot, IpFits,
                IpUnloads, IpLoads, IpScaled, DrawShot,
                CopyShot, UploadShot, PutWorks
  <2>4. job' \in Jobs /\ job'.kind = job.kind
    BY <2>2, <2>3 DEF Jobs
  <2>5. job # NoJob /\ job' # NoJob /\ job.kind \in {"i2v", "preview", "train"}
    BY <2>2, <2>4, AbsentAssumption DEF Jobs
  <2>6. job.kind = "preview"
    BY <2>1, <2>5 DEF WarmInv, KindKnown, PlacesOf
  <2> QED BY <2>1, <2>4, <2>5, <2>6, MiddleKeepsWarm
<1> QED BY <1>1, <1>2, <1>3, <1>4
   DEF PreviewNext, CopyShot, UploadShot, Put, PutRaises

LEMMA WarmStep == Inv /\ WarmInv /\ [Next]_vars => WarmInv'
<1>1. CASE ProcessReplaced
  BY <1>1 DEF ProcessReplaced, WarmInv, KindKnown, WarmFromLastJob
<1>2. CASE UNCHANGED vars
  BY <1>2 DEF vars, progress, WarmInv, KindKnown, WarmFromLastJob, Staged
<1> QED BY <1>1, <1>2, WarmI2V, WarmTrain, WarmPreview DEF Next

\* unload_preview and unload_i2v at a job's start leave nothing of another
\* kind of job on the card, and the adapters the last job bound and left are
\* ones it asked for, on its own base.  Those of previews before it, which may
\* be on the pipe as well, are what LittleIsHandedOn bounds.
THEOREM WarmCacheIsLastJobs == Spec => []WarmFromLastJob
<1>1. WarmInv => WarmFromLastJob
  BY DEF WarmInv
<1> QED BY Invariance, WarmInit, WarmStep, <1>1, PTL DEF Spec

\* What a step may leave on the SDXL pipe: no pipe at all unless the job is a
\* preview; adapters of earlier jobs only on a pipe that was there before, of
\* the same base model, and no others than were there or than the preview
\* that ran right before had asked for and left; the few-step distill LoRA
\* only where it was, or for a job of a few-step tier.
HandsOnLittle(before, after) ==
    after # NoPipe =>
        /\ job' # NoJob /\ job'.kind = "preview"
        /\ after.stale # {} =>
              /\ before # NoPipe /\ before.model = after.model
              /\ \/ after.stale = before.stale
                 \/ /\ at = "idle" /\ job.kind = "preview"
                    /\ after.stale = before.stale \cup before.own
                    /\ before.own \subseteq Staged
        /\ after.distill =>
              \/ job'.few
              \/ before # NoPipe /\ before.distill /\ before.model = after.model

PipeHandsOnLittle == [][HandsOnLittle(sdxl, sdxl')]_vars

LEMMA KeptPipe ==
    ASSUME sdxl' = sdxl \/ sdxl' = NoPipe, WarmFromLastJob'
    PROVE  HandsOnLittle(sdxl, sdxl')
  BY DEF HandsOnLittle, WarmFromLastJob

LEMMA PreviewHandsOnLittle ==
    ASSUME Inv, WarmInv, WarmFromLastJob', PreviewNext
    PROVE  HandsOnLittle(sdxl, sdxl')
<1>1. /\ sdxl # NoPipe => sdxl \in Pipes
      /\ sdxl' # NoPipe => job' # NoJob /\ job'.kind = "preview"
  BY DEF Inv, TypeOK, WarmFromLastJob
<1>2. CASE StartPreview
  <2>1. at = "idle" /\ sdxl' = Inherited(sdxl)
    BY <1>2 DEF StartPreview, Begin
  <2>2. CASE sdxl = NoPipe
    BY <2>1, <2>2 DEF Inherited, HandsOnLittle
  <2>3. CASE sdxl # NoPipe
    <3>1. /\ sdxl'.stale = sdxl.stale \cup sdxl.own
          /\ sdxl'.model = sdxl.model /\ sdxl'.distill = sdxl.distill
      BY <1>1, <2>1, <2>3 DEF Inherited, Pipes
    <3>2. job.kind = "preview" /\ (sdxl.own = {} \/ sdxl.own \subseteq Staged)
      BY <2>1, <2>3 DEF WarmInv, WarmFromLastJob
    <3> QED BY <1>1, <2>1, <2>3, <3>1, <3>2 DEF HandsOnLittle
  <2> QED BY <2>2, <2>3
<1>3. CASE GetPipeBuilt
  <2>1. PICK distilled \in BOOLEAN :
          /\ distilled => job.few
          /\ sdxl' = [model |-> job.model, distill |-> distilled, ip |-> FALSE,
                      marked |-> FALSE, own |-> {}, stale |-> {}]
    BY <1>3 DEF GetPipeBuilt
  <2>2. sdxl'.stale = {} /\ sdxl'.distill = distilled /\ job' = job
    BY <1>3, <2>1 DEF GetPipeBuilt
  <2> QED BY <1>1, <2>1, <2>2 DEF HandsOnLittle
<1>4. CASE BindLoras \/ IpUnloads \/ IpLoads \/ IpScaled \/ PreviewReturn
  <2>1. at \in {"bind", "shots", "ip", "scale"}
    BY <1>4 DEF BindLoras, IpUnloads, IpLoads, IpScaled, PreviewReturn
  <2>2. sdxl \in Pipes /\ sdxl # NoPipe
    BY <2>1, PipeThere DEF Inv
  <2>3. /\ sdxl'.stale = sdxl.stale /\ sdxl'.model = sdxl.model
        /\ sdxl'.distill = sdxl.distill
    BY <1>4, <2>2 DEF BindLoras, IpUnloads, IpLoads, IpScaled, PreviewReturn, Pipes
  <2> QED BY <1>1, <2>2, <2>3 DEF HandsOnLittle
<1>5. CASE \/ StageFails \/ GetPipeCached \/ GetPipeFails \/ BindFails
           \/ CopyShot \/ PrepareShot \/ IpFits \/ IpFails \/ DrawShot
           \/ DrawShotFails \/ UploadShot
  BY <1>5, KeptPipe
     DEF StageFails, GetPipeCached, GetPipeFails, BindFails, CopyShot,
         PrepareShot, IpFits, IpFails, DrawShot, DrawShotFails, UploadShot,
         UnloadPreview, ResetPipe
<1> QED BY <1>2, <1>3, <1>4, <1>5 DEF PreviewNext

\* What remains true where render_preview does not clean up behind a failed
\* shot and _get_pipe compares only the model: adapters of earlier jobs are on
\* a pipe only along an unbroken chain of previews of one base model in one
\* process, through as many of them as follow, and each preview adds to them
\* at most what it had asked for itself; a clip, a training, another base, a
\* reset pipe or a new process drops them all.  Distilled is only a pipe that
\* was, or that a job of a few-step tier built.
THEOREM LittleIsHandedOn == Spec => PipeHandsOnLittle
<1>1. Inv /\ WarmInv /\ WarmFromLastJob' /\ [Next]_vars
        => [HandsOnLittle(sdxl, sdxl')]_vars
  <2>1. CASE I2VNext \/ TrainNext \/ ProcessReplaced
    BY <2>1, KeptPipe
       DEF I2VNext, StartI2V, I2VPrepareFails, I2VGetPipe, I2VDraw, I2VDrawFails,
           I2VUpload, I2VReturn, TrainNext, StartTrain, TrainFails, TrainSlot,
           TrainUpload, TrainReturn, ProcessReplaced, UnloadPreview
  <2> QED BY <2>1, PreviewHandsOnLittle DEF Next
<1>2. WarmInv' => WarmFromLastJob'
  BY DEF WarmInv
<1>3. Inv /\ WarmInv /\ [Next]_vars => [HandsOnLittle(sdxl, sdxl')]_vars
  BY <1>1, <1>2, WarmStep
<1> QED BY Invariance, WarmInit, WarmStep, <1>3, PTL DEF Spec, PipeHandsOnLittle
=============================================================================
