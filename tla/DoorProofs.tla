----------------------------- MODULE DoorProofs -----------------------------
(***************************************************************************)
(* What Door guarantees for every set of jobs and of requests: that the    *)
(* door runs the registry as JobRegistryProofs proved it, and, with what   *)
(* ContractProofs says of keys, what the studio relies on.                 *)
(***************************************************************************)
EXTENDS Door, ContractProofs

RP == INSTANCE JobRegistryProofs WITH Pollers <- {}, poll <- <<>>, reply <- <<>>

-----------------------------------------------------------------------------
(* R, the registry Door is built from, is the registry RP has theorems on. *)
LEMMA Registry == RP!RegistryAssumption
BY DoorAssumption DEF RP!RegistryAssumption

LEMMA SameInit == R!Init => RP!Init
BY DEF R!Init, RP!Init, R!None, RP!None, R!NoEnvelope, RP!NoEnvelope

LEMMA SameType == RP!TypeOK => R!TypeOK
BY DEF R!TypeOK, RP!TypeOK, R!None, RP!None, R!Statuses, RP!Statuses, R!Terminal,
  RP!Terminal, R!Errors, RP!Errors, R!Outcomes, RP!Outcomes, R!Envelopes, RP!Envelopes

LEMMA SameHandler ==
    ASSUME NEW j \in Jobs, R!Submit(j) \/ R!CancelQueued(j) \/ R!CancelRunning(j) \/ R!CancelQueuedEnd
    PROVE  RP!Handler
<1> USE DEF RP!Handler, R!pollVars, RP!pollVars
<1>1. CASE R!Submit(j)
  BY <1>1 DEF R!Submit, RP!Submit, R!EnsureWorker, RP!EnsureWorker
<1>2. CASE R!CancelQueued(j)
  BY <1>2 DEF R!CancelQueued, RP!CancelQueued, R!MayDrop, RP!MayDrop, R!Dequeue, RP!Dequeue,
    R!ToSet, RP!ToSet, R!RemoveAt, RP!RemoveAt
<1>3. CASE R!CancelRunning(j)
  BY <1>3 DEF R!CancelRunning, RP!CancelRunning, R!MayFlag, RP!MayFlag
<1>4. CASE R!CancelQueuedEnd
  BY <1>4 DEF R!CancelQueuedEnd, RP!CancelQueuedEnd, R!Retain, RP!Retain
<1> QED
  BY <1>1, <1>2, <1>3, <1>4

LEMMA SameWorker == R!Worker => RP!Worker
<1> USE DEF R!pollVars, RP!pollVars, R!jobVars, RP!jobVars
<1>1. R!WorkerWait => RP!WorkerWait
  BY DEF R!WorkerWait, RP!WorkerWait
<1>2. R!WorkerLeave => RP!WorkerLeave
  BY DEF R!WorkerLeave, RP!WorkerLeave, R!MayLeave, RP!MayLeave
<1>3. R!WorkerGone => RP!WorkerGone
  BY DEF R!WorkerGone, RP!WorkerGone
<1>4. R!WorkerTake => RP!WorkerTake
  BY DEF R!WorkerTake, RP!WorkerTake, R!Pop, RP!Pop
<1>5. R!RecordOutput => RP!RecordOutput
  BY DEF R!RecordOutput, RP!RecordOutput, R!FirstWrite, RP!FirstWrite
<1>6. R!RecordFailed => RP!RecordFailed
  BY DEF R!RecordFailed, RP!RecordFailed
<1>7. R!RecordEnd => RP!RecordEnd
  BY DEF R!RecordEnd, RP!RecordEnd, R!ErrorText, RP!ErrorText, R!Retain, RP!Retain,
    R!None, RP!None
<1> QED
  BY <1>1, <1>2, <1>3, <1>4, <1>5, <1>6, <1>7 DEF R!Worker, RP!Worker

LEMMA SameRun ==
    ASSUME NEW o \in {"output", "error"}, R!RunEnds(o) \/ R!RunSeesCancel
    PROVE  RP!Run
BY DEF R!RunEnds, RP!RunEnds, R!RunSeesCancel, RP!RunSeesCancel, RP!Run, R!pollVars,
  RP!pollVars, R!jobVars, RP!jobVars, R!IsCancelled, RP!IsCancelled

LEMMA SameShutdown == R!Shutdown => RP!Shutdown
BY DEF R!Shutdown, RP!Shutdown, R!pollVars, RP!pollVars, R!jobVars, RP!jobVars, R!WakeAll,
  RP!WakeAll
-----------------------------------------------------------------------------
(* What the door's steps are in the registry, and what they may do to the  *)
(* job the registry's thread has in hand.                                  *)
Handling ==
    \/ \E j \in Jobs : R!Submit(j) \/ R!CancelQueued(j) \/ R!CancelRunning(j)
    \/ R!CancelQueuedEnd \/ R!Shutdown

Returning == R!RunSeesCancel \/ \E o \in {"output", "error"} : R!RunEnds(o)

Outside == UNCHANGED registryVars

LEMMA StepKinds ==
    ASSUME [Next]_doorVars
    PROVE  Handling \/ R!Worker \/ Returning \/ Outside
<1> USE DEF Handling, Returning, Outside
<1>1. CASE UNCHANGED doorVars
  BY <1>1 DEF doorVars
<1>2. CASE \E j \in Jobs : \/ \E q \in Requests : PostRun(j, q)
                           \/ PostCancel(j) \/ WorkerUploads(j)
  BY <1>2 DEF PostRun, PostCancel, WorkerUploads
<1>3. CASE CancelEnds \/ WorkerReads \/ ShouldCancel \/ Sigterm \/ SecondSigterm
  BY <1>3 DEF CancelEnds, WorkerReads, ShouldCancel, Sigterm, SecondSigterm
<1>4. ASSUME NEW how \in {"cancelled", "died", "error", "output"}, RenderReturns(how)
      PROVE  Returning
  BY <1>4 DEF RenderReturns
<1>5. CASE Thread \/ Finishes
  BY <1>4, <1>5 DEF Thread, Finishes, RegistryLoop, CallRender
<1>6. CASE Main
  BY <1>6 DEF Main, StopRegistry, StopClient, ProcessExits
<1> QED
  BY <1>1, <1>2, <1>3, <1>5, <1>6 DEF Next

LEMMA RegistryStep == [Next]_doorVars => [RP!Next]_RP!vars
<1> SUFFICES ASSUME [Next]_doorVars PROVE [RP!Next]_RP!vars
  OBVIOUS
<1>1. CASE Handling
  <2>1. (\E j \in Jobs : R!Submit(j) \/ R!CancelQueued(j) \/ R!CancelRunning(j))
        => RP!Handler
    BY SameHandler
  <2>2. R!CancelQueuedEnd => RP!Handler
    BY DEF R!CancelQueuedEnd, RP!CancelQueuedEnd, R!Retain, RP!Retain, R!pollVars,
      RP!pollVars, RP!Handler
  <2> QED
    BY <1>1, <2>1, <2>2, SameShutdown DEF Handling, RP!Next
<1>2. CASE R!Worker
  BY <1>2, SameWorker DEF RP!Next
<1>3. CASE Returning
  BY <1>3, SameRun DEF Returning, RP!Next
<1>4. CASE Outside
  BY <1>4 DEF Outside, registryVars, RP!vars
<1> QED
  BY <1>1, <1>2, <1>3, <1>4, StepKinds

LEMMA HandlingFacts ==
    ASSUME RP!Inv, Handling
    PROVE  /\ workerPc = "running" => workerPc' = "running"
           /\ workerPc' \in {"ended", "recording"} => workerPc' = workerPc
           /\ workerJob' = workerJob /\ outcome' = outcome
           /\ \A j \in Jobs : status'[j] = "COMPLETED" => status[j] = "COMPLETED"
<1> USE DEF R!jobVars
<1>1. status \in [Jobs -> RP!Statuses]
  BY DEF RP!Inv, RP!TypeOK
<1>2. ASSUME NEW j \in Jobs, R!Submit(j)
      PROVE  /\ status' = [status EXCEPT ![j] = "IN_QUEUE"]
             /\ workerPc' = IF workerPc \in {"none", "waiting"} THEN "check" ELSE workerPc
             /\ UNCHANGED <<workerJob, outcome>>
  BY <1>2 DEF R!Submit, R!EnsureWorker
<1>3. ASSUME NEW j \in Jobs, R!CancelQueued(j)
      PROVE  /\ status' = [status EXCEPT ![j] = "FAILED"]
             /\ UNCHANGED <<workerPc, workerJob, outcome>>
  BY <1>3 DEF R!CancelQueued
<1>4. CASE R!CancelQueuedEnd \/ \E j \in Jobs : R!CancelRunning(j)
  BY <1>4 DEF R!CancelQueuedEnd, R!CancelRunning
<1>5. CASE R!Shutdown
  BY <1>5 DEF R!Shutdown, R!WakeAll
<1>6. CASE \E j \in Jobs : R!Submit(j)
  BY <1>1, <1>2, <1>6
<1>7. CASE \E j \in Jobs : R!CancelQueued(j)
  BY <1>1, <1>3, <1>7
<1> QED
  BY <1>4, <1>5, <1>6, <1>7 DEF Handling

LEMMA LoopFacts ==
    ASSUME RP!Inv, R!Worker
    PROVE  /\ workerPc # "running"
           /\ workerPc' \in {"ended", "recording"} =>
                 workerPc = "ended" /\ workerJob' = workerJob /\ outcome' = outcome
           /\ \A j \in Jobs : status'[j] = "COMPLETED" =>
                 \/ status[j] = "COMPLETED"
                 \/ workerPc = "recording" /\ outcome = "output" /\ j = workerJob
<1> USE DEF R!jobVars
<1>1. status \in [Jobs -> RP!Statuses]
  BY DEF RP!Inv, RP!TypeOK
<1>2. CASE R!WorkerWait \/ R!WorkerLeave \/ R!WorkerGone
  BY <1>2 DEF R!WorkerWait, R!WorkerLeave, R!WorkerGone
<1>3. CASE R!WorkerTake
  BY <1>1, <1>3 DEF R!WorkerTake
<1>4. CASE R!RecordOutput \/ R!RecordFailed
  BY <1>1, <1>4 DEF R!RecordOutput, R!FirstWrite, R!RecordFailed
<1>5. CASE R!RecordEnd
  BY <1>1, <1>5 DEF R!RecordEnd
<1> QED
  BY <1>2, <1>3, <1>4, <1>5 DEF R!Worker
-----------------------------------------------------------------------------
(* The inductive invariant of the door: the registry's own, the types, and *)
(* how the render call, the job, its payload and the bucket hang together. *)
DTypes ==
    /\ phase \in [Jobs -> {"none", "pending"} \cup K!Endings]
    /\ asked \in [Jobs -> BOOLEAN]
    /\ clips \subseteq Jobs
    /\ life \in {"open", "stopping", "exited"}
    /\ written \in BOOLEAN
    /\ mainPc \in {"serving", "closing", "shutdown"}
    /\ request \in [Jobs -> Requests \cup {NoRequest}]

(* The call that waits is the one of the job in hand, and only a job that  *)
(* was started has had one.                                                *)
Calls ==
    \A j \in Jobs :
        /\ phase[j] = "pending" => workerPc = "running" /\ workerJob = j
        /\ phase[j] # "none" => status[j] \in {"IN_PROGRESS", "COMPLETED", "FAILED"}

(* An output is on its way only for a job whose clip is there. *)
Results ==
    /\ workerPc \in {"ended", "recording"} /\ outcome = "output" => workerJob \in clips
    /\ \A j \in Jobs : /\ status[j] # "NEW" => request[j] \in Acceptable
                       /\ status[j] = "COMPLETED" => j \in clips

(* What is in the bucket was written by a job that may write it, and what  *)
(* a job wrote is there, be it overwritten by a job of the same names.     *)
Stores ==
    /\ \A e \in store : /\ e.by \in Jobs
                        /\ phase[e.by] # "none"
                        /\ e.key \in Written(request[e.by])
    /\ \A j \in clips : /\ phase[j] # "none"
                        /\ \A k \in Written(request[j]) : \E e \in store : e.key = k

DInv == RP!Inv /\ DTypes /\ Calls /\ Results /\ Stores

LEMMA DInvInit == Init => DInv
<1> SUFFICES ASSUME Init PROVE DInv
  OBVIOUS
<1>1. RP!Inv
  BY SameInit, Registry, RP!InvInit DEF Init
<1>2. DTypes /\ Calls /\ Stores
  BY DEF Init, K!PromiseInit, DTypes, Calls, Stores
<1>3. Results
  BY DEF Init, R!Init, Results
<1> QED
  BY <1>1, <1>2, <1>3 DEF DInv

(* A step of the registry alone. *)
LEMMA RegistryStepKeeps ==
    ASSUME DInv, [Next]_doorVars, Handling \/ R!Worker,
           UNCHANGED <<clientVars, store>>,
           \A j \in Jobs : /\ status[j] # "NEW" => request'[j] = request[j]
                           /\ status'[j] # "NEW" => request'[j] \in Acceptable
    PROVE  Calls' /\ Results' /\ Stores'
<1> USE DEF DInv, clientVars
<1>1. RP!Inv /\ UNCHANGED <<phase, clips, store>>
  OBVIOUS
<1>2. /\ workerPc = "running" => workerPc' = "running" /\ workerJob' = workerJob
      /\ workerPc' \in {"ended", "recording"} =>
            /\ workerPc \in {"ended", "recording"}
            /\ workerJob' = workerJob /\ outcome' = outcome
      /\ \A j \in Jobs : status'[j] = "COMPLETED" =>
            \/ status[j] = "COMPLETED"
            \/ workerPc = "recording" /\ outcome = "output" /\ j = workerJob
  BY <1>1, HandlingFacts, LoopFacts
<1>3. \A j \in Jobs : phase[j] # "none" =>
          /\ status[j] # "NEW"
          /\ status'[j] \in {"IN_PROGRESS", "COMPLETED", "FAILED"}
  <2>1. [RP!Next]_RP!vars
    BY RegistryStep
  <2> TAKE j \in Jobs
  <2>2. /\ status[j] \in RP!Terminal => status'[j] = status[j]
        /\ status[j] = "IN_PROGRESS" => status'[j] \in {"IN_PROGRESS"} \cup RP!Terminal
    BY <1>1, <2>1, Registry, RP!Forward
  <2> QED
    BY <2>2 DEF RP!Terminal, Calls
<1>4. Calls'
  BY <1>1, <1>2, <1>3 DEF Calls
<1>5. Results'
  BY <1>1, <1>2 DEF Results
<1>6. Stores'
  <2>1. \A j \in Jobs : phase[j] # "none" => request'[j] = request[j]
    BY <1>3
  <2>2. ASSUME NEW e \in store
        PROVE  e.by \in Jobs /\ phase[e.by] # "none" /\ e.key \in Written(request'[e.by])
    BY <2>1 DEF Stores
  <2>3. ASSUME NEW j \in clips
        PROVE  phase[j] # "none" /\ \A k \in Written(request'[j]) : \E e \in store : e.key = k
    BY <2>1 DEF Stores, DTypes
  <2> QED
    BY <1>1, <2>2, <2>3 DEF Stores
<1> QED
  BY <1>4, <1>5, <1>6

LEMMA DTypesStep ==
    ASSUME DTypes, [Next]_doorVars, RP!Inv
    PROVE  DTypes'
<1> USE DEF DTypes, clientVars
<1>1. workerPc = "running" => workerJob \in Jobs
  BY DEF RP!Inv, RP!HoldsJob
<1>2. CASE UNCHANGED doorVars
  BY <1>2 DEF doorVars
<1>3. ASSUME NEW j \in Jobs, NEW q \in Requests, PostRun(j, q) PROVE DTypes'
  BY <1>3 DEF PostRun
<1>4. CASE CancelEnds \/ Sigterm \/ RegistryLoop \/ StopRegistry \/ \E j \in Jobs : PostCancel(j)
  BY <1>4 DEF CancelEnds, Sigterm, RegistryLoop, StopRegistry, PostCancel
<1>5. ASSUME NEW j \in Jobs, WorkerUploads(j) PROVE DTypes'
  BY <1>5 DEF WorkerUploads, K!Upload
<1>6. CASE CallRender \/ WorkerReads \/ ShouldCancel
  BY <1>1, <1>6 DEF CallRender, WorkerReads, ShouldCancel, K!Begin, K!Ask
<1>7. ASSUME NEW how \in K!Endings, RenderReturns(how) PROVE DTypes'
  BY <1>1, <1>7 DEF RenderReturns, K!End
<1>8. CASE SecondSigterm \/ StopClient \/ ProcessExits
  BY <1>8 DEF SecondSigterm, StopClient, ProcessExits, K!Stop, K!Exit
<1>9. CASE Thread \/ Finishes
  BY <1>4, <1>6, <1>7, <1>9 DEF Thread, Finishes, K!Endings
<1> QED
  BY <1>2, <1>3, <1>4, <1>5, <1>6, <1>8, <1>9 DEF Next, Main

LEMMA DInvStep ==
    ASSUME DInv, [Next]_doorVars
    PROVE  DInv'
<1>1. RP!Inv'
  BY Registry, RegistryStep, RP!InvStep DEF DInv
<1>2. DTypes'
  BY DTypesStep DEF DInv
<1> SUFFICES Calls' /\ Results' /\ Stores'
  BY <1>1, <1>2 DEF DInv
<1>3. workerPc = "running" => workerJob \in Jobs /\ status[workerJob] = "IN_PROGRESS"
  BY DEF DInv, RP!Inv, RP!HoldsJob, RP!HandInv
<1>4. CASE UNCHANGED doorVars
  BY <1>4 DEF doorVars, registryVars, clientVars, DInv, Calls, Results, Stores
<1>5. ASSUME NEW j \in Jobs, NEW q \in Requests, PostRun(j, q)
      PROVE  Calls' /\ Results' /\ Stores'
  <2>1. /\ status[j] = "NEW" /\ status' = [status EXCEPT ![j] = "IN_QUEUE"]
        /\ request' = [request EXCEPT ![j] = q] /\ q \in Acceptable
    BY <1>5 DEF PostRun, R!Submit
  <2>2. \A i \in Jobs : /\ status[i] # "NEW" => request'[i] = request[i]
                        /\ status'[i] # "NEW" => request'[i] \in Acceptable
    BY <2>1 DEF DInv, DTypes, Results, RP!Inv, RP!TypeOK
  <2>3. Handling /\ UNCHANGED <<clientVars, store>>
    BY <1>5 DEF PostRun, Handling
  <2> QED
    BY <2>2, <2>3, RegistryStepKeeps
<1>6. CASE CancelEnds \/ RegistryLoop \/ StopRegistry \/ \E j \in Jobs : PostCancel(j)
  <2>1. UNCHANGED <<clientVars, store, request>> /\ (Handling \/ R!Worker)
    BY <1>6 DEF CancelEnds, RegistryLoop, StopRegistry, PostCancel, Handling
  <2>2. \A i \in Jobs : status'[i] # "NEW" => status[i] # "NEW"
    BY <1>6 DEF CancelEnds, RegistryLoop, StopRegistry, PostCancel, DInv, RP!Inv, RP!TypeOK,
      R!CancelQueuedEnd, R!CancelQueued, R!CancelRunning, R!MayDrop, R!Shutdown, R!Worker,
      R!WorkerWait, R!WorkerLeave, R!WorkerGone, R!WorkerTake, R!RecordOutput,
      R!FirstWrite, R!RecordFailed, R!RecordEnd, R!jobVars, RP!HoldsJob, RP!HandInv
  <2>3. \A i \in Jobs : /\ status[i] # "NEW" => request'[i] = request[i]
                        /\ status'[i] # "NEW" => request'[i] \in Acceptable
    BY <2>1, <2>2 DEF DInv, Results
  <2> QED
    BY <2>1, <2>3, RegistryStepKeeps
<1>7. CASE WorkerReads \/ ShouldCancel \/ Sigterm \/ SecondSigterm \/ StopClient
           \/ ProcessExits
  <2>1. UNCHANGED <<registryVars, phase, clips, request, store>>
    BY <1>7 DEF WorkerReads, ShouldCancel, Sigterm, SecondSigterm, StopClient, ProcessExits, clientVars,
      K!Ask, K!Stop, K!Exit
  <2> QED
    BY <2>1 DEF registryVars, DInv, Calls, Results, Stores
<1>8. CASE CallRender
  <2>1. /\ workerPc = "running" /\ phase[workerJob] = "none"
        /\ phase' = [phase EXCEPT ![workerJob] = "pending"]
        /\ UNCHANGED <<registryVars, clips, request, store>>
    BY <1>8 DEF CallRender, K!Begin
  <2>2. Calls'
    BY <1>3, <2>1 DEF registryVars, DInv, DTypes, Calls
  <2>3. Results'
    BY <2>1 DEF registryVars, DInv, Results
  <2>4. Stores'
    BY <1>3, <2>1 DEF DInv, DTypes, Stores
  <2> QED
    BY <2>2, <2>3, <2>4
<1>9. ASSUME NEW how \in K!Endings, RenderReturns(how)
      PROVE  Calls' /\ Results' /\ Stores'
  <2>1. /\ workerPc = "running" /\ workerPc' = "ended"
        /\ phase[workerJob] = "pending" /\ phase' = [phase EXCEPT ![workerJob] = how]
        /\ how = "output" => workerJob \in clips
        /\ outcome' = "output" => how = "output"
        /\ UNCHANGED <<status, workerJob, clips, request, store>>
    BY <1>9 DEF RenderReturns, K!End, K!Running, K!MayEnd, K!Endings, R!RunEnds,
      R!RunSeesCancel, R!jobVars
  <2>2. how \notin {"none", "pending"}
    BY DEF K!Endings
  <2>3. Calls'
    BY <1>3, <2>1, <2>2 DEF DInv, DTypes, Calls
  <2>4. Results'
    BY <2>1 DEF DInv, Results
  <2>5. Stores'
    BY <1>3, <2>1, <2>2 DEF DInv, DTypes, Stores
  <2> QED
    BY <2>3, <2>4, <2>5
<1>10. ASSUME NEW j \in Jobs, WorkerUploads(j)
       PROVE  Calls' /\ Results' /\ Stores'
  <2>1. /\ phase[j] # "none" /\ clips' = clips \cup {j}
        /\ store' = {e \in store : e.key \notin Written(request[j])}
                        \cup [key : Written(request[j]), by : {j}]
        /\ UNCHANGED <<registryVars, phase, request>>
    BY <1>10 DEF WorkerUploads, K!Upload, K!MayUpload
  <2>2. Calls' /\ Results'
    BY <2>1 DEF registryVars, DInv, Calls, Results
  <2>3. \A e \in store' : /\ e.by \in Jobs
                          /\ phase[e.by] # "none"
                          /\ e.key \in Written(request[e.by])
    BY <2>1 DEF DInv, Stores
  <2>4. ASSUME NEW i \in clips', NEW k \in Written(request[i])
        PROVE  phase[i] # "none" /\ \E e \in store' : e.key = k
    <3>1. CASE k \in Written(request[j])
      <4>1. [key |-> k, by |-> j] \in store'
        BY <2>1, <3>1
      <4> QED
        BY <2>1, <4>1 DEF DInv, Stores
    <3>2. CASE k \notin Written(request[j])
      <4>1. i \in clips
        BY <2>1, <2>4, <3>2
      <4>2. PICK e \in store : e.key = k
        BY <4>1 DEF DInv, Stores
      <4> QED
        BY <2>1, <3>2, <4>1, <4>2 DEF DInv, Stores
    <3> QED
      BY <3>1, <3>2
  <2>5. \A i \in clips' : phase[i] # "none"
    BY <2>1 DEF DInv, Stores
  <2>6. Stores'
    BY <2>1, <2>3, <2>4, <2>5 DEF Stores
  <2> QED
    BY <2>2, <2>6
<1>11. CASE Thread \/ Finishes \/ Main
  BY <1>6, <1>7, <1>8, <1>9, <1>11 DEF Thread, Finishes, Main, K!Endings
<1> QED
  BY <1>4, <1>5, <1>6, <1>7, <1>10, <1>11 DEF Next

LEMMA DInvariance == Spec => []DInv
<1>1. DInv /\ [Next]_doorVars => DInv'
  BY DInvStep
<1> QED
  BY DInvInit, <1>1, PTL DEF Spec

(* Type correctness of the door. *)
THEOREM TypeCorrect == Spec => []TypeOK
<1>1. DInv => TypeOK
  BY SameType DEF DInv, RP!Inv, DTypes, Stores, TypeOK
<1> QED
  BY DInvariance, <1>1, PTL

(* The registry behaves behind the door as it was proved to on its own, so *)
(* whatever is proved of it holds here.                                    *)
THEOREM DoorRunsRegistry == Spec => RP!Spec
<1>1. Init => RP!Init
  BY SameInit DEF Init
<1> QED
  BY <1>1, RegistryStep, PTL DEF Spec, RP!Spec

(* While the door is open nothing appears in the bucket for a job that has *)
(* ended, which is all that CancelMeansStopped is right about: only the    *)
(* call of the job in hand waits.                                          *)
THEOREM NothingLate == Spec => NoLateClip
<1> DEFINE Timely == \A e \in store' \ store : status[e.by] = "IN_PROGRESS" \/ life # "open"
<1>1. ASSUME DInv, [Next]_doorVars PROVE Timely
  <2>1. CASE \E j \in Jobs : WorkerUploads(j)
    <3>1. PICK j \in Jobs : WorkerUploads(j)
      BY <2>1
    <3>2. \A e \in store' \ store : e.by = j
      BY <3>1 DEF WorkerUploads
    <3>3. phase[j] = "pending" \/ life # "open"
      BY <3>1 DEF WorkerUploads, K!Upload, K!MayUpload
    <3>4. phase[j] = "pending" => status[j] = "IN_PROGRESS"
      BY <1>1 DEF DInv, Calls, RP!Inv, RP!HandInv
    <3> QED
      BY <3>2, <3>3, <3>4
  <2>2. CASE store' = store
    BY <2>2
  <2>3. store' = store \/ \E j \in Jobs : WorkerUploads(j)
    BY <1>1 DEF Next, doorVars, PostRun, PostCancel, CancelEnds, WorkerReads, ShouldCancel, Thread,
      Finishes, Main, Sigterm, SecondSigterm, RegistryLoop, CallRender, RenderReturns,
      StopRegistry, StopClient, ProcessExits
  <2> QED
    BY <2>1, <2>2, <2>3
<1>2. DInv /\ [Next]_doorVars => [Timely]_doorVars
  BY <1>1
<1> QED
  BY DInvariance, <1>2, PTL DEF Spec, NoLateClip

(* What a COMPLETED job names is in the bucket, and it is its own or was   *)
(* written by a job of the same kind and, up to _safe, the same names: no  *)
(* two different templates or names ever spell the same key.               *)
THEOREM CompletedAlwaysStored == Spec => []CompletedIsStored
<1>1. ASSUME DInv, NEW j \in Jobs, status[j] = "COMPLETED", NEW k \in Written(request[j])
      PROVE  \E e \in store :
                /\ e.key = k
                /\ \/ e.by = j
                   \/ /\ request[e.by].action = request[j].action
                      /\ SameNames(request[e.by], request[j])
  <2>1. PICK e \in store : e.key = k
    BY <1>1 DEF DInv, Results, Stores
  <2>2. e.by \in Jobs /\ k \in Written(request[e.by]) /\ status[e.by] # "NEW"
    BY <1>1, <2>1 DEF DInv, Stores, Calls
  <2>3. request[e.by] \in Acceptable /\ request[j] \in Acceptable
    BY <1>1, <2>2 DEF DInv, Results
  <2>4. \A q \in Acceptable : q \in Request /\ Accepted(q, ExpectedToken)
    BY DoorAssumption DEF Acceptable
  <2> QED
    BY <1>1, <2>1, <2>2, <2>3, <2>4, KeysTellNames
<1>2. DInv => CompletedIsStored
  BY <1>1 DEF CompletedIsStored
<1> QED
  BY DInvariance, <1>2, PTL

-----------------------------------------------------------------------------
(* What is in the bucket was written by an accepted job, from its names. *)
LEMMA EntryFacts ==
    ASSUME DInv, NEW e \in store, NEW q, q = request[e.by]
    PROVE  /\ q \in Acceptable /\ q \in Request /\ q.project \in Seq(STRING)
           /\ q.shots \in Seq(Seq(STRING)) /\ ToSet(q.shots) \subseteq Seq(STRING)
           /\ \/ /\ q.action = "preview"
                 /\ \E s \in ToSet(q.shots) : e.key = KeyframeKey(q.project, s)
              \/ /\ q.action = "train_lora"
                 /\ \E s \in ToSet(q.shots) : e.key = LoraKey(q.project, s)
              \/ /\ q.action = "i2v_clip"
                 /\ \E s \in ToSet(q.shots) : e.key = ClipKey(q.project, s)
<1>1. e.by \in Jobs /\ status[e.by] # "NEW" /\ e.key \in Written(q)
  BY DEF DInv, Stores, Calls
<1>2. q \in Acceptable
  BY <1>1 DEF DInv, Results
<1>3. q \in Request /\ q.action \in {"preview", "i2v_clip", "train_lora"}
  BY <1>2, DoorAssumption DEF Acceptable, Accepted, Answer
<1>4. /\ q.project \in Seq(STRING) /\ q.shots \in Seq(Seq(STRING))
      /\ q.action = "i2v_clip" => q.shots # <<>>
  BY <1>3 DEF Request
<1>5. ToSet(q.shots) \subseteq Seq(STRING) /\ (q.shots # <<>> => q.shots[1] \in ToSet(q.shots))
  BY <1>4 DEF ToSet
<1> QED
  BY <1>1, <1>2, <1>3, <1>4, <1>5 DEF Written

(* Everything in the bucket can be named by the requests it was made for   *)
(* and by no others: a clip request may name a key exactly if a preview of *)
(* its project, up to _safe, drew it, and a preview may bind exactly what  *)
(* a training stored, names apart that the patterns refuse.                *)
THEOREM StoredAlwaysNameable == Spec => []StoredCanBeNamed
<1>1. ASSUME DInv, NEW e \in store, NEW q, q = request[e.by]
      PROVE  LET drawn == /\ q.action = "preview" /\ Nameable(q.project)
                          /\ \E s \in ToSet(q.shots) :
                                Plain(s) /\ e.key = KeyframeKey(q.project, s)
                 trained == /\ q.action = "train_lora" /\ Nameable(q.project)
                            /\ \E s \in ToSet(q.shots) :
                                  Nameable(s) /\ e.key = LoraKey(q.project, s)
             IN  /\ \A p \in Projects :
                        KeyMatchesProject(e.key, p) <=> drawn /\ Slug(p) = Slug(q.project)
                 /\ IsSafeLoraKey(e.key) <=> trained
  <2> DEFINE drawn == /\ q.action = "preview" /\ Nameable(q.project)
                      /\ \E s \in ToSet(q.shots) :
                            Plain(s) /\ e.key = KeyframeKey(q.project, s)
             trained == /\ q.action = "train_lora" /\ Nameable(q.project)
                        /\ \E s \in ToSet(q.shots) :
                              Nameable(s) /\ e.key = LoraKey(q.project, s)
  <2>1. q.project \in Seq(STRING) /\ ToSet(q.shots) \subseteq Seq(STRING)
    BY <1>1, EntryFacts
  <2>2. \A p \in Projects : p \in Seq(STRING)
    BY DoorAssumption DEF Projects, Request
  <2>3. CASE /\ q.action = "preview"
             /\ \E s \in ToSet(q.shots) : e.key = KeyframeKey(q.project, s)
    <3>1. drawn <=> Nameable(q.project) /\ \E s \in ToSet(q.shots) :
                                              Plain(s) /\ e.key = KeyframeKey(q.project, s)
      BY <2>3
    <3>2. ASSUME NEW p \in Projects
          PROVE  KeyMatchesProject(e.key, p) <=> drawn /\ Slug(p) = Slug(q.project)
      <4>1. \A s \in ToSet(q.shots) : e.key = KeyframeKey(q.project, s) =>
                (KeyMatchesProject(e.key, p) <=>
                     Nameable(q.project) /\ Plain(s) /\ Slug(p) = Slug(q.project))
        BY <2>1, <2>2, KeyframeNamed
      <4> QED
        BY <2>3, <4>1
    <3>3. ~IsSafeLoraKey(e.key) /\ ~trained
      BY <2>1, <2>3, ClipNeverNamed
    <3> QED
      BY <3>2, <3>3
  <2>4. CASE /\ q.action = "train_lora"
             /\ \E s \in ToSet(q.shots) : e.key = LoraKey(q.project, s)
    <3>1. \A s \in ToSet(q.shots) : e.key = LoraKey(q.project, s) =>
              (IsSafeLoraKey(e.key) <=> Nameable(q.project) /\ Nameable(s))
      BY <2>1, LoraBound
    <3>2. IsSafeLoraKey(e.key) <=> trained
      BY <2>4, <3>1
    <3>3. ~IsSafeKeyframeKey(e.key) /\ ~drawn
      BY <2>1, <2>4, LoraBound
    <3> QED
      BY <3>2, <3>3 DEF KeyMatchesProject
  <2>5. CASE /\ q.action = "i2v_clip"
             /\ \E s \in ToSet(q.shots) : e.key = ClipKey(q.project, s)
    <3>1. ~IsSafeKeyframeKey(e.key) /\ ~IsSafeLoraKey(e.key) /\ ~drawn /\ ~trained
      BY <2>1, <2>5, ClipNeverNamed
    <3> QED
      BY <3>1 DEF KeyMatchesProject
  <2> QED
    BY <1>1, <2>3, <2>4, <2>5, EntryFacts
<1>2. DInv => StoredCanBeNamed
  BY <1>1 DEF StoredCanBeNamed
<1> QED
  BY DInvariance, <1>2, PTL
-----------------------------------------------------------------------------
(* What a clip job reads, if it is there, was drawn by a preview of its    *)
(* own project, up to _safe, and, unless the request names the key itself, *)
(* of its own shot: never another project's picture, a clip or a LoRA,     *)
(* whoever wrote the key last.                                             *)
ReadsItsOwn ==
    \A e \in store, q \in Acceptable :
        q.action = "i2v_clip" /\ e.key = KeyframeOf(q) =>
            LET drawn == request[e.by]
            IN  /\ drawn.action = "preview"
                /\ Slug(drawn.project) = Slug(q.project)
                /\ q.key = <<>> => \E s \in ToSet(drawn.shots) : Slug(s) = Slug(q.shots[1])

(* A clip is made from a picture of its own project and shot. *)
THEOREM ClipsReadTheirOwn == Spec => []ReadsItsOwn
<1>1. ASSUME DInv, NEW e \in store, NEW q \in Acceptable, q.action = "i2v_clip",
             e.key = KeyframeOf(q), NEW w, w = request[e.by]
      PROVE  /\ w.action = "preview"
             /\ Slug(w.project) = Slug(q.project)
             /\ q.key = <<>> => \E s \in ToSet(w.shots) : Slug(s) = Slug(q.shots[1])
  <2>1. q \in Request /\ ClipOk(q)
    <3>1. q \in Request /\ Accepted(q, ExpectedToken)
      BY DoorAssumption DEF Acceptable
    <3> QED
      BY <1>1, <3>1 DEF Accepted, Answer
  <2>2. w.project \in Seq(STRING) /\ ToSet(w.shots) \subseteq Seq(STRING)
    BY <1>1, EntryFacts
  <2>3. ASSUME NEW s \in ToSet(w.shots)
        PROVE  /\ e.key = KeyframeKey(w.project, s) =>
                     /\ Slug(w.project) = Slug(q.project)
                     /\ q.key = <<>> => Slug(s) = Slug(q.shots[1])
               /\ e.key # ClipKey(w.project, s) /\ e.key # LoraKey(w.project, s)
    BY <1>1, <2>1, <2>2, KeyframeIsOwn
  <2>4. \/ /\ w.action = "preview"
           /\ \E s \in ToSet(w.shots) : e.key = KeyframeKey(w.project, s)
        \/ \E s \in ToSet(w.shots) : \/ e.key = LoraKey(w.project, s)
                                     \/ e.key = ClipKey(w.project, s)
    BY <1>1, EntryFacts
  <2> QED
    BY <2>3, <2>4
<1>2. DInv => ReadsItsOwn
  BY <1>1 DEF ReadsItsOwn
<1> QED
  BY DInvariance, <1>2, PTL
-----------------------------------------------------------------------------
(* The promises the door keeps and rests on, seen through all its threads. *)

(* The studio sees the lifecycle it was promised: what JobRegistryProofs   *)
(* shows of the registry on its own holds of it in the serving door.       *)
THEOREM DoorKeepsLifecycle == Spec => RP!ImplementsLifecycle
BY DoorRunsRegistry, RP!Implementation, Registry

(* The door asks of the render client only what RenderPromise offers, one  *)
(* call at a time, each for the job in hand: this is what RenderClient,    *)
(* which implements RenderPromise, is put to.                              *)
THEOREM DoorUsesPromise == Spec => K!PromiseSpec
<1>1. Init => K!PromiseInit
  BY DEF Init
<1>2. DInv /\ [Next]_doorVars => [K!PromiseNext]_K!promiseVars
  <2> SUFFICES ASSUME DInv, [Next]_doorVars PROVE [K!PromiseNext]_K!promiseVars
    OBVIOUS
  <2>1. workerPc = "running" => workerJob \in Jobs
    BY DEF DInv, RP!Inv, RP!HoldsJob
  <2>2. CASE UNCHANGED clientVars
    BY <2>2 DEF clientVars, K!promiseVars
  <2>3. ASSUME NEW j \in Jobs, WorkerUploads(j) PROVE K!PromiseNext
    BY <2>3 DEF WorkerUploads, K!PromiseNext
  <2>4. CASE CallRender \/ ShouldCancel
    BY <2>1, <2>4 DEF CallRender, ShouldCancel, K!PromiseNext
  <2>10. CASE WorkerReads
    BY <2>10 DEF WorkerReads, K!promiseVars
  <2>5. ASSUME NEW how \in K!Endings, RenderReturns(how) PROVE K!PromiseNext
    BY <2>1, <2>5 DEF RenderReturns, K!PromiseNext
  <2>6. CASE StopClient \/ SecondSigterm \/ ProcessExits
    BY <2>6 DEF StopClient, SecondSigterm, ProcessExits, K!PromiseNext
  <2>7. CASE UNCHANGED doorVars \/ CancelEnds \/ RegistryLoop \/ Sigterm \/ StopRegistry
    BY <2>2, <2>7 DEF doorVars, CancelEnds, RegistryLoop, Sigterm, StopRegistry
  <2>8. CASE \E j \in Jobs : PostCancel(j) \/ \E q \in Requests : PostRun(j, q)
    BY <2>2, <2>8 DEF PostCancel, PostRun
  <2>9. CASE Thread \/ Finishes
    BY <2>4, <2>5, <2>7, <2>9 DEF Thread, Finishes, K!Endings
  <2> QED
    BY <2>3, <2>4, <2>6, <2>7, <2>8, <2>9, <2>10 DEF Next, Main
<1> QED
  BY DInvariance, <1>1, <1>2, PTL DEF Spec, K!PromiseSpec
=============================================================================
