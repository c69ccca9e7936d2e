---------------------------- MODULE JobRegistry -----------------------------
(***************************************************************************)
(* JobRegistry of src/src/vivijure_local/core/jobs.py: the queue of jobs,  *)
(* the one background thread that runs them, /cancel, the bounded          *)
(* retention of ended jobs, and the /status envelope.                      *)
(*                                                                         *)
(* Three kinds of thread meet here: the HTTP handler threads (submit,      *)
(* cancel, get + status_dict), the worker thread (_run_loop) and the main  *)
(* thread (shutdown).  self._lock makes most methods one step.  A write of *)
(* two Job fields is two steps although the lock is held across both,      *)
(* because status_dict reads the Job WITHOUT the lock.                     *)
(*                                                                         *)
(* The render itself (run_fn) is abstract: it returns, raises, or sees the *)
(* cancel flag and raises Cancelled; RenderClient models what it does.     *)
(* Left out: LOG_JOBS audit lines, the text of an error, the payloads.     *)
(***************************************************************************)
EXTENDS Naturals, Sequences, SequencesExt

CONSTANTS Jobs,          \* the ids uuid4 hands out, one per accepted submit
          NoJob,         \* no job (Python's None)
          MaxCompleted,  \* max_completed: how many ended jobs are retained
          Pollers        \* the HTTP threads that serve GET /status/<id>

ASSUME RegistryAssumption ==
    /\ NoJob \notin Jobs
    /\ MaxCompleted \in Nat

VARIABLES
    status, output, error, cancelFlag,  \* the fields of the Job objects
    known,           \* the keys of self._jobs
    queue,           \* self._queue
    completedOrder,  \* self._completed_order
    stop,            \* self._stop
    lock,            \* self._lock: "free", or who holds it between two steps
    canceling,       \* the job whose failure a /cancel thread is writing
    workerPc,        \* where the worker thread is
    workerJob,       \* its local job_id
    outcome,         \* what run_fn ended with, not recorded yet
    poll,            \* poller -> the envelope it is building
    reply            \* poller -> the last answer it gave

jobVars  == <<status, output, error, cancelFlag>>
pollVars == <<poll, reply>>
vars == <<status, output, error, cancelFlag, known, queue, completedOrder, stop,
          lock, canceling, workerPc, workerJob, outcome, poll, reply>>

None     == "none"
Terminal == {"COMPLETED", "FAILED"}
Statuses == {"NEW", "IN_QUEUE", "IN_PROGRESS"} \cup Terminal
Outcomes == {"output", "canceled", "error"}
Errors   == {"canceled before start", "canceled", "render error"}

Live == {j \in Jobs : status[j] \in {"IN_QUEUE", "IN_PROGRESS"}}
-----------------------------------------------------------------------------
NoEnvelope == [at |-> "idle", job |-> NoJob, status |-> None,
               output |-> None, error |-> None]

Init ==
    /\ status = [j \in Jobs |-> "NEW"]
    /\ output = [j \in Jobs |-> None]
    /\ error = [j \in Jobs |-> None]
    /\ cancelFlag = [j \in Jobs |-> FALSE]
    /\ known = {}
    /\ queue = <<>>
    /\ completedOrder = <<>>
    /\ stop = FALSE
    /\ lock = "free"
    /\ canceling = NoJob
    /\ workerPc = "none"
    /\ workerJob = NoJob
    /\ outcome = None
    /\ poll = [p \in Pollers |-> NoEnvelope]
    /\ reply = [p \in Pollers |-> NoEnvelope]
-----------------------------------------------------------------------------
(* Some operators below stand beside a broken twin, named for its slip (as *)
(* RetainOneMore): a change of the code a test could miss.  No action uses *)
(* a twin; it is what the properties are tried against.                    *)

(* _retain_locked: note the end of j, then forget the oldest ended jobs    *)
(* until at most MaxCompleted are left.                                    *)
RetainOneMore(j) ==
    LET order == Append(completedOrder, j)
        over  == IF Len(order) > MaxCompleted + 1 THEN 1 ELSE 0
    IN  /\ completedOrder' = SubSeq(order, over + 1, Len(order))
        /\ known' = known \ {order[i] : i \in 1..over}

Retain(j) ==
    LET order == Append(completedOrder, j)
        over  == IF Len(order) > MaxCompleted THEN Len(order) - MaxCompleted ELSE 0
    IN  /\ completedOrder' = SubSeq(order, over + 1, Len(order))
        /\ known' = known \ {order[i] : i \in 1..over}

(* _ensure_worker_locked starts a thread if there is none that is alive    *)
(* ("leaving" still is); the notify of submit wakes it if it waits.        *)
EnsureWorkerAlways == workerPc' = "check"

EnsureWorker ==
    workerPc' = IF workerPc \in {"none", "waiting"} THEN "check" ELSE workerPc

(* submit *)
Submit(j) ==
    /\ lock = "free"
    /\ status[j] = "NEW"
    /\ status' = [status EXCEPT ![j] = "IN_QUEUE"]
    /\ known' = known \cup {j}
    /\ queue' = Append(queue, j)
    /\ EnsureWorker
    /\ UNCHANGED <<output, error, cancelFlag, completedOrder, stop, lock,
                   canceling, workerJob, outcome, pollVars>>

(* Only a job that waits can be dropped without asking its render. *)
MayDropEnded(j) == status[j] # "IN_PROGRESS"

MayDrop(j) == status[j] = "IN_QUEUE"

(* deque.remove takes the first entry; that there is none is ignored. *)
DequeueNothing(j) == UNCHANGED queue

Dequeue(j) ==
    IF j \in ToSet(queue)
    THEN \E i \in DOMAIN queue :
           /\ queue[i] = j
           /\ \A k \in 1..(i - 1) : queue[k] # j
           /\ queue' = RemoveAt(queue, i)
    ELSE UNCHANGED queue

(* cancel of a queued job: out of the queue and FAILED; the error text and *)
(* the retention follow before the lock is released.  (A cancel of an      *)
(* unknown or ended job changes nothing.)                                  *)
CancelQueued(j) ==
    /\ lock = "free"
    /\ j \in known
    /\ MayDrop(j)
    /\ Dequeue(j)
    /\ status' = [status EXCEPT ![j] = "FAILED"]
    /\ lock' = "cancel"
    /\ canceling' = j
    /\ UNCHANGED <<output, error, cancelFlag, known, completedOrder, stop,
                   workerPc, workerJob, outcome, pollVars>>

CancelQueuedEnd ==
    /\ lock = "cancel"
    /\ error' = [error EXCEPT ![canceling] = "canceled before start"]
    /\ Retain(canceling)
    /\ lock' = "free"
    /\ canceling' = NoJob
    /\ UNCHANGED <<status, output, cancelFlag, queue, stop, workerPc, workerJob,
                   outcome, pollVars>>

(* cancel of the running job: only a flag, run_fn sees it when it asks. *)
MayFlagAny(j) == TRUE

MayFlag(j) == status[j] = "IN_PROGRESS"

CancelRunning(j) ==
    /\ lock = "free"
    /\ j \in known
    /\ MayFlag(j)
    /\ cancelFlag' = [cancelFlag EXCEPT ![j] = TRUE]
    /\ UNCHANGED <<status, output, error, known, queue, completedOrder, stop, lock,
                   canceling, workerPc, workerJob, outcome, pollVars>>

WakeAll == workerPc' = IF workerPc = "waiting" THEN "check" ELSE workerPc

Shutdown ==
    /\ lock = "free"
    /\ ~stop
    /\ stop' = TRUE
    /\ WakeAll
    /\ UNCHANGED <<jobVars, known, queue, completedOrder, lock, canceling,
                   workerJob, outcome, pollVars>>
-----------------------------------------------------------------------------
(* _run_loop.  "check" is a thread that runs or wakes and is about to test *)
(* the queue under the lock; "waiting" sits in self._wake.wait().          *)
WorkerWait ==
    /\ workerPc = "check" /\ lock = "free"
    /\ queue = <<>> /\ ~stop
    /\ workerPc' = "waiting"
    /\ UNCHANGED <<jobVars, known, queue, completedOrder, stop, lock, canceling,
                   workerJob, outcome, pollVars>>

(* The thread returns.  Until it is gone is_alive() still says True, so a  *)
(* submit in between starts no other.                                      *)
MayLeave == stop /\ queue = <<>>

WorkerLeave ==
    /\ workerPc = "check" /\ lock = "free"
    /\ MayLeave
    /\ workerPc' = "leaving"
    /\ UNCHANGED <<jobVars, known, queue, completedOrder, stop, lock, canceling,
                   workerJob, outcome, pollVars>>

WorkerGone ==
    /\ workerPc = "leaving"
    /\ workerPc' = "none"
    /\ UNCHANGED <<jobVars, known, queue, completedOrder, stop, lock, canceling,
                   workerJob, outcome, pollVars>>

(* self._queue.popleft() *)
PopNewest(j) == j = Last(queue) /\ queue' = Front(queue)

Pop(j) == j = Head(queue) /\ queue' = Tail(queue)

(* Take the oldest job.  One that is no longer queued is skipped; the code *)
(* also fails a queued job whose flag is set, which no caller can bring    *)
(* about (the flag is only set while IN_PROGRESS): see FlagOnlyWhenStarted.*)
WorkerTake ==
    /\ workerPc = "check" /\ lock = "free"
    /\ queue # <<>>
    /\ \E j \in Jobs :
         /\ Pop(j)
         /\ IF j \in known /\ status[j] = "IN_QUEUE"
            THEN /\ status' = [status EXCEPT ![j] = "IN_PROGRESS"]
                 /\ workerPc' = "running"
                 /\ workerJob' = j
            ELSE UNCHANGED <<status, workerPc, workerJob>>
    /\ UNCHANGED <<output, error, cancelFlag, known, completedOrder, stop, lock,
                   canceling, outcome, pollVars>>

(* run_fn, outside the lock: it returns a dict, raises an error, or asks   *)
(* should_cancel (_is_cancelled, under the lock) and raises Cancelled.     *)
RunEnds(o) ==
    /\ workerPc = "running"
    /\ workerPc' = "ended"
    /\ outcome' = o
    /\ UNCHANGED <<jobVars, known, queue, completedOrder, stop, lock, canceling,
                   workerJob, pollVars>>

IsCancelled == workerJob \in known /\ cancelFlag[workerJob]

RunSeesCancel ==
    /\ workerPc = "running" /\ lock = "free"
    /\ IsCancelled
    /\ workerPc' = "ended"
    /\ outcome' = "canceled"
    /\ UNCHANGED <<jobVars, known, queue, completedOrder, stop, lock, canceling,
                   workerJob, pollVars>>

(* The end of a run is recorded under the lock in two writes: the output   *)
(* before the status, but the status before the error.                     *)
FirstWriteStatus ==
    /\ status' = [status EXCEPT ![workerJob] = "COMPLETED"]
    /\ UNCHANGED output

FirstWrite ==
    /\ output' = [output EXCEPT ![workerJob] = "output"]
    /\ UNCHANGED status

RecordOutput ==
    /\ workerPc = "ended" /\ lock = "free" /\ outcome = "output"
    /\ FirstWrite
    /\ lock' = "worker"
    /\ workerPc' = "recording"
    /\ UNCHANGED <<error, cancelFlag, known, queue, completedOrder, stop,
                   canceling, workerJob, outcome, pollVars>>

RecordFailed ==
    /\ workerPc = "ended" /\ lock = "free" /\ outcome # "output"
    /\ status' = [status EXCEPT ![workerJob] = "FAILED"]
    /\ lock' = "worker"
    /\ workerPc' = "recording"
    /\ UNCHANGED <<output, error, cancelFlag, known, queue, completedOrder, stop,
                   canceling, workerJob, outcome, pollVars>>

ErrorRaw == outcome

ErrorText == IF outcome = "canceled" THEN "canceled" ELSE "render error"

RecordEnd ==
    /\ workerPc = "recording"
    /\ IF outcome = "output"
       THEN /\ status' = [status EXCEPT ![workerJob] = "COMPLETED"]
            /\ UNCHANGED error
       ELSE /\ error' = [error EXCEPT ![workerJob] = ErrorText]
            /\ UNCHANGED status
    /\ Retain(workerJob)
    /\ lock' = "free"
    /\ workerPc' = "check"
    /\ workerJob' = NoJob
    /\ outcome' = None
    /\ UNCHANGED <<output, cancelFlag, queue, stop, canceling, pollVars>>
-----------------------------------------------------------------------------
(* GET /status/<id>: get() finds the Job under the lock (or answers 404),  *)
(* then status_dict reads it field by field without the lock.  A field is  *)
(* read in one step with the status test before it: between the two reads  *)
(* only the status test can come out otherwise, and it has been made.      *)
Answer(p, envelope) ==
    /\ reply' = [reply EXCEPT ![p] = envelope]
    /\ poll' = [poll EXCEPT ![p] = NoEnvelope]

PollGet(p, j) ==
    /\ poll[p].at = "idle" /\ lock = "free"
    /\ status[j] # "NEW"
    /\ IF j \in known
       THEN /\ poll' = [poll EXCEPT ![p] = [NoEnvelope EXCEPT !.at = "status", !.job = j]]
            /\ UNCHANGED reply
       ELSE Answer(p, [NoEnvelope EXCEPT !.job = j, !.status = "404"])
    /\ UNCHANGED <<jobVars, known, queue, completedOrder, stop, lock, canceling,
                   workerPc, workerJob, outcome>>

PollStatus(p) ==
    /\ poll[p].at = "status"
    /\ poll' = [poll EXCEPT ![p].at = "output", ![p].status = status[poll[p].job]]
    /\ UNCHANGED <<jobVars, known, queue, completedOrder, stop, lock, canceling,
                   workerPc, workerJob, outcome, reply>>

PollOutput(p) ==
    /\ poll[p].at = "output"
    /\ LET j == poll[p].job IN
         poll' = [poll EXCEPT ![p].at = "error",
                              ![p].output = IF status[j] = "COMPLETED" THEN output[j] ELSE None]
    /\ UNCHANGED <<jobVars, known, queue, completedOrder, stop, lock, canceling,
                   workerPc, workerJob, outcome, reply>>

PollError(p) ==
    /\ poll[p].at = "error"
    /\ LET j == poll[p].job IN
         Answer(p, [poll[p] EXCEPT !.at = "idle",
                                   !.error = IF status[j] = "FAILED" THEN error[j] ELSE None])
    /\ UNCHANGED <<jobVars, known, queue, completedOrder, stop, lock, canceling,
                   workerPc, workerJob, outcome>>
-----------------------------------------------------------------------------
Handler ==
    \/ \E j \in Jobs : Submit(j) \/ CancelQueued(j) \/ CancelRunning(j)
    \/ CancelQueuedEnd

Run == RunSeesCancel \/ \E o \in {"output", "error"} : RunEnds(o)

Worker == WorkerWait \/ WorkerLeave \/ WorkerGone \/ WorkerTake
              \/ RecordOutput \/ RecordFailed \/ RecordEnd

Poll == \E p \in Pollers :
          \/ \E j \in Jobs : PollGet(p, j)
          \/ PollStatus(p) \/ PollOutput(p) \/ PollError(p)

Next == Handler \/ Shutdown \/ Worker \/ Run \/ Poll

Spec == Init /\ [][Next]_vars

-----------------------------------------------------------------------------
(* Type invariant: what each field of the registry, of a Job, of the       *)
(* worker thread and of a status handler can hold.                         *)
Envelopes == [at     : {"idle", "status", "output", "error"},
              job    : Jobs \cup {NoJob},
              status : Statuses \cup {None, "404"},
              output : {None, "output"},
              error  : Errors \cup {None}]

TypeOK ==
    /\ status \in [Jobs -> Statuses]
    /\ output \in [Jobs -> {None, "output"}]
    /\ error \in [Jobs -> Errors \cup {None}]
    /\ cancelFlag \in [Jobs -> BOOLEAN]
    /\ known \subseteq Jobs
    /\ queue \in Seq(Jobs)
    /\ completedOrder \in Seq(Jobs)
    /\ stop \in BOOLEAN
    /\ lock \in {"free", "cancel", "worker"}
    /\ canceling \in Jobs \cup {NoJob}
    /\ workerPc \in {"none", "check", "waiting", "leaving",
                     "running", "ended", "recording"}
    /\ workerJob \in Jobs \cup {NoJob}
    /\ outcome \in Outcomes \cup {None}
    /\ poll \in [Pollers -> Envelopes]
    /\ reply \in [Pollers -> Envelopes]

NoDuplicates(s) == \A i, k \in DOMAIN s : s[i] = s[k] => i = k

(* The card runs one job at a time (jobs.py:8): a job is IN_PROGRESS only  *)
(* while the worker thread holds it, whatever cancels and submits do.      *)
Serial ==
    \A j \in Jobs : status[j] = "IN_PROGRESS" =>
        j = workerJob /\ workerPc \in {"running", "ended", "recording"}

(* _queue and the statuses never disagree: the queue holds every IN_QUEUE  *)
(* job exactly once and nothing else, so no accepted job is ever lost and  *)
(* none is started twice.                                                  *)
QueueExact ==
    /\ NoDuplicates(queue)
    /\ ToSet(queue) = {j \in Jobs : status[j] = "IN_QUEUE"}

(* Retention (_retain_locked) forgets only what it may: when nobody is     *)
(* half way through a write, the registry answers for exactly the live     *)
(* jobs and the retained ended ones, each retained once, at most           *)
(* max_completed of them, and it has forgotten a job only if that many     *)
(* others are retained.  A 404 for a live job would make the studio give   *)
(* a running render up as lost.                                            *)
RetentionExact ==
    lock = "free" =>
        /\ known = Live \cup ToSet(completedOrder)
        /\ NoDuplicates(completedOrder)
        /\ ToSet(completedOrder) \subseteq {j \in Jobs : status[j] \in Terminal}
        /\ Len(completedOrder) <= MaxCompleted
        /\ (\E j \in Jobs : status[j] # "NEW" /\ j \notin known)
               => Len(completedOrder) = MaxCompleted

(* A queued job never carries the cancel flag, so the branch of _run_loop  *)
(* that fails a flagged job it has just taken (jobs.py:161) is dead, and   *)
(* a job fails as "canceled" only if a cancel found it running.            *)
FlagOnlyWhenStarted ==
    \A j \in Jobs :
        /\ cancelFlag[j] => status[j] \in {"IN_PROGRESS"} \cup Terminal
        /\ error[j] = "canceled" => cancelFlag[j]

(* A /status answer that says COMPLETED carries the output and no error,   *)
(* although it is put together without the lock while the worker writes:   *)
(* the studio reads the clip's key from exactly this answer.               *)
CompletedCarriesOutput ==
    \A p \in Pollers : reply[p].status = "COMPLETED" =>
        reply[p].output = "output" /\ reply[p].error = None

(* An answer that says FAILED says why: the registry tests read the error  *)
(* of a job as soon as they see it FAILED (tests/test_jobs.py:36-37, 54-55,*)
(* 76-77).  The code writes the status first, so this does not hold.       *)
FailedSaysWhy ==
    \A p \in Pollers : reply[p].status = "FAILED" => reply[p].error # None

(* The studio polls until the status is terminal.  Two answers to the same *)
(* poller about the same job: after COMPLETED or FAILED comes the same     *)
(* status or (evicted) 404, after 404 only 404, after IN_PROGRESS never    *)
(* IN_QUEUE.                                                               *)
AnswersNeverGoBack ==
    [][\A p \in Pollers :
          LET old == reply[p]
              new == reply'[p]
          IN  new.job = old.job =>
                /\ old.status = "404" => new.status = "404"
                /\ old.status \in Terminal => new.status \in {old.status, "404"}
                /\ old.status = "IN_PROGRESS" => new.status # "IN_QUEUE"]_vars

(* The registry implements the lifecycle the studio is promised: each of   *)
(* its steps is one step of the abstract job lifecycle or invisible there. *)
Lifecycle == INSTANCE JobLifecycle WITH phase <- status, line <- queue

ImplementsLifecycle == Lifecycle!LifecycleSpec
=============================================================================
