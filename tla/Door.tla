-------------------------------- MODULE Door --------------------------------
(***************************************************************************)
(* The serving door: what serve and route of core/server.py make of the    *)
(* registry, the render client and the bucket.                             *)
(*                                                                         *)
(* POST /run passes the contract (Contract) and becomes a job of the       *)
(* registry (JobRegistry, with no poller); the registry's thread hands it  *)
(* to client.render (RenderPromise, which RenderClient implements); the    *)
(* worker writes what the job makes to R2; the main thread serves until    *)
(* SIGTERM, then stops the registry, the client and the process.  A job    *)
(* reads and writes under keys made of names its caller chose.             *)
(*                                                                         *)
(* The uploads of one job are one step here (RenderCard counts them).      *)
(***************************************************************************)
EXTENDS Contract

CONSTANTS Jobs, NoJob, MaxCompleted,
          Requests,      \* the bodies callers may POST to /run
          LongRequests,  \* those whose command line does not fit the worker's pipe
          ExpectedToken  \* LOCAL_BACKEND_TOKEN

ASSUME DoorAssumption ==
    /\ NoJob \notin Jobs
    /\ MaxCompleted \in Nat
    /\ Requests \subseteq Request
    /\ LongRequests \subseteq Requests

VARIABLES
    status, output, error, cancelFlag, known, queue, completedOrder, stop,
    lock, canceling, workerPc, workerJob, outcome,   \* JobRegistry
    phase, asked, clips, life,                       \* RenderPromise
    written,   \* the worker has the command line of the render that goes on
    mainPc,    \* the main thread: serving, closing, shutdown (of the client)
    request,   \* the payload of each accepted job
    store      \* the bucket: who wrote each key last

R == INSTANCE JobRegistry WITH Pollers <- {}, poll <- <<>>, reply <- <<>>
K == INSTANCE RenderPromise WITH Renders <- Jobs

registryVars == <<status, output, error, cancelFlag, known, queue, completedOrder,
                  stop, lock, canceling, workerPc, workerJob, outcome>>
clientVars   == <<phase, asked, clips, life, written>>
doorVars     == <<registryVars, clientVars, mainPc, request, store>>

NoRequest == <<>>

Up == life # "exited"

Init ==
    /\ R!Init
    /\ K!PromiseInit
    /\ written = FALSE
    /\ mainPc = "serving"
    /\ request = [j \in Jobs |-> NoRequest]
    /\ store = {}
-----------------------------------------------------------------------------
(* The handler threads.  They are daemons that server_close does not wait  *)
(* for, so one that is under way submits or cancels until the process is   *)
(* gone.  A request that is refused changes nothing.                       *)
Acceptable == {q \in Requests : Accepted(q, ExpectedToken)}

PostRun(j, q) ==
    /\ Up
    /\ q \in Acceptable
    /\ R!Submit(j)
    /\ request' = [request EXCEPT ![j] = q]
    /\ UNCHANGED <<clientVars, mainPc, store>>

PostCancel(j) ==
    /\ Up
    /\ R!CancelQueued(j) \/ R!CancelRunning(j)
    /\ UNCHANGED <<clientVars, mainPc, request, store>>

CancelEnds ==
    /\ Up
    /\ R!CancelQueuedEnd
    /\ UNCHANGED <<clientVars, mainPc, request, store>>
-----------------------------------------------------------------------------
(* The registry's thread: its loop, and run_fn, which is client.render.  A *)
(* command line that the pipe holds is written at once; a longer one only  *)
(* while the worker, which may hang at its start, reads it.                *)
RegistryLoop ==
    /\ Up
    /\ R!Worker
    /\ UNCHANGED <<clientVars, mainPc, request, store>>

CallRender ==
    /\ workerPc = "running"
    /\ K!Begin(workerJob)
    /\ written' = (request[workerJob] \notin LongRequests)
    /\ UNCHANGED <<registryVars, mainPc, request, store>>

WorkerReads ==
    /\ workerPc = "running" /\ K!Running(workerJob)
    /\ ~written
    /\ written' = TRUE
    /\ UNCHANGED <<registryVars, phase, asked, clips, life, mainPc, request, store>>

(* should_cancel asks the registry, once a poll interval, and not while    *)
(* the command line is being written.                                      *)
NeverLooks == FALSE

Looks == R!IsCancelled

ShouldCancel ==
    /\ workerPc = "running" /\ lock = "free"
    /\ written
    /\ Looks
    /\ ~asked[workerJob]
    /\ K!Ask(workerJob)
    /\ UNCHANGED <<registryVars, written, mainPc, request, store>>

RenderReturns(how) ==
    /\ workerPc = "running"
    /\ K!End(workerJob, how)
    /\ CASE how = "output"    -> R!RunEnds("output")
         [] how = "cancelled" -> R!RunSeesCancel
         [] OTHER             -> R!RunEnds("error")
    /\ written' = FALSE
    /\ UNCHANGED <<mainPc, request, store>>

(* The worker process, as far as the bucket shows it.  An i2v job that     *)
(* finds no keyframe under the key it reads uploads nothing.               *)
FindsInput(q) ==
    q.action = "i2v_clip" => \E e \in store : e.key = KeyframeOf(q)

WorkerUploads(j) ==
    /\ K!Upload(j)
    /\ j \notin clips
    /\ phase[j] = "pending" => written
    /\ FindsInput(request[j])
    /\ store' = {e \in store : e.key \notin Written(request[j])}
                    \cup [key : Written(request[j]), by : {j}]
    /\ UNCHANGED <<registryVars, written, mainPc, request>>
-----------------------------------------------------------------------------
(* The main thread: serve_forever, and the finally block of serve.         *)
Sigterm ==
    /\ mainPc = "serving"
    /\ mainPc' = "closing"
    /\ UNCHANGED <<registryVars, clientVars, request, store>>

StopRegistry ==
    /\ mainPc = "closing"
    /\ R!Shutdown
    /\ mainPc' = "shutdown"
    /\ UNCHANGED <<clientVars, request, store>>

StopClient ==
    /\ mainPc = "shutdown"
    /\ K!Stop
    /\ UNCHANGED <<registryVars, written, mainPc, request, store>>

(* A second one raises SystemExit in the finally block, and the rest of it *)
(* is skipped.                                                             *)
SecondSigterm ==
    /\ mainPc = "closing"
    /\ K!Stop
    /\ mainPc' = "shutdown"
    /\ UNCHANGED <<registryVars, written, request, store>>

ProcessExits ==
    /\ K!Exit
    /\ UNCHANGED <<registryVars, written, mainPc, request, store>>
-----------------------------------------------------------------------------
Finishes == \E how \in {"died", "error", "output"} : RenderReturns(how)

Thread == RegistryLoop \/ CallRender \/ RenderReturns("cancelled")

Main == StopRegistry \/ StopClient \/ ProcessExits

Next ==
    \/ \E j \in Jobs : \/ \E q \in Requests : PostRun(j, q)
                       \/ PostCancel(j) \/ WorkerUploads(j)
    \/ CancelEnds \/ WorkerReads \/ ShouldCancel \/ Thread \/ Finishes
    \/ Sigterm \/ SecondSigterm \/ Main

Spec == Init /\ [][Next]_doorVars

(* The threads are scheduled; once its command is written, render polls    *)
(* should_cancel and, asked to, ends (RenderClient: CancelEndsRender);     *)
(* shutdown ends (ShutdownExits).                                          *)
LiveSpec ==
    /\ Spec
    /\ WF_doorVars(Thread) /\ WF_doorVars(CancelEnds) /\ WF_doorVars(ShouldCancel)
    /\ WF_doorVars(Main)

(* The engine never hangs: assumptions that only some properties make.  A  *)
(* command that the pipe holds is written at once, so the second one is    *)
(* about a long one, and about a worker that hangs before it reads it.     *)
RendersEnd == WF_doorVars(Finishes)

Writing(j) == phase[j] = "pending" /\ ~written

StartsEnd(j) == []<>~Writing(j)
-----------------------------------------------------------------------------
(* Type invariant. *)
TypeOK ==
    /\ R!TypeOK
    /\ phase \in [Jobs -> {"none", "pending"} \cup K!Endings]
    /\ asked \in [Jobs -> BOOLEAN]
    /\ clips \subseteq Jobs
    /\ life \in {"open", "stopping", "exited"}
    /\ written \in BOOLEAN
    /\ mainPc \in {"serving", "closing", "shutdown"}
    /\ request \in [Jobs -> Requests \cup {NoRequest}]
    /\ \A e \in store : e.by \in Jobs /\ e.key \in Written(request[e.by])

(* COMPLETED is believed: the studio fetches what the job names, so it is  *)
(* in the bucket, and it is the job's own unless another job of names that *)
(* _safe makes equal wrote it.                                             *)
CompletedIsStored ==
    \A j \in Jobs : status[j] = "COMPLETED" =>
        \A k \in Written(request[j]) :
            \E e \in store :
                /\ e.key = k
                /\ \/ e.by = j
                   \/ /\ request[e.by].action = request[j].action
                      /\ SameNames(request[e.by], request[j])

(* The studio takes a clip in R2 for a finished shot (contract.py:178), so *)
(* until shutdown nothing appears there for a job that is not in progress, *)
(* that is, for one whose end can be read in /status.                      *)
NoLateClip ==
    [][\A e \in store' \ store :
          status[e.by] = "IN_PROGRESS" \/ life # "open"]_doorVars

(* "always ok (the contract reads ok as 'not running')" (server.py:138);   *)
(* "True if the job is now guaranteed not to keep running (dropped from    *)
(* the queue, flagged for cooperative abort, ...)" (jobs.py:119): nothing  *)
(* appears for a job whose cancel was answered.  But a flagged job runs    *)
(* until render looks at the flag, so this does not hold.                  *)
CancelMeansStopped ==
    [][\A e \in store' \ store : ~cancelFlag[e.by]]_doorVars

(* What is stored can be named by those it was made for, and by no others: *)
(* a clip request may name a key of the bucket exactly if a preview of the *)
(* same project, up to _safe, drew it, and a preview may bind exactly what *)
(* a training stored; unless a name has a character that _safe keeps and   *)
(* the key patterns refuse, or makes a segment "..".                       *)
Projects == {q.project : q \in Requests}

StoredCanBeNamed ==
    \A e \in store :
        LET q == request[e.by]
            drawn == /\ q.action = "preview" /\ Nameable(q.project)
                     /\ \E s \in ToSet(q.shots) :
                           Plain(s) /\ e.key = KeyframeKey(q.project, s)
            trained == /\ q.action = "train_lora" /\ Nameable(q.project)
                       /\ \E s \in ToSet(q.shots) :
                             Nameable(s) /\ e.key = LoraKey(q.project, s)
        IN  /\ \A p \in Projects :
                  KeyMatchesProject(e.key, p) <=> drawn /\ Slug(p) = Slug(q.project)
            /\ IsSafeLoraKey(e.key) <=> trained

(* Nothing a caller was promised stays open.  If renders end, so does      *)
(* every accepted job, or the process: also one accepted while the         *)
(* registry's thread is leaving (jobs.py:145), which nobody will run.  A   *)
(* cancelled job ends though its render never would, one with a long       *)
(* command if it is read at all: in the write nobody looks at the flag     *)
(* (worker_client.py:176).  SIGTERM ends the process.                      *)
Over(j) == status[j] \in R!Terminal \/ ~Up

EverythingEnds ==
    /\ \A j \in Jobs :
          /\ RendersEnd => (status[j] = "IN_QUEUE" ~> Over(j))
          /\ StartsEnd(j) => (cancelFlag[j] ~> Over(j))
    /\ mainPc # "serving" ~> ~Up
=============================================================================
