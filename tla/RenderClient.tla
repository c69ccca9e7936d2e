---------------------------- MODULE RenderClient ----------------------------
(***************************************************************************)
(* The render worker and its owner: RenderWorkerClient of                  *)
(* src/src/vivijure_local/core/worker_client.py, serve_loop of             *)
(* core/render_worker.py, and what the operating system does between them  *)
(* (pipes, signals, death of a process).                                   *)
(*                                                                         *)
(* Threads of the server process: the registry's worker thread calls       *)
(* render (one call at a time), the main thread calls shutdown once and    *)
(* then the process exits.  A worker process is named after the render     *)
(* that spawned it, so a call spawns at most the one of its own name.      *)
(*                                                                         *)
(* A worker's stdout, the reader thread (_pump_stdout) and the queue.Queue *)
(* it fills are one FIFO here.  Left out: progress events and stray lines  *)
(* (read and ignored, as "ready" is) and the contents of payloads, but for *)
(* this: a command longer than the pipe holds is only written while the    *)
(* worker reads it.                                                        *)
(***************************************************************************)
EXTENDS Naturals, Sequences

CONSTANTS Renders,      \* the render calls, by correlation id
          LongCommands, \* those whose command line exceeds the pipe buffer
          NoRender      \* Python's None

ASSUME RenderAssumption ==
    /\ NoRender \notin Renders
    /\ LongCommands \subseteq Renders

VARIABLES
    callPc, callJob,      \* the thread in render(): where it is, for whom
    useProc, useQueue,    \* its locals proc and q
    outcome,              \* how each call ended
    delivered,            \* whose result a call returned
    cancelRequested,      \* what should_cancel() answers
    procHandle,           \* self._proc
    eventQueue,           \* self._queue (named after its worker)
    renderLock,           \* self._render_lock
    shutPc, shutProc,     \* the thread in shutdown() and its local proc
    exited,               \* the server process has exited
    procState,            \* the worker processes
    signalled,            \* SIGTERM or SIGKILL was sent to it
    working,              \* the job whose command it carries out
    stdinOpen, stdin,     \* its command pipe
    stdout,               \* its events, read or not yet read by the reader
    uploaded              \* the jobs whose clip is in R2

callVars   == <<callPc, callJob, useProc, useQueue>>
resultVars == <<outcome, delivered>>
handleVars == <<procHandle, eventQueue>>
shutVars   == <<shutPc, shutProc, exited>>
procVars   == <<procState, working, stdout, uploaded>>
clientVars == <<callVars, resultVars, cancelRequested, handleVars, renderLock, shutVars,
                procVars, signalled, stdinOpen, stdin>>

None    == NoRender
Workers == Renders                        \* a worker is named after its spawner

Serving == {"starting", "idle", "rendering"}  \* stdout open
Alive   == Serving \cup {"closing"}           \* poll() is None

Ended == {"cancelled", "died", "error", "output"}

Ev(t, r)  == [t |-> t, job |-> r]
EofBare   == None
Eof       == Ev("eof", None)

Init ==
    /\ callPc = "idle" /\ callJob = None /\ useProc = None /\ useQueue = None
    /\ outcome = [r \in Renders |-> "none"]
    /\ delivered = [r \in Renders |-> None]
    /\ cancelRequested = [r \in Renders |-> FALSE]
    /\ procHandle = None /\ eventQueue = None
    /\ renderLock = "free"
    /\ shutPc = "no" /\ shutProc = None /\ exited = FALSE
    /\ procState = [p \in Workers |-> "none"]
    /\ signalled = [p \in Workers |-> FALSE]
    /\ working = [p \in Workers |-> None]
    /\ stdinOpen = [p \in Workers |-> FALSE]
    /\ stdin = [p \in Workers |-> <<>>]
    /\ stdout = [p \in Workers |-> <<>>]
    /\ uploaded = {}
-----------------------------------------------------------------------------
(* Broken twins, named for their slip, stand before the operators they     *)
(* belong to, as EofBare (a bare sentinel the read loop cannot unpack)     *)
(* does above.  No action uses them; the properties are tried against them.*)

(* _reap: close the pipes, forget the handle if it is still the current.   *)
(* Nobody can read this worker's queue any more, so its events are gone.   *)
Reap(p) ==
    /\ stdinOpen' = [stdinOpen EXCEPT ![p] = FALSE]
    /\ stdout' = [stdout EXCEPT ![p] = <<>>]
    /\ IF procHandle = p
       THEN procHandle' = None /\ eventQueue' = None
       ELSE UNCHANGED handleVars

(* Leaving render(): by return or by exception, always out of the lock.    *)
(* Nobody asks this call's should_cancel() again.                          *)
EndRender(how, whose) ==
    /\ outcome' = [outcome EXCEPT ![callJob] = how]
    /\ delivered' = [delivered EXCEPT ![callJob] = whose]
    /\ cancelRequested' = [cancelRequested EXCEPT ![callJob] = FALSE]
    /\ renderLock' = "free"
    /\ callPc' = "idle" /\ callJob' = None /\ useProc' = None /\ useQueue' = None

(* The registry's thread calls render (run_fn in server.py). *)
RenderCall(r) ==
    /\ ~exited
    /\ callPc = "idle" /\ outcome[r] = "none"
    /\ callPc' = "lock" /\ callJob' = r
    /\ outcome' = [outcome EXCEPT ![r] = "pending"]
    /\ UNCHANGED <<useProc, useQueue, delivered, cancelRequested, handleVars, renderLock,
                   shutVars, procVars, signalled, stdinOpen, stdin>>

(* POST /cancel of a running job sets the flag should_cancel reads. *)
RequestCancel(r) ==
    /\ ~exited
    /\ outcome[r] = "pending"
    /\ cancelRequested' = [cancelRequested EXCEPT ![r] = TRUE]
    /\ UNCHANGED <<callVars, resultVars, handleVars, renderLock, shutVars, procVars,
                   signalled, stdinOpen, stdin>>

CallLock ==
    /\ ~exited
    /\ callPc = "lock" /\ renderLock = "free"
    /\ callPc' = "ensure" /\ renderLock' = "render"
    /\ UNCHANGED <<callJob, useProc, useQueue, resultVars, cancelRequested, handleVars,
                   shutVars, procVars, signalled, stdinOpen, stdin>>

(* _ensure_worker: reuse the worker that is alive, or reap the dead one    *)
(* and spawn.  self._proc is read again after _alive(), Popen may raise,   *)
(* and Popen and the assignment of self._proc are two steps.               *)
NeverUsable == FALSE

HandleUsable == procHandle # None /\ procState[procHandle] \in Alive

EnsureFinds ==
    /\ ~exited
    /\ callPc = "ensure" /\ HandleUsable
    /\ callPc' = "reuse"
    /\ UNCHANGED <<callJob, useProc, useQueue, resultVars, cancelRequested, handleVars,
                   renderLock, shutVars, procVars, signalled, stdinOpen, stdin>>

(* shutdown has cleared the handle since: None.stdin, AttributeError. *)
EnsureLost ==
    /\ ~exited
    /\ callPc = "reuse" /\ procHandle = None
    /\ EndRender("error", None)
    /\ UNCHANGED <<handleVars, shutVars, procVars, signalled, stdinOpen, stdin>>

EnsureReuse ==
    /\ ~exited
    /\ callPc = "reuse" /\ procHandle # None
    /\ useProc' = procHandle
    /\ callPc' = "queue"
    /\ UNCHANGED <<callJob, useQueue, resultVars, cancelRequested, handleVars, renderLock,
                   shutVars, procVars, signalled, stdinOpen, stdin>>

EnsureSpawn ==
    /\ ~exited
    /\ callPc = "ensure" /\ ~HandleUsable
    /\ procHandle' = None /\ eventQueue' = None
    /\ procState' = [procState EXCEPT ![callJob] = "starting"]
    /\ stdinOpen' = [p \in Workers |-> IF p = callJob THEN TRUE
                                       ELSE IF p = procHandle THEN FALSE ELSE stdinOpen[p]]
    /\ callPc' = "adopt"
    /\ UNCHANGED <<callJob, useProc, useQueue, resultVars, cancelRequested, renderLock,
                   shutVars, signalled, working, stdin, stdout, uploaded>>

(* Popen raises (no memory, no descriptor): render does not catch it. *)
SpawnFails ==
    /\ ~exited
    /\ callPc = "ensure" /\ ~HandleUsable
    /\ procHandle' = None /\ eventQueue' = None
    /\ stdinOpen' = [p \in Workers |-> p # procHandle /\ stdinOpen[p]]
    /\ EndRender("error", None)
    /\ UNCHANGED <<shutVars, procVars, signalled, stdin>>

EnsureAdopt ==
    /\ ~exited
    /\ callPc = "adopt"
    /\ procHandle' = callJob /\ eventQueue' = callJob
    /\ useProc' = callJob
    /\ callPc' = "queue"
    /\ UNCHANGED <<callJob, useQueue, resultVars, cancelRequested, renderLock, shutVars,
                   procVars, signalled, stdinOpen, stdin>>

(* q = self._queue: a separate read, which shutdown may have emptied. *)
TakeQueue ==
    /\ ~exited
    /\ callPc = "queue"
    /\ useQueue' = eventQueue
    /\ callPc' = "write"
    /\ UNCHANGED <<callJob, useProc, resultVars, cancelRequested, handleVars, renderLock,
                   shutVars, procVars, signalled, stdinOpen, stdin>>

(* The command line.  A worker on its way out may or may not have closed   *)
(* its end already.  A long line needs its reader: until the worker is in  *)
(* its read loop the write blocks, and cancel is not looked at.            *)
WriteGoesThrough ==
    procState[useProc] \in IF callJob \in LongCommands THEN {"idle"} ELSE Alive

WriteCommand ==
    /\ ~exited
    /\ callPc = "write" /\ stdinOpen[useProc]
    /\ WriteGoesThrough
    /\ stdin' = [stdin EXCEPT ![useProc] =
                    IF procState[useProc] \in Serving THEN Append(@, Ev("render", callJob)) ELSE @]
    /\ callPc' = "check"
    /\ UNCHANGED <<callJob, useProc, useQueue, resultVars, cancelRequested, handleVars,
                   renderLock, shutVars, procVars, signalled, stdinOpen>>

WriteBrokenPipe ==
    /\ ~exited
    /\ callPc = "write" /\ stdinOpen[useProc]
    /\ procState[useProc] \notin Serving
    /\ Reap(useProc)
    /\ EndRender("died", None)
    /\ UNCHANGED <<shutVars, procState, working, uploaded, signalled, stdin>>

(* shutdown has closed the pipe: ValueError, which render does not catch. *)
WriteClosedPipe ==
    /\ ~exited
    /\ callPc = "write" /\ ~stdinOpen[useProc]
    /\ EndRender("error", None)
    /\ UNCHANGED <<handleVars, shutVars, procVars, signalled, stdinOpen, stdin>>
-----------------------------------------------------------------------------
(* _read_until_terminal: ask should_cancel, wait poll_interval for an      *)
(* event, and again.                                                       *)
NeverAskCancel == FALSE

AskCancel == cancelRequested[callJob]

TerminateLater(p) == UNCHANGED signalled

Terminate(p) ==
    signalled' = [signalled EXCEPT ![p] = procState[p] \in Alive]

CheckCancel ==
    /\ ~exited
    /\ callPc = "check"
    /\ IF AskCancel
       THEN callPc' = "terminate" /\ Terminate(useProc)
       ELSE callPc' = "get" /\ UNCHANGED signalled
    /\ UNCHANGED <<callJob, useProc, useQueue, resultVars, cancelRequested, handleVars,
                   renderLock, shutVars, procVars, stdinOpen, stdin>>

(* _terminate_proc waits a bounded grace after SIGTERM and after SIGKILL,  *)
(* then _reap closes stdout.  Closing a pipe that another thread is        *)
(* reading waits for that read (CPython's buffered reader holds its lock), *)
(* so also when both graces have run out the caller gets no further before *)
(* the worker's stdout has ended.  (stdin is closed before; only the       *)
(* thread that waits could tell.)                                          *)
ReapAtOnce == TRUE

ReapWaits == procState[useProc] \notin Serving

CancelDone ==
    /\ ~exited
    /\ callPc = "terminate" /\ ReapWaits
    /\ Reap(useProc)
    /\ EndRender("cancelled", None)
    /\ UNCHANGED <<shutVars, procState, working, uploaded, signalled, stdin>>

(* q.get timed out: look at the cancel flag again.  There is no limit on   *)
(* the whole render.                                                       *)
OnTimeoutFail == EndRender("died", None)

OnTimeout ==
    /\ callPc' = "check"
    /\ UNCHANGED <<callJob, useProc, useQueue, resultVars, cancelRequested, renderLock>>

GetTimeout ==
    /\ ~exited
    /\ callPc = "get" /\ useQueue # None
    /\ stdout[useQueue] = <<>>
    /\ OnTimeout
    /\ UNCHANGED <<handleVars, shutVars, procVars, signalled, stdinOpen, stdin>>

(* The next event.  Its "job" field is not compared with the call's. *)
GetEvent ==
    /\ ~exited
    /\ callPc = "get" /\ useQueue # None
    /\ stdout[useQueue] # <<>>
    /\ LET ev == Head(stdout[useQueue])
           pop == stdout' = [stdout EXCEPT ![useQueue] = Tail(@)]
       IN  \/ /\ ev.t = "eof"
              /\ Reap(useProc)
              /\ EndRender("died", None)
           \/ /\ ev.t = "result"
              /\ pop
              /\ EndRender("output", ev.job)
              /\ UNCHANGED <<handleVars, stdinOpen>>
           \/ /\ ev.t = "error"
              /\ pop
              /\ EndRender("error", None)
              /\ UNCHANGED <<handleVars, stdinOpen>>
           \/ /\ ev.t = "ready"
              /\ pop
              /\ callPc' = "check"
              /\ UNCHANGED <<callJob, useProc, useQueue, resultVars, cancelRequested,
                             renderLock, handleVars, stdinOpen>>
    /\ UNCHANGED <<shutVars, procState, working, uploaded, signalled, stdin>>

(* q is None: AttributeError. *)
GetWithoutQueue ==
    /\ ~exited
    /\ callPc = "get" /\ useQueue = None
    /\ EndRender("error", None)
    /\ UNCHANGED <<handleVars, shutVars, procVars, signalled, stdinOpen, stdin>>
-----------------------------------------------------------------------------
(* shutdown(graceful=True) on the main thread, then the process exits.     *)
ShutRead ==
    /\ shutPc = "no"
    /\ shutProc' = procHandle
    /\ shutPc' = IF procHandle = None THEN "done" ELSE "lock"
    /\ UNCHANGED <<callVars, resultVars, cancelRequested, handleVars, renderLock, exited,
                   procVars, signalled, stdinOpen, stdin>>

(* The render lock within half a second (an idle client), or without it. *)
ShutLock ==
    /\ shutPc = "lock" /\ renderLock = "free"
    /\ renderLock' = "shutdown"
    /\ shutPc' = "graceful"
    /\ UNCHANGED <<callVars, resultVars, cancelRequested, handleVars, shutProc, exited,
                   procVars, signalled, stdinOpen, stdin>>

LockNeverTimesOut == FALSE

LockTimesOut == renderLock # "free"

ShutNoLock ==
    /\ shutPc = "lock" /\ LockTimesOut
    /\ shutPc' = "kill"
    /\ UNCHANGED <<callVars, resultVars, cancelRequested, handleVars, renderLock, shutProc,
                   exited, procVars, signalled, stdinOpen, stdin>>

(* The graceful line, then a bounded wait that may run out. *)
ShutGraceful ==
    /\ shutPc = "graceful"
    /\ IF procState[shutProc] \in Serving /\ stdinOpen[shutProc]
       THEN stdin' = [stdin EXCEPT ![shutProc] = Append(@, Ev("shutdown", None))]
       ELSE UNCHANGED stdin
    /\ shutPc' = "kill"
    /\ UNCHANGED <<callVars, resultVars, cancelRequested, handleVars, renderLock, shutProc,
                   exited, procVars, signalled, stdinOpen>>

(* _terminate_proc; the lock is released whether or not the worker died    *)
(* within the graces.                                                      *)
ShutKill ==
    /\ shutPc = "kill"
    /\ Terminate(shutProc)
    /\ shutPc' = "release"
    /\ UNCHANGED <<callVars, resultVars, cancelRequested, handleVars, renderLock, shutProc,
                   exited, procVars, stdinOpen, stdin>>

ShutRelease ==
    /\ shutPc = "release"
    /\ renderLock' = IF renderLock = "shutdown" THEN "free" ELSE renderLock
    /\ shutPc' = "reap"
    /\ UNCHANGED <<callVars, resultVars, cancelRequested, handleVars, shutProc, exited,
                   procVars, signalled, stdinOpen, stdin>>

(* _reap without the lock: close stdin, under a render's hands maybe, then *)
(* stdout (once it has ended, see CancelDone), test the handle, and only   *)
(* then clear it.                                                          *)
ShutReap ==
    /\ shutPc = "reap"
    /\ stdinOpen' = [stdinOpen EXCEPT ![shutProc] = FALSE]
    /\ shutPc' = "stdout"
    /\ UNCHANGED <<callVars, resultVars, cancelRequested, handleVars, renderLock, shutProc,
                   exited, procVars, signalled, stdin>>

ShutStdout ==
    /\ shutPc = "stdout" /\ procState[shutProc] \notin Serving
    /\ shutPc' = IF procHandle = shutProc THEN "clear" ELSE "done"
    /\ UNCHANGED <<callVars, resultVars, cancelRequested, handleVars, renderLock, shutProc,
                   exited, procVars, signalled, stdinOpen, stdin>>

ShutClear ==
    /\ shutPc = "clear"
    /\ procHandle' = None /\ eventQueue' = None
    /\ shutPc' = "done"
    /\ UNCHANGED <<callVars, resultVars, cancelRequested, renderLock, shutProc, exited,
                   procVars, signalled, stdinOpen, stdin>>

(* A second SIGTERM: its handler raises SystemExit wherever the main       *)
(* thread is in serve's finally block, which skips the rest of it.         *)
ShutInterrupted ==
    /\ ~exited /\ shutPc # "done"
    /\ shutPc' = "done"
    /\ renderLock' = IF renderLock = "shutdown" THEN "free" ELSE renderLock
    /\ UNCHANGED <<callVars, resultVars, cancelRequested, handleVars, shutProc, exited,
                   procVars, signalled, stdinOpen, stdin>>

(* serve returns, the interpreter ends: the daemon threads are gone with   *)
(* all they held, and every pipe end of the server closes.                 *)
ServerExit ==
    /\ shutPc = "done" /\ ~exited
    /\ exited' = TRUE
    /\ stdinOpen' = [p \in Workers |-> FALSE]
    /\ stdout' = [p \in Workers |-> <<>>]
    /\ callPc' = "idle" /\ callJob' = None /\ useProc' = None /\ useQueue' = None
    /\ procHandle' = None /\ eventQueue' = None /\ renderLock' = "free" /\ shutProc' = None
    /\ cancelRequested' = [r \in Renders |-> FALSE]
    /\ UNCHANGED <<resultVars, shutPc, procState, working, uploaded, signalled, stdin>>
-----------------------------------------------------------------------------
(* The worker process: main and serve_loop of render_worker.py.            *)
Emit(p, ev) == stdout' = [stdout EXCEPT ![p] = Append(@, ev)]

(* _pump_stdout puts the sentinel however its loop ends. *)
PutNothing(p) == UNCHANGED stdout

PutEof(p) == Emit(p, Eof)

(* It stops serving: its stdout ends, commands it has not read are lost.   *)
(* (Death itself is WorkerGone.)                                           *)
StopServing(p) ==
    /\ stdin' = [stdin EXCEPT ![p] = <<>>]
    /\ procState' = [procState EXCEPT ![p] = "closing"]
    /\ working' = [working EXCEPT ![p] = None]
    /\ PutEof(p)

(* Once the server is gone a worker that writes to it ends: the write of   *)
(* "ready" is not caught, that of an answer fails and so does the attempt  *)
(* to report the failure.                                                  *)
WorkerReady(p) ==
    /\ procState[p] = "starting"
    /\ IF exited
       THEN StopServing(p)
       ELSE /\ procState' = [procState EXCEPT ![p] = "idle"]
            /\ Emit(p, Ev("ready", None))
            /\ UNCHANGED <<working, stdin>>
    /\ UNCHANGED <<callVars, resultVars, cancelRequested, handleVars, renderLock, shutVars,
                   uploaded, signalled, stdinOpen>>

WorkerTakesRender(p) ==
    /\ procState[p] = "idle"
    /\ stdin[p] # <<>> /\ Head(stdin[p]).t = "render"
    /\ procState' = [procState EXCEPT ![p] = "rendering"]
    /\ working' = [working EXCEPT ![p] = Head(stdin[p]).job]
    /\ stdin' = [stdin EXCEPT ![p] = Tail(@)]
    /\ UNCHANGED <<callVars, resultVars, cancelRequested, handleVars, renderLock, shutVars,
                   stdout, uploaded, signalled, stdinOpen>>

(* The clip goes to R2 before the result is reported. *)
WorkerUploads(p) ==
    /\ procState[p] = "rendering" /\ working[p] \notin uploaded
    /\ uploaded' = uploaded \cup {working[p]}
    /\ UNCHANGED <<callVars, resultVars, cancelRequested, handleVars, renderLock, shutVars,
                   procState, working, stdout, signalled, stdinOpen, stdin>>

(* Exactly one terminal event per command: a result once the clip is up,   *)
(* or an error at any time.                                                *)
WorkerReports(p) ==
    /\ procState[p] = "rendering"
    /\ IF exited
       THEN StopServing(p)
       ELSE /\ \/ working[p] \in uploaded /\ Emit(p, Ev("result", working[p]))
               \/ Emit(p, Ev("error", working[p]))
            /\ procState' = [procState EXCEPT ![p] = "idle"]
            /\ working' = [working EXCEPT ![p] = None]
            /\ UNCHANGED stdin
    /\ UNCHANGED <<callVars, resultVars, cancelRequested, handleVars, renderLock, shutVars,
                   uploaded, signalled, stdinOpen>>

(* A shutdown line, or EOF on stdin, ends the loop. *)
IgnoresEof(p) == FALSE

SeesEof(p) == stdin[p] = <<>> /\ ~stdinOpen[p]

WorkerLeaves(p) ==
    /\ procState[p] = "idle"
    /\ \/ stdin[p] # <<>> /\ Head(stdin[p]).t = "shutdown"
       \/ SeesEof(p)
    /\ StopServing(p)
    /\ UNCHANGED <<callVars, resultVars, cancelRequested, handleVars, renderLock, shutVars,
                   uploaded, signalled, stdinOpen>>

(* The kernel: a crash or the OOM killer at any time, a signal that was    *)
(* sent, and the end of a process that has stopped serving.                *)
WorkerCrashes(p) ==
    /\ procState[p] \in Serving /\ ~signalled[p]
    /\ StopServing(p)
    /\ UNCHANGED <<callVars, resultVars, cancelRequested, handleVars, renderLock, shutVars,
                   uploaded, signalled, stdinOpen>>

WorkerKilled(p) ==
    /\ procState[p] \in Serving /\ signalled[p]
    /\ StopServing(p)
    /\ UNCHANGED <<callVars, resultVars, cancelRequested, handleVars, renderLock, shutVars,
                   uploaded, signalled, stdinOpen>>

WorkerGone(p) ==
    /\ procState[p] = "closing"
    /\ procState' = [procState EXCEPT ![p] = "dead"]
    /\ UNCHANGED <<callVars, resultVars, cancelRequested, handleVars, renderLock, shutVars,
                   working, stdout, uploaded, signalled, stdinOpen, stdin>>
-----------------------------------------------------------------------------
Caller == \/ CallLock \/ EnsureFinds \/ EnsureLost \/ EnsureReuse
          \/ EnsureSpawn \/ SpawnFails \/ EnsureAdopt \/ TakeQueue
          \/ WriteCommand \/ WriteBrokenPipe \/ WriteClosedPipe
          \/ CheckCancel \/ CancelDone \/ GetTimeout \/ GetEvent \/ GetWithoutQueue

Shut == \/ ShutLock \/ ShutNoLock \/ ShutGraceful \/ ShutKill \/ ShutRelease
        \/ ShutReap \/ ShutStdout \/ ShutClear \/ ServerExit

(* What a process does by itself when it is scheduled, the engine aside:   *)
(* loading torch and the device at its start, and rendering.               *)
Steps(p) == \/ WorkerTakesRender(p) \/ WorkerLeaves(p)
            \/ WorkerKilled(p) \/ WorkerGone(p)

Next ==
    \/ \E r \in Renders : RenderCall(r) \/ RequestCancel(r)
    \/ Caller
    \/ ShutRead \/ Shut \/ ShutInterrupted
    \/ \E p \in Workers : \/ Steps(p) \/ WorkerReady(p) \/ WorkerUploads(p)
                         \/ WorkerReports(p) \/ WorkerCrashes(p)

Spec == Init /\ [][Next]_clientVars

(* Threads and processes are scheduled and a signal kills in the end.      *)
(* Nobody has to call render, cancel or shutdown, and a worker may hang,   *)
(* at its start or in a render.                                            *)
LiveSpec ==
    /\ Spec
    /\ WF_clientVars(Caller)
    /\ WF_clientVars(Shut)
    /\ \A p \in Workers : WF_clientVars(Steps(p))

(* The engine never hangs: assumptions only some properties make. *)
StartsEnd  == \A p \in Workers : WF_clientVars(WorkerReady(p))
RendersEnd == \A p \in Workers : WF_clientVars(WorkerUploads(p) \/ WorkerReports(p))
-----------------------------------------------------------------------------
Events == [t : {"render", "shutdown", "ready", "result", "error", "eof"},
           job : Renders \cup {None}]

(* Type invariant. *)
TypeOK ==
    /\ callPc \in {"idle", "lock", "ensure", "reuse", "adopt", "queue", "write", "check",
                   "get", "terminate"}
    /\ callJob \in Renders \cup {None}
    /\ useProc \in Workers \cup {None}
    /\ useQueue \in Workers \cup {None}
    /\ outcome \in [Renders -> {"none", "pending"} \cup Ended]
    /\ delivered \in [Renders -> Renders \cup {None}]
    /\ cancelRequested \in [Renders -> BOOLEAN]
    /\ procHandle \in Workers \cup {None}
    /\ eventQueue \in Workers \cup {None}
    /\ renderLock \in {"free", "render", "shutdown"}
    /\ shutPc \in {"no", "lock", "graceful", "kill", "release", "reap", "stdout",
                   "clear", "done"}
    /\ shutProc \in Workers \cup {None}
    /\ exited \in BOOLEAN
    /\ procState \in [Workers -> Alive \cup {"none", "dead"}]
    /\ signalled \in [Workers -> BOOLEAN]
    /\ working \in [Workers -> Renders \cup {None}]
    /\ stdinOpen \in [Workers -> BOOLEAN]
    /\ stdin \in [Workers -> Seq(Events)]
    /\ stdout \in [Workers -> Seq(Events)]
    /\ uploaded \subseteq Renders

(* A job is answered with the result of its own render and with a clip     *)
(* that is in R2, although _read_until_terminal takes the next terminal    *)
(* event whatever job it names: no answer of an earlier, cancelled or      *)
(* crashed render is left where a later call could read it.                *)
ResultIsOwn ==
    \A r \in Renders :
        outcome[r] = "output" => delivered[r] = r /\ r \in uploaded

(* Until shutdown the card is never asked to hold two pipelines: at most   *)
(* one worker is neither dying nor told to die.                            *)
OneWorker ==
    shutPc = "no" =>
        \A p, q \in Workers :
            /\ procState[p] \in Serving /\ ~signalled[p]
            /\ procState[q] \in Serving /\ ~signalled[q]
            => p = q

(* Nobody renders for a caller that has left: a worker that was not told   *)
(* to die works only on the command of the call that is waiting for it.    *)
NoAbandonedRender ==
    shutPc = "no" =>
        \A p \in Workers :
            procState[p] = "rendering" /\ ~signalled[p]
            => working[p] = callJob /\ useProc = p /\ callPc \in {"check", "get"}

(* worker_client.py:247-249 and server.py:568: stopping the server never   *)
(* orphans a process that holds VRAM.  The code does not achieve it.       *)
NeverOrphan ==
    exited => \A p \in Workers : procState[p] \in Serving => signalled[p]

(* A worker that dies fails its job (WorkerDied) instead of leaving it     *)
(* pending for ever.                                                       *)
DeathEndsRender ==
    \A r \in Renders :
        (callJob = r /\ useProc # None /\ procState[useProc] \notin Serving)
            ~> (outcome[r] \in Ended \/ exited)

(* A cancel ends a render, whether the worker hangs in it or at its start. *)
(* A long command needs the worker to come up: while its write blocks      *)
(* (worker_client.py:176) the cancel is not looked at.                     *)
CancelEndsRender ==
    \A r \in Renders :
        (r \in LongCommands => StartsEnd)
            => (cancelRequested[r] ~> (outcome[r] \in Ended \/ exited))

(* A shutdown that has begun comes to its end, also against a hung worker, *)
(* a held lock, a blocked write and a second SIGTERM.                      *)
ShutdownExits == (shutPc # "no") ~> exited

(* A worker the server left behind, a second SIGTERM included, leaves too, *)
(* once its start and its render are over: its stdin ends                  *)
(* (render_worker.py:63) or its report fails.                              *)
OrphansLeave ==
    (StartsEnd /\ RendersEnd) => exited ~> (\A p \in Workers : procState[p] \in {"none", "dead"})

(* What the door needs of the client, and no more: RenderPromise.  A call  *)
(* ends once, as the promise allows, and while the server is not stopping  *)
(* nobody uploads a clip but for the call that is waiting.                 *)
Promise == INSTANCE RenderPromise
             WITH phase <- outcome, asked <- cancelRequested, clips <- uploaded,
                  life <- IF exited THEN "exited"
                          ELSE IF shutPc = "no" THEN "open" ELSE "stopping"

ImplementsPromise == Promise!PromiseSpec
=============================================================================
