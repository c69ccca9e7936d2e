# A TLA+ model of vivijure-local-16gb

vivijure-local-16gb is the "door" of one consumer GPU: a small HTTP server that takes
render jobs (an i2v clip, a keyframe preview, a LoRA training), runs them one at a time
on the card and answers status polls. This directory holds TLA+ modules of it, the TLC
configurations that check them on small instances, and TLAPS proofs of the properties
that matter most for every value of the constants. Paths below are relative to
`src/src/vivijure_local/` unless they say otherwise.

## 1. The system

```
 docker compose: init-shared, door, cloudflared, ready (one volume, /shared)

 HTTP threads          registry thread            worker process (child)
 POST /run     --->    JobRegistry._run_loop      serve_loop
 POST /cancel  --->      one job at a time  --->    run_fn: i2v | preview | train  --> R2
 GET /status  (reads)    RenderWorkerClient  <---   ready / progress / result / error
                         .render             pipes
 main thread: boot guards -> serve -> SIGTERM -> http shutdown
                          -> registry.shutdown -> client.shutdown -> exit
```

| Component | State it keeps | Operations | Talks to |
|---|---|---|---|
| Job registry, `core/jobs.py` | job table, queue, completed order, stop flag, the lazily started thread, one condition variable | `submit`, `get`, `status_dict`, `cancel`, `shutdown`, `_run_loop`, `_retain_locked` | HTTP threads (lock), the render function (call, `should_cancel`) |
| Render worker client, `core/worker_client.py` | process handle, event queue, render lock | `render`, `_ensure_worker`, the read loop, `_terminate`, `_reap`, `shutdown` | the child's stdin and stdout, signals |
| Worker protocol, `core/render_worker.py` | current job | `serve_loop`, protocol writer | the run functions |
| Render jobs and the card, `core/server.py` builders, `preview_sdxl.py`, `i2v_cogvideox.py`, `train_lora_job.py` | the process-wide pipe caches, LoRA adapters, the IP-Adapter | `render_preview`, `animate`, `run_train_lora`, unload and evict | object store, diffusers |
| Training loop, `lora_train.py` | gradients, optimizer, checkpoints | `config_from_overrides`, `train_slot` | progress callback |
| Tiers and arithmetic, `config.py`, `core/vram.py`, helpers of `i2v_cogvideox.py` | none | snapping, clamping, the VRAM fraction | torch, at worker start |
| Request contract, `core/contract.py` | none; it names every key of the bucket | slugs, key templates and patterns, validation, the token check | `route`, the run functions |
| HTTP routing and lifecycle, `core/server.py` | token, the main thread's place | `route`, `serve`, the signal handler | all of the above |
| Boot guards, `core/server.py`, `core/gpu_virt.py` | none | checks before the socket binds | Docker, which restarts a process that ended |
| Ready banner and compose files, `core/announce.py`, `docker-compose.yml` | the token and the tunnel's log on a volume that outlives the containers | wait, read, print; create, start, restart | the door, cloudflared |
| Bundle, object store (`core/bundle.py`, `core/r2.py`), `door.py`, scripts | none | extract, get and put, dispatch | run functions |

What is hard in it, and what must hold nevertheless:

* **Interleaving.** HTTP threads read a job without the lock while the registry thread
  and a cancel write it; a cancel races the start and the end of a job. Needed: a job is
  withdrawn or run, never both; an answer, once final, never changes; wake-ups are not
  lost; nothing appears in the bucket for a job that has ended, and a cancel that was
  answered takes effect.
* **Failure.** The worker may die or hang at any point, its start included; cancelling
  means killing it; a write to it may block. Needed: a dead worker fails its job, a cancel
  ends a render that never would, a job never gets another job's result, two workers never
  share the card.
* **Shutdown.** It runs beside a render that may be spawning, without its lock, beside
  HTTP handlers that still accept jobs, and a second SIGTERM may cut it short. Needed: it
  ends, and what it leaves behind ends.
* **State that outlives a job.** The worker process caches a pipeline, its adapters and an
  IP-Adapter over jobs that may fail anywhere. Needed: a keyframe is drawn with its own
  job's model and adapters; a broken pipeline is not reused; one model family at a time.
* **State that outlives a container.** The banner reads a token and a URL from a volume
  that a former start wrote. Needed: it prints those of the stack that runs, and the URL that is live.
* **Names.** Callers choose project and shot names, and `_safe` reduces them to parts of
  keys. Needed: only names that reduce to the same slug share a key.
* **Limits.** Numbers come from a caller: sizes, frame counts and training knobs must be
  brought to values the engine works with, at and beyond every limit, and JSON as Python
  reads it has infinite ones and NaN.

`PROJECT.json` lists each hazard at its line with the properties that cover it.

## 2. The modules

| Module | Models |
|---|---|
| `JobLifecycle` | what a job registry promises: jobs are accepted, served first come first served one at a time, end once and stay ended, and ended jobs may be forgotten |
| `JobRegistry`, `JobRegistryProofs` | `core/jobs.py`, one action per lock section or lock-free read |
| `RenderPromise` | what a render client promises the door: one render at a time, each ending once, clips only for the render that is going on |
| `RenderClient`, `RenderClientProofs` | `core/worker_client.py` and `serve_loop`, with the processes, pipes and signals between them |
| `Contract`, `ContractProofs` | `core/contract.py`: slugs, keys, patterns and validation, as operators |
| `Door`, `DoorProofs` | `core/server.py` `route` and `serve`: `JobRegistry`, `RenderPromise` and `Contract` composed, with the bucket and the main thread |
| `RenderCard`, `RenderCardProofs` | the worker's caches over its jobs, and what a job stored when it reports |
| `EngineKnobs` | the arithmetic on requests, as operators |
| `WorkerInputs` | the numbers a request, an operator and a card may give to that arithmetic |
| `WorkerLimits`, `WorkerLimitsProofs` | what a worker imposes on the card and on a number of a request |
| `TrainRun`, `TrainRunProofs` | one training job, iteration by iteration |
| `ReadyBanner`, `ReadyBannerProofs` | `docker compose up`, reboots, restarts, the boot guards and the banner |
| `MC*` | the instances TLC checks; `MCWorker` has `RenderCard`, `TrainRun` and `WorkerLimits` side by side, one of them moving in each behaviour, for they share no variable |

How they hang together:

```
 JobLifecycle  <== implemented by ==  JobRegistry  <-- INSTANCE --+
 RenderPromise <== implemented by ==  RenderClient                 Door
        +--------------------------------------------- INSTANCE --+
                                      Contract  <----- EXTENDS ---+
 EngineKnobs <-- EXTENDS -- WorkerInputs <-- EXTENDS -- WorkerLimits, TrainRun
```

**JobRegistry.** `status`, `known`, `queue`, `completedOrder`, the cancel flags, `output`
and `error` are the fields of `JobRegistry` and `Job`; the thread's program counter names
the places where `_run_loop` may be seen. `submit`, `shutdown` and the cancel of a running
job are one action each. The end of a job, and the cancel of a queued one, are a single
lock section in the code but two actions here with the lock held over both (first
`output` or `status` is written, then the rest and the retention), because a reader
that takes no lock sees what is between. For the same reason a poller
reads `status`, `output` and `error` in separate steps, as `status_dict` does. A wait
on the condition variable is a place of its own, left only by a notify, so that a lost
wake-up would be visible.

**RenderClient.** Two threads (`render` and `shutdown`) with their locals, the handle and
queue they share, and for each worker process its state, stdin, stdout and signals. A
worker may hang at its start or in a render, may crash in any state and be killed in any
state. Messages are FIFO as pipes are, and stay readable after the writer died. A command
longer than the pipe (`LongCommands`) is written only while the worker reads it, so the
caller blocks on a worker that is not up yet. A second SIGTERM leaves `shutdown` at
whatever place it is. `_ensure_worker` is the code's two reads of the handle, with a
shutdown possible between them: `EnsureFinds` sees a live worker, then `EnsureReuse` takes
it, or `EnsureLost` reads None and fails the call; a spawn that raises (`SpawnFails`) fails
it too. Reaping closes stdin at once, then waits for the reader to close stdout.

**Door.** The registry's actions (of an instance with no poller), the client's actions (of
`RenderPromise`, whose `phase` and `asked` are what `RenderClient` calls `outcome` and
`cancelRequested`), the request of each job, the bucket as a set of key and writer, and the
main thread's place. `PostRun` applies the checks of `route` in its order, `RenderReturns`
hands the ending of a render to the registry as `_run_loop` sees it, `WorkerUploads`
overwrites the keys of the job. `LongRequests` are those whose command line the pipe does
not hold: their call is writing until the worker reads (`WorkerReads`), and only then looks
at the cancel flag (`ShouldCancel`). Handler threads are daemons that `server_close` does not
wait for, so a job can still be accepted while the main thread stops the registry.

**Contract.** Which names share a key, and which keys a pattern admits, is a question of
characters, so names and keys are short sequences of tokens (one character, or a word no
name contains). `_safe` drops and replaces as the code does, `Named` is the common shape of
the templates, and `Answer` gives the status code by the checks in the order of the code.

**RenderCard.** One worker process: the cached SDXL pipe (its base model, whether the
distill LoRA is on it, which character adapters the running job bound and which are left
over), the cached CogVideoX pipe, and the job with its place. The IP-Adapter is two facts,
whether one is attached and what the mark `_vj_ip_loaded` says: `_ensure_ip_adapter` looks
only at the mark, sets it after the scale, and may raise in the unload, the load or the
scale with the adapter in either state. Every load, bind, draw and upload has an action
for its failure, and the action does to the caches what the code's handler, or its
absence, does. `ProcessReplaced` empties everything.

**TrainRun.** A bundle's cast slots, the clamped knobs, and in a slot the iterations:
losses accumulated in the gradients, optimizer steps, checkpoints, progress. Knobs that are
not finite raise before any slot.

**WorkerLimits.** A worker applies the VRAM cap when it starts, each time with other free
memory, and then gets one number for a knob at a time. A value is a whole number, an
infinity, NaN, or no number at all.

**ReadyBanner.** `.env`, the volume (token file and tunnel log), the door from its start
over the token and the guards to serving, the tunnel, and the three waits of the banner.
`docker compose up` runs `init-shared`, which empties the log and leaves the token;
a reboot starts the containers without it.

## 3. The runs

| Run | Bounds | Shows |
|---|---|---|
| `registry_safety` | 3 jobs, 1 retained, 1 poller, symmetric jobs | `Serial`, `QueueExact`, `RetentionExact`, `FlagOnlyWhenStarted`, `CompletedCarriesOutput`, `AnswersNeverGoBack`, and `ImplementsLifecycle`: a step of the registry is a step of `JobLifecycle` or a stutter |
| `registry_torn` | the same | violation, finding 1 |
| `client` | 2 renders, one with a long command, 1 or 2 SIGTERMs | `ResultIsOwn`, `OneWorker`, `NoAbandonedRender`; `ImplementsPromise`: a step of the client is a step of `RenderPromise` or a stutter; `DeathEndsRender`, `CancelEndsRender`, `ShutdownExits`, `OrphansLeave` |
| `client_orphan` | the same | violation, finding 2 |
| `door` | 2 jobs, 1 retained, 15 requests, one of them long, 1 or 2 SIGTERMs | `CompletedIsStored`: what COMPLETED names is in the bucket and is the job's own, unless a job of names with the same slugs wrote it; `StoredCanBeNamed`: a stored file can be named exactly by the requests it was made for; `NoLateClip`: until shutdown nothing is uploaded for a job that has ended; `EverythingEnds` |
| `door_cancel` | the same | violation, finding 6 |
| `worker` | the card: 2 cast slots, 2 base models, up to 2 shots or slots a job; a training: up to 3 slots, 39 requests with knobs at and beyond their limits; the limits: every integer near one, both infinities and NaN, 8 caps, 3 cards, 4 amounts of free memory | `OneOwner`, `DrawsWithItsOwn`, `ReferenceMatches`, `NeverPoisoned`, `ResultIsStored`; `AdapterWasTrained`, `UpdatesAreWhole`, `BarGoesForward`; `CapIsAbsolute`, `FramesExact`, `DimsNeverWiden`, `KnobsStayInLimits` |
| `card_leak`, `card_recipe` | the card alone | violations, findings 3 and 4 |
| `knobs` | as `worker` | violation, finding 7 |
| `banner` | 5 `.env` files, 2 creations of the stack, 1 reboot, 4 starts of the door, 3 of the tunnel | `VolumeIsTrue`: a serving door's token is the one on the volume and no URL of an earlier creation is shown before a reboot; `UrlIsLive`: a banner made while the tunnel runs shows the URL it has now; `BannerComes` |
| `banner_token` | the same | violation, finding 5 |

*Why the bounds are enough.* Three jobs and a retention of one let a job wait behind
another, be cancelled from the middle of the queue, and be evicted while a poller holds
it; a fourth would only repeat one of these roles. A render interacts with the worker it
finds and the one it spawns, and two renders give each of these; a worker that was itself
a replacement is covered by the proofs, which hold for any number. The door's requests are
one for every reason to refuse, and five that can be accepted: two whose names `_safe`
makes equal, one with a character it keeps and the pattern refuses, a keyframe found by
the template and one that is named. One of them is long. Two jobs suffice for one to overwrite or read what
the other stored, and a job accepted after the registry stopped needs only one before it.
The card remembers one pipe of each family, and an adapter is the running job's or an
older one's, so two slots, two models and two parts reach every cache state. The training
run uses the real limits, 50 and 32 among them. For the banner, a file of an earlier start
needs two starts, one by `up` and one by a reboot; four starts of the door and three of
the tunnel let each restart by itself beside them. The safety properties proved in section
4 do not depend on the bounds at all.

*Fairness.* `LiveSpec` of `RenderClient` is weakly fair in the steps of the caller (whose
read loop polls `should_cancel` every half second, so it always returns to it), of
`shutdown`, and of a worker: taking a command, leaving at the end of its stdin, dying of a
signal. Nobody is obliged to submit, cancel or stop. That a worker comes up and that a
render ends are no fairness of the code but promises of the engine: they are the premises
`StartsEnd` and `RendersEnd` inside the properties that need them (`OrphansLeave`, and
`CancelEndsRender` for a long command). `DeathEndsRender` and `ShutdownExits` hold without
them. `LiveSpec` of `Door` is fair in the registry's thread, the handler that holds the
lock, the main thread, and the poll of `should_cancel`, which is possible only once the
command is written; it takes over from the client what `CancelEndsRender` and
`ShutdownExits` show: a render whose poll saw the flag ends, the shutdown ends. Nothing
obliges a worker to read a long command. An accepted job ends under the premise
`RendersEnd`; a cancelled one without it, but under the door's `StartsEnd`: that its
command does not stay unread for ever, which is true of every command the pipe holds. The
registry's liveness is checked there and not alone, because its thread is a daemon: a job
accepted after the stop is ended by the end of the process and by nothing else. In
`ReadyBanner` the banner's process is fair, for each of its waits has a deadline; the door
and the tunnel may fail for ever. Where deadlock is not checked the system really comes to
rest: all jobs over, the server exited, the training done, or the banner printed.

Every property of a passing run has in `PROJECT.json` a mutant, a plausible slip in the
definition it is about, under which TLC finds it violated. The mutants' definitions stand
beside the originals in the modules, each with a comment.

## 4. The proofs

TLAPS proves theorems about seven state machines and about the operators of the request
contract, for every value of their constants (jobs, pollers, renders, slots, names,
requests, `.env` files, retention, counts of starts). Every safety invariant, action
property and refinement that a passing run checks is a theorem. Beyond those the modules
prove predicates that no run needs to repeat: what holds where a finding says that
something does not, and what the liveness properties rest on.

* `JobRegistryProofs`. The inductive invariant is the types with `HoldsJob` and `HandInv`
  (what the thread's place says of the job in its hands), `QueueExact`, `FlagInv` and
  `RetentionInv`. `Serial` and `RetentionExact` alone are not inductive: that the job
  in the thread's hands is the only one in progress, and not retained yet while its end is
  being written, needs the thread's place and the lock's holder. From it follow `TypeOK`,
  `Serial`, `QueueExact`, `RetentionExact`, `FlagOnlyWhenStarted`, the two answers'
  properties and `Implementation`, the refinement of `JobLifecycle` step by step.
  `NobodyStranded` says that no wake-up is lost: a thread that waits has nothing to do, and
  a job waits without a thread only if it was submitted after the stop. `EndedIsFixed` says
  that no step changes anything of a job whose verdict is written. `LockedReadersSeeWhy`
  adds to the invariant what the two-step writes look like in their middle (`VerdictInv`):
  whoever takes the lock sees FAILED with its error, so finding 1 is the missing lock and
  nothing else.
* `RenderClientProofs`. `ResultIsOwn` says nothing of what is still in a pipe, so the
  invariant follows each worker: for the render it was last given (its `Owner`) it is
  fresh, commanded, at work or has answered, with exactly the command or the answer that
  this place allows in its pipes; or it is
  abandoned: no call will look at it again. From it follow the three safety properties and
  `KeepsPromise`, the refinement of `RenderPromise`. Two theorems are what the liveness
  properties rest on, with their own invariants on top: `DeathAlwaysHeard` (the end of a
  worker's stdout stays readable until nobody uses the worker any more, `EofInv`, so a call
  never waits for a dead worker in silence) and `ShutAlwaysTold` (`ToldInv`: whatever
  shutdown waits for was told to die or is gone). `OneWriterAlways` is the render lock: a
  command and shutdown's line are never written together.
* `ContractProofs`. Lemmas about slugs (a slug has no "/" and no space, and is not empty)
  and about the shape of keys; then theorems about names and keys of any length.
  `KeysTellNames`: a key of the templates determines the action and the slugs it was made
  of. `KeyframeNamed` and `LoraBound` say exactly which stored keys the patterns admit, and
  for whom; `ClipNeverNamed` which they never do; `KeyframeIsOwn` that the key a clip
  request reads is no other project's picture; `SlugIsFixed` that `_safe` is idempotent.
* `DoorProofs`. `DoorRunsRegistry` shows that a step of the door is a step of the registry
  or leaves it alone, so the registry's invariant is inherited from `JobRegistryProofs`
  and not proved again, and `DoorKeepsLifecycle` carries the refinement of `JobLifecycle`
  over. `DoorUsesPromise` is the other side: a step of the door is a step of
  `RenderPromise` or leaves it alone. The invariant adds what the client's `phase` is at
  each place of the registry's thread (`Calls`), what a finished job has uploaded
  (`Results`), and that a written key stays written (`Stores`). `CompletedIsStored` rests
  on `KeysTellNames`, `StoredCanBeNamed` on `KeyframeNamed`, `LoraBound` and
  `ClipNeverNamed`, and `ClipsReadTheirOwn` (the picture a clip is made from was drawn for
  its own project and shot, whoever wrote the key last) on `KeyframeIsOwn`.
* `RenderCardProofs`. The invariant adds to the types that the two model families are
  split by the kind of the job at work (`CardSplit`), that a cached i2v pipe is usable
  (`I2VSound`), that bound adapters are those of the job (`AdaptersKnown`), that the mark
  on the pipe tells the truth about its IP-Adapter except between load and scale
  (`MarkIsTrue`: it needs that every half-way failure resets the pipe), and that uploads
  are counted (`PartsCounted`). All five safety properties follow. Two theorems bound
  findings 3 and 4. `WarmCacheIsLastJobs` (with `KindKnown`, that a job is at a place of
  its own kind): a pipeline is warm only through jobs of its own kind, and the adapters the
  last job left of its own are ones it asked for. It says nothing of adapters from before
  that job. `LittleIsHandedOn` does, of every step: adapters of earlier jobs stay on a pipe
  through a chain of previews of one base model, however long, and through nothing else,
  each preview adds at most what it asked for, and a pipe is distilled only if a few-step
  job built it.
* `WorkerLimitsProofs`. The grids and clamps are proved as lemmas about the operators, for
  all integers; `CapIsAbsolute` from the invariant that a serving worker holds exactly the
  fraction of the operator's cap. `OnlyNonFiniteRaises` gives the extent of finding 7: a
  training knob raises exactly on an infinite number or NaN, a clip's size exactly on an
  infinite one.
* `TrainRunProofs`. The invariant is `updates * accumulation + pending = step` with
  `pending < accumulation`, and that the bar is at most the bar of the iterations done.
  It needs that the remainder test of the code fires exactly when `pending` reaches the
  accumulation (`UpdateDue`), and that the bar's quotient is monotone and meets the bar of
  the next slot (`BarStarts`, `BarGrows`). `AdapterWasTrained` then is 32 < 50, and
  `AdaptersAlwaysExact` the number itself: `effective_steps` divided by the accumulation,
  rounded down, for each slot of the bundle. `CheckpointsAlwaysExact` says which steps are
  saved on the way.
* `ReadyBannerProofs`. `VolumeIsTrue` speaks of a door that serves, while what it says of
  the token is decided earlier: the invariant `TokenFollows` carries the token from the
  moment it is picked over its publication and the guards. `FirstTokenAlwaysRight` bounds
  finding 5: with one creation of the stack, and a token that the operator chose or that
  one start of the door made, the banner shows the token the door expects; its invariant
  lists the tokens there can be so early (`FirstToken`). `UrlIsLive` needs that the log
  of a running tunnel ends with its own URL (`LogEndsLive`).

Assumptions are the named ASSUMEs of the modules: null values differ from the data, the
retention is a natural number, the requests and `.env` files are of the shape JSON and
Docker can give.

Only model-checked: liveness (`DeathEndsRender`, `CancelEndsRender`, `ShutdownExits`,
`OrphansLeave`, `EverythingEnds`, `BannerComes`), which with ENABLED is outside the
prover's reach, and the violations. Predicates of the state machines that only a theorem
states were checked with TLC on the bounds of section 3 before they were proved.

## 5. Where the code and its words differ

1. `registry_torn`: `cancel` and `_run_loop` write FAILED before the error, and
   `status_dict` reads without the lock, so an answer can be FAILED with no error, though
   the tests expect it the moment they see FAILED.
2. `client_orphan`: `shutdown` reads the handle once and leaves no mark; a render that is
   spawning, or that starts after it, leaves a worker alive when the server has exited.
   `OrphansLeave` shows how bad that is: the worker leaves at the end of its render, when it
   reads the end of its stdin.
3. `card_leak`: a preview that fails after binding its LoRAs leaves them on the cached
   pipe; a later preview draws with them.
4. `card_recipe`: the cached pipe is reused by model alone, so a final preview after a
   draft one is drawn with the few-step LoRA.
5. `banner_token`: the token file survives on the volume, so a second start can read the
   first one's token before the door has written its own, wait for the door to be healthy
   and print the old token under LIVE.
6. `door_cancel`: `/cancel` of a job in progress answers ok, which `core/server.py:138` and
   `core/jobs.py:119` read as "not running", once the flag is set; the render looks at it
   at its next poll, and until then its worker may upload, and its result be taken. What
   holds is `NoLateClip`, from the job's end on.
7. `knobs`: `int()` of an infinite number or NaN (Python's JSON has both) raises in
   `config_from_overrides`, and of an infinite one in the clip's size, whose docs promise
   forgiving clamps; the job fails as data.

Seen while modelling and not checked by a run of its own:

* `run_train_lora`'s progress callback raises on a cancel and `train_slot` swallows it; in
  this program a worker's `should_cancel` is constantly false, so it cannot happen.
* The losses of a last, incomplete accumulation are dropped.
* `docs/INTEGRATION.md` says an unset token leaves the door open; the code answers 503.
* `_safe` keeps characters the keyframe pattern refuses (an apostrophe, for one), so a
  request that names the very keyframe its project's preview stored is refused with a
  message that quotes that key's own prefix; so is one of a project called "..". These
  names are the exception in `StoredCanBeNamed` (`Nameable`, `Plain`).
* A body that is no object makes `route` raise, although `core/contract.py:106` says a
  malformed job is data.
* A job that crashes in its last moment may leave its clip in the bucket, from before it
  is FAILED: `NoLateClip` says only that none comes after.
* After a reboot nothing empties the tunnel's log, so a banner may show a URL of before it
  until the tunnel has a new one: the premise of the second half of `VolumeIsTrue`.

## 6. Assumed of the outside, and left out

* External: closing a pipe that another thread reads blocks until the read ends; a pipe
  keeps what was written before its writer died; diffusers refuses an adapter name that is
  in use, and a draw with an IP-Adapter and no image; a fraction given to torch bounds the
  process; a PUT to R2 replaces the object at once; Docker starts a container again whose
  process ended, and `up` creates all containers anew. Floating point in the progress bar
  is modelled in exact arithmetic (its value may be one thousandth less where the quotient
  is exact).
* Abstracted: payloads, prompts, seeds, images, log lines, progress events between worker
  and client (read and ignored), malformed command lines (the client sends none). A request
  of `Door` is one after `from_input`: which JSON types are replaced by a default is not
  enumerated. The uploads of a job are one step in `Door`; `RenderCard` has them one by one.
* Not modelled: the framing of HTTP, the limit on a body, `GET /health`, the vGPU check
  (it only warns), the watchdog sidecar (its image is not in the repository), archive
  extraction, YAML, the object store's HTTP, the dispatch in `door.py`, the operator
  scripts and the tests' doubles. They are sequential, or pure I/O, or keep no state;
  `PROJECT.json` gives the reason per component.
