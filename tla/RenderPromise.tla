--------------------------- MODULE RenderPromise ---------------------------
(***************************************************************************)
(* What RenderWorkerClient of src/src/vivijure_local/core/worker_client.py *)
(* promises the door that calls it: one render at a time, each ending once *)
(* with a result, an error or a cancellation, and clips that appear in R2  *)
(* only for the render that is going on.                                   *)
(*                                                                         *)
(* There are no processes, pipes, signals or locks here.  RenderClient has *)
(* all of these and is shown to implement this module; Door builds on it.  *)
(***************************************************************************)
CONSTANT Renders

VARIABLES phase,   \* how far each render call is
          asked,   \* its caller wants it cancelled
          clips,   \* the renders whose clip is in R2
          life     \* of the server process: open, stopping, exited

promiseVars == <<phase, asked, clips, life>>

Endings == {"cancelled", "died", "error", "output"}

PromiseInit ==
    /\ phase = [r \in Renders |-> "none"]
    /\ asked = [r \in Renders |-> FALSE]
    /\ clips = {}
    /\ life = "open"

Running(r) == life # "exited" /\ phase[r] = "pending"

(* render() is called *)
Begin(r) ==
    /\ life # "exited"
    /\ phase[r] = "none"
    /\ \A s \in Renders : phase[s] # "pending"
    /\ phase' = [phase EXCEPT ![r] = "pending"]
    /\ UNCHANGED <<asked, clips, life>>

(* should_cancel() will answer True *)
Ask(r) ==
    /\ Running(r)
    /\ asked' = [asked EXCEPT ![r] = TRUE]
    /\ UNCHANGED <<phase, clips, life>>

(* A worker uploads for the call that waits.  Once the server is stopping  *)
(* the call may be gone while its worker still works.                      *)
UploadsAnyTime(r) == phase[r] # "none"

MayUpload(r) == phase[r] = "pending" \/ (phase[r] # "none" /\ life # "open")

Upload(r) ==
    /\ MayUpload(r)
    /\ clips' = clips \cup {r}
    /\ UNCHANGED <<phase, asked, life>>

(* render() returns or raises: a result only with a clip that is there, a  *)
(* cancellation only if it was asked for, a failure at any time.           *)
EndsAnyhow(r, how) == how = "cancelled" => asked[r]

MayEnd(r, how) ==
    /\ how = "output" => r \in clips
    /\ how = "cancelled" => asked[r]

End(r, how) ==
    /\ Running(r)
    /\ MayEnd(r, how)
    /\ phase' = [phase EXCEPT ![r] = how]
    /\ asked' = [asked EXCEPT ![r] = FALSE]
    /\ UNCHANGED <<clips, life>>

(* shutdown() begins, or a second SIGTERM skips it; the process exits. *)
Stop ==
    /\ life = "open"
    /\ life' = "stopping"
    /\ UNCHANGED <<phase, asked, clips>>

Exit ==
    /\ life = "stopping"
    /\ life' = "exited"
    /\ asked' = [r \in Renders |-> FALSE]
    /\ UNCHANGED <<phase, clips>>

PromiseNext ==
    \/ \E r \in Renders : \/ Begin(r) \/ Ask(r) \/ Upload(r)
                          \/ \E how \in Endings : End(r, how)
    \/ Stop \/ Exit

PromiseSpec == PromiseInit /\ [][PromiseNext]_promiseVars
=============================================================================
