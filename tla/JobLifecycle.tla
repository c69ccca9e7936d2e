---------------------------- MODULE JobLifecycle ----------------------------
(***************************************************************************)
(* What the studio is promised about its jobs: the RunPod lifecycle that   *)
(* src/src/vivijure_local/core/jobs.py re-creates on the local box         *)
(* (IN_QUEUE -> IN_PROGRESS -> COMPLETED | FAILED), one job at a time,     *)
(* first come first served, and an ended job stays as it ended.            *)
(*                                                                         *)
(* There are no threads, locks, flags or job objects here.  JobRegistry    *)
(* has all of these and is shown to implement this module.                 *)
(***************************************************************************)
EXTENDS Naturals, Sequences, SequencesExt

CONSTANT Jobs          \* the job ids that are ever handed out

VARIABLES phase,       \* job -> "NEW" (id not handed out yet) or its status
          line         \* the accepted jobs that wait, oldest first

lifecycleVars == <<phase, line>>

Verdicts == {"COMPLETED", "FAILED"}
Phases   == {"NEW", "IN_QUEUE", "IN_PROGRESS"} \cup Verdicts

LifecycleInit ==
    /\ phase = [j \in Jobs |-> "NEW"]
    /\ line = <<>>

(* POST /run *)
Accept(j) ==
    /\ phase[j] = "NEW"
    /\ phase' = [phase EXCEPT ![j] = "IN_QUEUE"]
    /\ line' = Append(line, j)

(* POST /cancel of a job that has not started: it leaves the line, wherever *)
(* it stands, and has failed.                                               *)
Withdraw(j) ==
    /\ phase[j] = "IN_QUEUE"
    /\ phase' = [phase EXCEPT ![j] = "FAILED"]
    /\ \E i \in DOMAIN line : line[i] = j /\ line' = RemoveAt(line, i)

(* The card takes the oldest waiting job, if it has no other. *)
Start(j) ==
    /\ line # <<>>
    /\ j = Head(line)
    /\ \A k \in Jobs : phase[k] # "IN_PROGRESS"
    /\ phase' = [phase EXCEPT ![j] = "IN_PROGRESS"]
    /\ line' = Tail(line)

Finish(j, verdict) ==
    /\ phase[j] = "IN_PROGRESS"
    /\ phase' = [phase EXCEPT ![j] = verdict]
    /\ UNCHANGED line

LifecycleNext ==
    \E j \in Jobs :
        \/ Accept(j)
        \/ Withdraw(j)
        \/ Start(j)
        \/ \E verdict \in Verdicts : Finish(j, verdict)

LifecycleSpec == LifecycleInit /\ [][LifecycleNext]_lifecycleVars
=============================================================================
