------------------------- MODULE JobRegistryProofs --------------------------
(***************************************************************************)
(* What JobRegistry guarantees for every set of jobs and of status pollers *)
(* and every retention bound.                                              *)
(***************************************************************************)
EXTENDS JobRegistry, SequenceTheorems, TLAPS

-----------------------------------------------------------------------------
(* Facts about sequences without duplicates: what append, pop, remove and  *)
(* retain do to the elements of a deque.                                   *)

LEMMA AppendFacts ==
    ASSUME NEW S, NEW s \in Seq(S), NEW e \in S
    PROVE  /\ Append(s, e) \in Seq(S)
           /\ ToSet(Append(s, e)) = ToSet(s) \cup {e}
           /\ NoDuplicates(s) /\ e \notin ToSet(s) => NoDuplicates(Append(s, e))
  BY DEF ToSet, NoDuplicates

LEMMA TailFacts ==
    ASSUME NEW S, NEW s \in Seq(S), s # <<>>
    PROVE  /\ Tail(s) \in Seq(S)
           /\ Head(s) \in S
           /\ Head(s) \in ToSet(s)
           /\ NoDuplicates(s) => /\ ToSet(Tail(s)) = ToSet(s) \ {Head(s)}
                                 /\ NoDuplicates(Tail(s))
<1>1. /\ Tail(s) \in Seq(S) /\ Head(s) \in S /\ Head(s) = s[1]
      /\ Len(s) \in Nat /\ Len(s) > 0 /\ Len(Tail(s)) = Len(s) - 1
      /\ DOMAIN s = 1..Len(s) /\ DOMAIN Tail(s) = 1..(Len(s) - 1)
      /\ \A i \in 1..(Len(s) - 1) : Tail(s)[i] = s[i + 1]
  OBVIOUS
<1>2. Head(s) \in ToSet(s)
  BY <1>1 DEF ToSet
<1>3. ASSUME NoDuplicates(s) PROVE NoDuplicates(Tail(s))
  BY <1>1, <1>3 DEF NoDuplicates
<1>4. ASSUME NoDuplicates(s) PROVE ToSet(Tail(s)) = ToSet(s) \ {Head(s)}
  <2>1. ASSUME NEW e \in ToSet(s), e # Head(s) PROVE e \in ToSet(Tail(s))
    <3>1. PICK i \in 1..Len(s) : s[i] = e
      BY <1>1, <2>1 DEF ToSet
    <3>2. i - 1 \in 1..(Len(s) - 1) /\ Tail(s)[i - 1] = e
      BY <1>1, <2>1, <3>1
    <3> QED BY <1>1, <3>2 DEF ToSet
  <2>2. ASSUME NEW e \in ToSet(Tail(s)) PROVE e \in ToSet(s) /\ e # Head(s)
    BY <1>1, <1>4, <2>2 DEF ToSet, NoDuplicates
  <2> QED BY <2>1, <2>2
<1> QED BY <1>1, <1>2, <1>3, <1>4

LEMMA RemoveAtFacts ==
    ASSUME NEW S, NEW s \in Seq(S), NEW n \in DOMAIN s
    PROVE  /\ RemoveAt(s, n) \in Seq(S)
           /\ NoDuplicates(s) => /\ ToSet(RemoveAt(s, n)) = ToSet(s) \ {s[n]}
                                 /\ NoDuplicates(RemoveAt(s, n))
<1>. DEFINE r == RemoveAt(s, n)
<1>1. Len(s) \in Nat /\ DOMAIN s = 1..Len(s) /\ n \in 1..Len(s)
  OBVIOUS
<1>2. /\ r \in Seq(S) /\ DOMAIN r = 1..(Len(s) - 1)
      /\ \A i \in 1..(Len(s) - 1) : r[i] = IF i < n THEN s[i] ELSE s[i + 1]
  <2>. DEFINE a == SubSeq(s, 1, n - 1)
              b == SubSeq(s, n + 1, Len(s))
  <2>1. /\ a \in Seq(S) /\ Len(a) = n - 1
        /\ \A i \in 1..(n - 1) : a[i] = s[i]
    BY <1>1
  <2>2. /\ b \in Seq(S) /\ Len(b) = Len(s) - n
        /\ \A i \in 1..(Len(s) - n) : b[i] = s[i + n]
    BY <1>1
  <2>3. r = a \o b
    BY DEF RemoveAt
  <2>. HIDE DEF a, b, r
  <2>4. r \in Seq(S) /\ Len(r) = Len(s) - 1 /\ DOMAIN r = 1..(Len(s) - 1)
    <3>1. r \in Seq(S) /\ Len(r) = Len(a) + Len(b)
      BY <2>1, <2>2, <2>3, ConcatProperties
    <3>2. Len(r) = Len(s) - 1
      BY <1>1, <2>1, <2>2, <3>1
    <3> QED BY <3>1, <3>2
  <2>5. ASSUME NEW i \in 1..(Len(s) - 1), i < n PROVE r[i] = s[i]
    BY <1>1, <2>1, <2>2, <2>3, <2>5
  <2>6. ASSUME NEW i \in 1..(Len(s) - 1), ~(i < n) PROVE r[i] = s[i + 1]
    <3>0. /\ n \in Nat /\ Len(s) \in Nat /\ n <= Len(s)
          /\ i \in 1..(Len(a) + Len(b)) /\ ~(i <= Len(a)) /\ i - Len(a) = i - (n - 1)
      BY <1>1, <2>1, <2>2, <2>6
    <3>a. (a \o b)[i] = IF i <= Len(a) THEN a[i] ELSE b[i - Len(a)]
      BY <2>1, <2>2, <3>0, ConcatProperties
    <3>1. r[i] = b[i - (n - 1)]
      BY <2>3, <3>0, <3>a
    <3>2. i - (n - 1) \in 1..(Len(s) - n) /\ (i - (n - 1)) + n = i + 1
      BY <1>1, <2>6
    <3> QED BY <2>2, <3>1, <3>2
  <2> QED BY <2>4, <2>5, <2>6
<1>. HIDE DEF r
<1>3. ASSUME NoDuplicates(s) PROVE NoDuplicates(r)
  <2>1. ASSUME NEW i \in 1..(Len(s) - 1), NEW k \in 1..(Len(s) - 1), r[i] = r[k]
        PROVE  i = k
    <3>. DEFINE at(x) == IF x < n THEN x ELSE x + 1
    <3>1. at(i) \in 1..Len(s) /\ at(k) \in 1..Len(s) /\ s[at(i)] = s[at(k)]
      BY <1>1, <1>2, <2>1
    <3>2. at(i) = at(k)
      BY <1>1, <1>3, <3>1 DEF NoDuplicates
    <3> QED BY <1>1, <3>2
  <2> QED BY <1>2, <2>1 DEF NoDuplicates
<1>4. ASSUME NoDuplicates(s) PROVE ToSet(r) = ToSet(s) \ {s[n]}
  <2>1. ASSUME NEW e \in ToSet(s), e # s[n] PROVE e \in ToSet(r)
    <3>1. PICK i \in 1..Len(s) : s[i] = e
      BY <1>1, <2>1 DEF ToSet
    <3>2. CASE i < n
      BY <1>1, <1>2, <3>1, <3>2 DEF ToSet
    <3>3. CASE i > n
      <4>1. i - 1 \in 1..(Len(s) - 1) /\ r[i - 1] = e
        BY <1>1, <1>2, <3>1, <3>3
      <4> QED BY <1>2, <4>1 DEF ToSet
    <3> QED BY <1>1, <2>1, <3>1, <3>2, <3>3
  <2>2. ASSUME NEW e \in ToSet(r) PROVE e \in ToSet(s) /\ e # s[n]
    <3>1. PICK i \in 1..(Len(s) - 1) : r[i] = e
      BY <1>2, <2>2 DEF ToSet
    <3>. DEFINE m == IF i < n THEN i ELSE i + 1
    <3>2. m \in 1..Len(s) /\ m # n /\ s[m] = e
      BY <1>1, <1>2, <3>1
    <3> QED BY <1>1, <1>4, <3>2 DEF ToSet, NoDuplicates
  <2> QED BY <2>1, <2>2
<1> QED BY <1>2, <1>3, <1>4 DEF r

(* The loop of _retain_locked, on a deque that held at most n entries      *)
(* before the append, pops at most the oldest entry.                       *)
LEMMA TrimFacts ==
    ASSUME NEW S, NEW s \in Seq(S), NEW e \in S, NEW n \in Nat, Len(s) <= n,
           NoDuplicates(s), e \notin ToSet(s)
    PROVE  LET order == Append(s, e)
               over  == IF Len(order) > n THEN Len(order) - n ELSE 0
               kept  == SubSeq(order, over + 1, Len(order))
               gone  == {order[i] : i \in 1..over}
           IN  /\ kept \in Seq(S)
               /\ NoDuplicates(kept)
               /\ ToSet(kept) = (ToSet(s) \cup {e}) \ gone
               /\ gone \subseteq ToSet(s) \cup {e}
               /\ Len(kept) <= n
               /\ gone # {} => Len(kept) = n
               /\ Len(kept) >= Len(s)
<1>. DEFINE order == Append(s, e)
            over  == IF Len(order) > n THEN Len(order) - n ELSE 0
            kept  == SubSeq(order, over + 1, Len(order))
            gone  == {order[i] : i \in 1..over}
<1>1. /\ order \in Seq(S) /\ Len(order) = Len(s) + 1 /\ Len(s) \in Nat
      /\ ToSet(order) = ToSet(s) \cup {e} /\ NoDuplicates(order)
      /\ DOMAIN order = 1..Len(order)
  BY AppendFacts
<1>2. over \in 0..1 /\ over \in 0..Len(order) /\ (over = 1 => Len(s) = n)
  BY <1>1
<1>. HIDE DEF order, over
<1>3. /\ kept \in Seq(S) /\ Len(kept) = Len(order) - over
      /\ DOMAIN kept = 1..(Len(order) - over)
      /\ \A i \in 1..(Len(order) - over) : kept[i] = order[i + over]
  BY <1>1, <1>2, SubSeqProperties
<1>. HIDE DEF kept
<1>4. NoDuplicates(kept)
  <2> SUFFICES ASSUME NEW i \in 1..(Len(order) - over), NEW k \in 1..(Len(order) - over),
                      kept[i] = kept[k]
               PROVE  i = k
    BY <1>3 DEF NoDuplicates
  <2>1. i + over \in 1..Len(order) /\ k + over \in 1..Len(order)
    BY <1>1, <1>2
  <2>2. order[i + over] = order[k + over]
    BY <1>3
  <2>3. i + over = k + over
    BY <1>1, <2>1, <2>2 DEF NoDuplicates
  <2> QED BY <1>2, <2>3
<1>5. ToSet(kept) = ToSet(order) \ gone
  <2>1. ASSUME NEW x \in ToSet(order), x \notin gone PROVE x \in ToSet(kept)
    <3>1. PICK i \in 1..Len(order) : order[i] = x
      BY <1>1, <2>1 DEF ToSet
    <3>2. i > over
      BY <1>1, <1>2, <2>1, <3>1
    <3>3. i - over \in 1..(Len(order) - over) /\ kept[i - over] = x
      BY <1>1, <1>2, <1>3, <3>1, <3>2
    <3> QED BY <1>3, <3>3 DEF ToSet
  <2>2. ASSUME NEW x \in ToSet(kept) PROVE x \in ToSet(order) /\ x \notin gone
    <3>1. PICK i \in 1..(Len(order) - over) : kept[i] = x
      BY <1>3, <2>2 DEF ToSet
    <3>2. i + over \in 1..Len(order) /\ i + over > over
      BY <1>1, <1>2
    <3>3. order[i + over] = x
      BY <1>3, <3>1
    <3>. DEFINE m == i + over
    <3>4. m \in 1..Len(order) /\ m > over /\ order[m] = x
      BY <3>2, <3>3
    <3>. HIDE DEF m
    <3>5. ASSUME NEW k \in 1..over PROVE order[k] # x
      <4>1. k \in 1..Len(order) /\ k # m
        BY <1>1, <1>2, <3>4
      <4> QED BY <1>1, <3>4, <4>1 DEF NoDuplicates
    <3> QED BY <1>1, <3>4, <3>5 DEF ToSet
  <2> QED BY <2>1, <2>2
<1>6. gone \subseteq ToSet(order)
  BY <1>1, <1>2 DEF ToSet
<1>7. Len(kept) <= n /\ Len(kept) >= Len(s) /\ (gone # {} => Len(kept) = n)
  BY <1>1, <1>2, <1>3 DEF over
<1> QED BY <1>1, <1>3, <1>4, <1>5, <1>6, <1>7 DEF order, over, kept
-----------------------------------------------------------------------------
(* Whatever the order of submits, cancels, worker steps and polls, every   *)
(* field of the registry keeps its type.                                   *)
LEMMA RetainType ==
    ASSUME completedOrder \in Seq(Jobs), known \subseteq Jobs, MaxCompleted \in Nat,
           NEW j \in Jobs, Retain(j)
    PROVE  completedOrder' \in Seq(Jobs) /\ known' \subseteq Jobs
<1>. DEFINE order == Append(completedOrder, j)
            over  == IF Len(order) > MaxCompleted THEN Len(order) - MaxCompleted ELSE 0
<1>1. order \in Seq(Jobs) /\ Len(order) \in Nat /\ over \in 0..Len(order)
  OBVIOUS
<1>2. completedOrder' = SubSeq(order, over + 1, Len(order)) /\ known' \subseteq known
  BY DEF Retain
<1>. HIDE DEF order, over
<1>3. \A i \in (over + 1)..Len(order) : order[i] \in Jobs
  BY <1>1
<1>4. SubSeq(order, over + 1, Len(order)) \in Seq(Jobs)
  BY <1>1, <1>3, SubSeqProperties
<1> QED BY <1>2, <1>4

(* A cancel takes a queued job out of the queue. *)
LEMMA CancelQueuedQueue ==
    ASSUME TypeOK, QueueExact, NEW j \in Jobs, CancelQueued(j)
    PROVE  /\ queue' \in Seq(Jobs)
           /\ \E i \in DOMAIN queue : queue[i] = j /\ queue' = RemoveAt(queue, i)
           /\ ToSet(queue') = ToSet(queue) \ {j}
           /\ NoDuplicates(queue')
<1>1. j \in ToSet(queue)
  BY DEF CancelQueued, MayDrop, Dequeue, QueueExact
<1>2. PICK i \in DOMAIN queue : queue[i] = j /\ queue' = RemoveAt(queue, i)
  BY <1>1 DEF CancelQueued, MayDrop, Dequeue
<1> QED BY <1>2, RemoveAtFacts DEF TypeOK, QueueExact

LEMMA CancelQueuedType ==
    ASSUME TypeOK, NEW j \in Jobs, CancelQueued(j)
    PROVE  queue' \in Seq(Jobs)
<1>1. CASE j \in ToSet(queue)
  <2>1. PICK i \in DOMAIN queue : queue' = RemoveAt(queue, i)
    BY <1>1 DEF CancelQueued, MayDrop, Dequeue
  <2> QED BY <2>1, RemoveAtFacts DEF TypeOK
<1>2. CASE j \notin ToSet(queue)
  BY <1>2 DEF CancelQueued, MayDrop, Dequeue, TypeOK
<1> QED BY <1>1, <1>2

(* canceling and workerJob are jobs where they are used as one. *)
HoldsJob ==
    /\ lock = "cancel" => canceling \in Jobs
    /\ workerPc \in {"running", "ended", "recording"} => workerJob \in Jobs
    /\ \A p \in Pollers : poll[p].at # "idle" => poll[p].job \in Jobs

LEMMA NoEnvelopeType == NoEnvelope \in Envelopes /\ NoEnvelope.at = "idle"
  BY DEF NoEnvelope, Envelopes, None

LEMMA TypeInit == Init => TypeOK /\ HoldsJob
<1>. SUFFICES ASSUME Init PROVE TypeOK /\ HoldsJob
  OBVIOUS
<1>1. poll \in [Pollers -> Envelopes] /\ reply \in [Pollers -> Envelopes]
  BY NoEnvelopeType DEF Init
<1>2. HoldsJob
  BY NoEnvelopeType DEF Init, HoldsJob
<1>3. <<>> \in Seq(Jobs)
  OBVIOUS
<1>4. /\ status \in [Jobs -> Statuses] /\ output \in [Jobs -> {None, "output"}]
      /\ error \in [Jobs -> Errors \cup {None}] /\ cancelFlag \in [Jobs -> BOOLEAN]
  BY DEF Init, Statuses
<1>5. queue \in Seq(Jobs) /\ completedOrder \in Seq(Jobs)
  BY <1>3 DEF Init
<1> QED BY <1>1, <1>2, <1>4, <1>5 DEF Init, TypeOK

LEMMA TypeStep ==
    ASSUME TypeOK, HoldsJob, [Next]_vars
    PROVE  TypeOK' /\ HoldsJob'
<1>. USE RegistryAssumption
<1>1. CASE UNCHANGED vars
  BY <1>1 DEF vars, TypeOK, HoldsJob
<1>2. ASSUME NEW j \in Jobs, Submit(j) PROVE TypeOK' /\ HoldsJob'
  BY <1>2 DEF Submit, EnsureWorker, TypeOK, HoldsJob, pollVars, Statuses
<1>3. ASSUME NEW j \in Jobs, CancelQueued(j) PROVE TypeOK' /\ HoldsJob'
  BY <1>3, CancelQueuedType DEF CancelQueued, MayDrop, Dequeue, TypeOK, HoldsJob, pollVars, Statuses, Terminal
<1>4. ASSUME NEW j \in Jobs, CancelRunning(j) PROVE TypeOK' /\ HoldsJob'
  BY <1>4 DEF CancelRunning, MayFlag, TypeOK, HoldsJob, pollVars
<1>5. CASE CancelQueuedEnd
  BY <1>5, RetainType DEF CancelQueuedEnd, TypeOK, HoldsJob, pollVars, Errors
<1>6. CASE Shutdown
  BY <1>6 DEF Shutdown, WakeAll, TypeOK, HoldsJob, pollVars, jobVars
<1>7. CASE WorkerWait \/ WorkerLeave \/ WorkerGone
  BY <1>7 DEF WorkerWait, WorkerLeave, MayLeave, WorkerGone, TypeOK, HoldsJob, pollVars, jobVars
<1>8. CASE WorkerTake
  <2>1. Tail(queue) \in Seq(Jobs) /\ Head(queue) \in Jobs
    BY <1>8 DEF WorkerTake, Pop, TypeOK
  <2> QED BY <1>8, <2>1 DEF WorkerTake, Pop, TypeOK, HoldsJob, pollVars, Statuses
<1>9. CASE Run
  BY <1>9 DEF Run, RunEnds, RunSeesCancel, IsCancelled, TypeOK, HoldsJob, pollVars, jobVars, Outcomes
<1>10. CASE RecordOutput \/ RecordFailed
  BY <1>10 DEF RecordOutput, FirstWrite, RecordFailed, TypeOK, HoldsJob, pollVars, Statuses, Terminal
<1>11. CASE RecordEnd
  BY <1>11, RetainType DEF RecordEnd, ErrorText, TypeOK, HoldsJob, pollVars, Statuses, Terminal, Errors
<1>12. ASSUME NEW p \in Pollers, NEW j \in Jobs, PollGet(p, j) PROVE TypeOK' /\ HoldsJob'
  <2>1. /\ [NoEnvelope EXCEPT !.at = "status", !.job = j] \in Envelopes
        /\ [NoEnvelope EXCEPT !.at = "status", !.job = j].job = j
        /\ [NoEnvelope EXCEPT !.job = j, !.status = "404"] \in Envelopes
    BY DEF NoEnvelope, Envelopes, None
  <2>2. poll' \in [Pollers -> Envelopes] /\ reply' \in [Pollers -> Envelopes]
    BY <1>12, <2>1, NoEnvelopeType DEF PollGet, Answer, TypeOK
  <2>3. \A q \in Pollers : poll'[q].at # "idle" => poll'[q].job \in Jobs
    BY <1>12, <2>1, NoEnvelopeType DEF PollGet, Answer, TypeOK, HoldsJob
  <2> QED BY <1>12, <2>2, <2>3 DEF PollGet, TypeOK, HoldsJob, jobVars
<1>13. ASSUME NEW p \in Pollers, PollStatus(p) PROVE TypeOK' /\ HoldsJob'
  <2>. DEFINE e == [poll[p] EXCEPT !.at = "output", !.status = status[poll[p].job]]
  <2>1. e \in Envelopes /\ e.job = poll[p].job /\ poll[p].job \in Jobs
    BY <1>13 DEF PollStatus, TypeOK, HoldsJob, Envelopes
  <2>2. poll' = [poll EXCEPT ![p] = e]
    BY <1>13 DEF PollStatus
  <2>. HIDE DEF e
  <2>3. poll' \in [Pollers -> Envelopes]
    BY <2>1, <2>2 DEF TypeOK
  <2>4. \A q \in Pollers : poll'[q].at # "idle" => poll'[q].job \in Jobs
    BY <2>1, <2>2 DEF TypeOK, HoldsJob
  <2> QED BY <1>13, <2>3, <2>4 DEF PollStatus, TypeOK, HoldsJob, jobVars
<1>14. ASSUME NEW p \in Pollers, PollOutput(p) PROVE TypeOK' /\ HoldsJob'
  <2>. DEFINE j == poll[p].job
              e == [poll[p] EXCEPT !.at = "error",
                      !.output = IF status[j] = "COMPLETED" THEN output[j] ELSE None]
  <2>1. e \in Envelopes /\ e.job = j /\ j \in Jobs
    BY <1>14 DEF PollOutput, TypeOK, HoldsJob, Envelopes
  <2>2. poll' = [poll EXCEPT ![p] = e]
    BY <1>14 DEF PollOutput
  <2>. HIDE DEF e
  <2>3. poll' \in [Pollers -> Envelopes]
    BY <2>1, <2>2 DEF TypeOK
  <2>4. \A q \in Pollers : poll'[q].at # "idle" => poll'[q].job \in Jobs
    BY <2>1, <2>2 DEF TypeOK, HoldsJob
  <2> QED BY <1>14, <2>3, <2>4 DEF PollOutput, TypeOK, HoldsJob, jobVars
<1>15. ASSUME NEW p \in Pollers, PollError(p) PROVE TypeOK' /\ HoldsJob'
  <2>. DEFINE j == poll[p].job
              e == [poll[p] EXCEPT !.at = "idle",
                      !.error = IF status[j] = "FAILED" THEN error[j] ELSE None]
  <2>1. e \in Envelopes
    <3>1. poll[p] \in Envelopes /\ j \in Jobs
      BY <1>15 DEF PollError, TypeOK, HoldsJob
    <3>2. (IF status[j] = "FAILED" THEN error[j] ELSE None) \in Errors \cup {None}
      BY <3>1 DEF TypeOK
    <3> QED BY <3>1, <3>2 DEF Envelopes
  <2>2. reply' = [reply EXCEPT ![p] = e] /\ poll' = [poll EXCEPT ![p] = NoEnvelope]
    BY <1>15 DEF PollError, Answer
  <2>. HIDE DEF e
  <2>3. poll' \in [Pollers -> Envelopes] /\ reply' \in [Pollers -> Envelopes]
    BY <2>1, <2>2, NoEnvelopeType DEF TypeOK
  <2>4. \A q \in Pollers : poll'[q].at # "idle" => poll'[q].job \in Jobs
    BY <2>2, NoEnvelopeType DEF TypeOK, HoldsJob
  <2> QED BY <1>15, <2>3, <2>4 DEF PollError, TypeOK, HoldsJob, jobVars
<1> QED
  BY <1>1, <1>2, <1>3, <1>4, <1>5, <1>6, <1>7, <1>8, <1>9, <1>10, <1>11,
     <1>12, <1>13, <1>14, <1>15
  DEF Next, Handler, Worker, Poll

(* Type correctness: holds in every reachable state. *)
THEOREM TypeCorrect == Spec => []TypeOK
<1>1. TypeOK /\ HoldsJob /\ [Next]_vars => (TypeOK /\ HoldsJob)'
  BY TypeStep
<1> QED BY TypeInit, <1>1, PTL DEF Spec
-----------------------------------------------------------------------------
(* The inductive invariant.  It adds to the properties what happens in the *)
(* middle of a two-step write: who holds the lock, what the job in hand    *)
(* looks like, and which ended job is not retained yet.                    *)

(* The ended jobs whose retention is still to come. *)
Writing == {j \in Jobs : \/ lock = "cancel" /\ j = canceling
                         \/ workerPc = "recording" /\ outcome # "output" /\ j = workerJob}

HandInv ==
    /\ lock = "worker" <=> workerPc = "recording"
    /\ lock = "cancel" => status[canceling] = "FAILED"
    /\ workerPc \in {"running", "ended"} => status[workerJob] = "IN_PROGRESS"
    /\ workerPc = "recording" =>
          status[workerJob] = IF outcome = "output" THEN "IN_PROGRESS" ELSE "FAILED"
    /\ Serial

FlagInv ==
    /\ FlagOnlyWhenStarted
    /\ workerPc \in {"ended", "recording"} /\ outcome = "canceled" => cancelFlag[workerJob]

RetentionInv ==
    /\ known = Live \cup ToSet(completedOrder) \cup Writing
    /\ NoDuplicates(completedOrder)
    /\ ToSet(completedOrder) \subseteq {j \in Jobs : status[j] \in Terminal}
    /\ ToSet(completedOrder) \cap Writing = {}
    /\ Len(completedOrder) <= MaxCompleted
    /\ (\E j \in Jobs : status[j] # "NEW" /\ j \notin known)
           => Len(completedOrder) = MaxCompleted

Inv == TypeOK /\ HoldsJob /\ HandInv /\ QueueExact /\ FlagInv /\ RetentionInv

(* _retain_locked forgets only jobs that have ended, and only when it must. *)
LEMMA RetainFacts ==
    ASSUME Inv, NEW j \in Jobs, j \notin ToSet(completedOrder), Retain(j)
    PROVE  \E gone \in SUBSET Jobs :
             /\ known' = known \ gone
             /\ gone \subseteq ToSet(completedOrder) \cup {j}
             /\ ToSet(completedOrder') = (ToSet(completedOrder) \cup {j}) \ gone
             /\ NoDuplicates(completedOrder')
             /\ Len(completedOrder') <= MaxCompleted
             /\ gone # {} => Len(completedOrder') = MaxCompleted
             /\ Len(completedOrder) = MaxCompleted => Len(completedOrder') = MaxCompleted
<1>. USE RegistryAssumption
<1>. DEFINE order == Append(completedOrder, j)
            over  == IF Len(order) > MaxCompleted THEN Len(order) - MaxCompleted ELSE 0
            gone  == {order[i] : i \in 1..over}
<1>1. completedOrder' = SubSeq(order, over + 1, Len(order)) /\ known' = known \ gone
  BY DEF Retain
<1>2. /\ completedOrder \in Seq(Jobs) /\ Len(completedOrder) <= MaxCompleted
      /\ Len(completedOrder) \in Nat /\ NoDuplicates(completedOrder)
  BY DEF Inv, TypeOK, RetentionInv
<1>3. /\ NoDuplicates(completedOrder')
      /\ ToSet(completedOrder') = (ToSet(completedOrder) \cup {j}) \ gone
      /\ gone \subseteq ToSet(completedOrder) \cup {j}
      /\ Len(completedOrder') <= MaxCompleted
      /\ gone # {} => Len(completedOrder') = MaxCompleted
      /\ Len(completedOrder') >= Len(completedOrder)
      /\ completedOrder' \in Seq(Jobs)
  BY <1>1, <1>2, TrimFacts, SMTT(30)
<1>. HIDE DEF gone
<1>4. Len(completedOrder) = MaxCompleted => Len(completedOrder') = MaxCompleted
  <2>1. Len(completedOrder') \in Nat
    BY <1>3
  <2> QED BY <2>1, <1>3
<1>5. gone \in SUBSET Jobs
  BY <1>2, <1>3 DEF ToSet
<1> QED BY <1>1, <1>3, <1>4, <1>5

LEMMA InvInit == Init => Inv
<1>. SUFFICES ASSUME Init PROVE Inv
  OBVIOUS
<1>1. TypeOK /\ HoldsJob
  BY TypeInit
<1>2. ToSet(<<>>) = {} /\ NoDuplicates(<<>>) /\ Len(<<>>) = 0
  BY DEF ToSet, NoDuplicates
<1>3. HandInv /\ FlagInv
  BY DEF Init, HandInv, Serial, FlagInv, FlagOnlyWhenStarted, None
<1>4. QueueExact
  BY <1>2 DEF Init, QueueExact
<1>5. RetentionInv
  BY <1>2, RegistryAssumption DEF Init, RetentionInv, Live, Writing
<1> QED BY <1>1, <1>3, <1>4, <1>5 DEF Inv

(* Steps that touch only the status handlers. *)
LEMMA PollKeepsInv ==
    ASSUME Inv, TypeOK', HoldsJob',
           UNCHANGED <<jobVars, known, queue, completedOrder, stop, lock, canceling,
                       workerPc, workerJob, outcome>>
    PROVE  Inv'
  BY DEF Inv, HandInv, Serial, FlagInv, FlagOnlyWhenStarted, QueueExact, RetentionInv,
         Live, Writing, jobVars, NoDuplicates, ToSet

LEMMA SubmitKeepsInv ==
    ASSUME Inv, TypeOK', HoldsJob', NEW j \in Jobs, Submit(j)
    PROVE  Inv'
<1>. USE DEF Submit, EnsureWorker, jobVars, pollVars
<1>1. status' = [status EXCEPT ![j] = "IN_QUEUE"] /\ status[j] = "NEW"
  OBVIOUS
<1>2. HandInv'
  BY DEF Inv, TypeOK, HoldsJob, HandInv, Serial
<1>3. FlagInv'
  <2>1. ~cancelFlag[j] /\ \A k \in Jobs : k # j => status'[k] = status[k]
    BY DEF Inv, TypeOK, FlagInv, FlagOnlyWhenStarted, Terminal
  <2> QED BY <2>1 DEF Inv, FlagInv, FlagOnlyWhenStarted
<1>4. QueueExact'
  <2>1. j \notin ToSet(queue)
    BY DEF Inv, QueueExact
  <2>2. ToSet(queue') = ToSet(queue) \cup {j} /\ NoDuplicates(queue')
    BY <2>1, AppendFacts DEF Inv, QueueExact, TypeOK
  <2> QED BY <2>2 DEF Inv, QueueExact, TypeOK
<1>5. RetentionInv'
  <2>1. Writing' = Writing /\ Live' = Live \cup {j}
    BY DEF Inv, TypeOK, Writing, Live
  <2>2. j \notin ToSet(completedOrder)
    BY DEF Inv, RetentionInv, Terminal
  <2> QED BY <2>1, <2>2 DEF Inv, TypeOK, RetentionInv
<1> QED BY <1>2, <1>3, <1>4, <1>5 DEF Inv

LEMMA CancelQueuedKeepsInv ==
    ASSUME Inv, TypeOK', HoldsJob', NEW j \in Jobs, CancelQueued(j)
    PROVE  Inv'
<1>1. /\ status' = [status EXCEPT ![j] = "FAILED"] /\ status[j] = "IN_QUEUE"
      /\ lock = "free" /\ lock' = "cancel" /\ canceling' = j /\ j \in known
      /\ UNCHANGED <<output, error, cancelFlag, known, completedOrder, stop,
                     workerPc, workerJob, outcome>>
  BY DEF CancelQueued, MayDrop, Dequeue
<1>2. HandInv'
  BY <1>1 DEF Inv, TypeOK, HoldsJob, HandInv, Serial
<1>3. FlagInv'
  BY <1>1 DEF Inv, TypeOK, FlagInv, FlagOnlyWhenStarted, Terminal
<1>4. QueueExact'
  <2>1. ToSet(queue') = ToSet(queue) \ {j} /\ NoDuplicates(queue')
    BY CancelQueuedQueue DEF Inv
  <2> QED BY <1>1, <2>1 DEF Inv, QueueExact, TypeOK
<1>5. RetentionInv'
  <2>1. Writing = {} /\ Writing' = {j}
    BY <1>1 DEF Inv, HandInv, Writing
  <2>2. Live' = Live \ {j} /\ j \in Live
    BY <1>1 DEF Inv, TypeOK, Live
  <2>3. j \notin ToSet(completedOrder)
    BY <1>1 DEF Inv, RetentionInv, Terminal
  <2> QED BY <1>1, <2>1, <2>2, <2>3 DEF Inv, TypeOK, RetentionInv, Terminal
<1> QED BY <1>2, <1>3, <1>4, <1>5 DEF Inv

LEMMA CancelQueuedEndKeepsInv ==
    ASSUME Inv, TypeOK', HoldsJob', CancelQueuedEnd
    PROVE  Inv'
<1>1. /\ lock = "cancel" /\ lock' = "free" /\ canceling \in Jobs
      /\ error' = [error EXCEPT ![canceling] = "canceled before start"]
      /\ UNCHANGED <<status, output, cancelFlag, queue, stop, workerPc, workerJob, outcome>>
      /\ Retain(canceling)
  BY DEF CancelQueuedEnd, Inv, HoldsJob
<1>2. HandInv'
  BY <1>1 DEF Inv, HandInv, Serial
<1>3. FlagInv'
  BY <1>1 DEF Inv, TypeOK, FlagInv, FlagOnlyWhenStarted
<1>4. QueueExact'
  BY <1>1 DEF Inv, QueueExact
<1>5. RetentionInv'
  <2>1. Writing = {canceling} /\ Writing' = {} /\ Live' = Live
    BY <1>1 DEF Inv, HandInv, Writing, Live
  <2>2. canceling \notin ToSet(completedOrder)
    BY <2>1 DEF Inv, RetentionInv
  <2>3. status[canceling] = "FAILED" /\ canceling \notin Live
    BY <1>1 DEF Inv, HandInv, Live
  <2>4. ToSet(completedOrder) \cap Live = {}
    BY DEF Inv, RetentionInv, Live, Terminal
  <2>5. PICK gone \in SUBSET Jobs :
             /\ known' = known \ gone
             /\ gone \subseteq ToSet(completedOrder) \cup {canceling}
             /\ ToSet(completedOrder') = (ToSet(completedOrder) \cup {canceling}) \ gone
             /\ NoDuplicates(completedOrder')
             /\ Len(completedOrder') <= MaxCompleted
             /\ gone # {} => Len(completedOrder') = MaxCompleted
             /\ Len(completedOrder) = MaxCompleted => Len(completedOrder') = MaxCompleted
    BY <1>1, <2>2, RetainFacts
  <2>6. known' = Live' \cup ToSet(completedOrder') \cup Writing'
    BY <2>1, <2>3, <2>4, <2>5 DEF Inv, RetentionInv
  <2>7. ToSet(completedOrder') \subseteq {k \in Jobs : status'[k] \in Terminal}
    BY <1>1, <2>3, <2>5 DEF Inv, RetentionInv, Terminal
  <2>8. (\E k \in Jobs : status'[k] # "NEW" /\ k \notin known')
           => Len(completedOrder') = MaxCompleted
    BY <1>1, <2>5 DEF Inv, RetentionInv
  <2> QED BY <2>1, <2>5, <2>6, <2>7, <2>8 DEF RetentionInv
<1> QED BY <1>2, <1>3, <1>4, <1>5 DEF Inv

LEMMA CancelRunningKeepsInv ==
    ASSUME Inv, TypeOK', HoldsJob', NEW j \in Jobs, CancelRunning(j)
    PROVE  Inv'
<1>1. FlagInv'
  BY DEF CancelRunning, MayFlag, Inv, TypeOK, HoldsJob, FlagInv, FlagOnlyWhenStarted
<1>2. HandInv' /\ QueueExact' /\ RetentionInv'
  BY DEF CancelRunning, MayFlag, Inv, HandInv, Serial, QueueExact, RetentionInv, Live, Writing,
         NoDuplicates, ToSet
<1> QED BY <1>1, <1>2 DEF Inv

(* Shutdown, and the worker thread going to sleep, leaving or gone. *)
LEMMA IdleStepKeepsInv ==
    ASSUME Inv, TypeOK', HoldsJob',
           Shutdown \/ WorkerWait \/ WorkerLeave \/ WorkerGone
    PROVE  Inv'
<1>1. /\ UNCHANGED <<status, output, error, cancelFlag, known, queue, completedOrder,
                     lock, canceling, workerJob, outcome>>
      /\ workerPc' \in {"waiting", "leaving", "none", "check", workerPc}
      /\ workerPc' # workerPc => workerPc \notin {"running", "ended", "recording"}
  BY DEF Shutdown, WakeAll, WorkerWait, WorkerLeave, MayLeave, WorkerGone, jobVars
<1>2. HandInv'
  BY <1>1 DEF Inv, TypeOK, HandInv, Serial
<1>3. FlagInv' /\ QueueExact'
  BY <1>1 DEF Inv, FlagInv, FlagOnlyWhenStarted, QueueExact, NoDuplicates, ToSet
<1>4. RetentionInv'
  <2>1. Writing' = Writing /\ Live' = Live
    BY <1>1 DEF Writing, Live
  <2> QED BY <1>1, <2>1 DEF Inv, RetentionInv, NoDuplicates, ToSet
<1> QED BY <1>2, <1>3, <1>4 DEF Inv

LEMMA WorkerTakeKeepsInv ==
    ASSUME Inv, TypeOK', HoldsJob', WorkerTake
    PROVE  Inv'
<1>. DEFINE j == Head(queue)
<1>1. j \in Jobs /\ j \in ToSet(queue) /\ ToSet(queue') = ToSet(queue) \ {j} /\ NoDuplicates(queue')
  BY TailFacts DEF WorkerTake, Pop, Inv, TypeOK, QueueExact
<1>2. status[j] = "IN_QUEUE" /\ j \in known
  BY <1>1 DEF Inv, QueueExact, RetentionInv, Live
<1>. HIDE DEF j
<1>3. /\ workerPc = "check" /\ workerPc' = "running" /\ workerJob' = j /\ lock = "free"
      /\ status' = [status EXCEPT ![j] = "IN_PROGRESS"]
      /\ UNCHANGED <<output, error, cancelFlag, known, completedOrder, stop, lock,
                     canceling, outcome>>
  BY <1>2 DEF WorkerTake, Pop, j
<1>4. HandInv'
  BY <1>1, <1>2, <1>3 DEF Inv, TypeOK, HandInv, Serial
<1>5. FlagInv'
  <2>1. \A k \in Jobs : status'[k] = status[k] \/ status'[k] = "IN_PROGRESS"
    BY <1>1, <1>3 DEF Inv, TypeOK
  <2>2. \A k \in Jobs : cancelFlag[k] => status'[k] \in {"IN_PROGRESS"} \cup Terminal
    BY <2>1 DEF Inv, FlagInv, FlagOnlyWhenStarted
  <2> QED BY <1>3, <2>2 DEF Inv, FlagInv, FlagOnlyWhenStarted
<1>6. QueueExact'
  BY <1>1, <1>2, <1>3 DEF Inv, TypeOK, QueueExact
<1>7. RetentionInv'
  <2>1. Writing = {} /\ Writing' = {} /\ Live' = Live
    BY <1>1, <1>2, <1>3 DEF Inv, TypeOK, Writing, Live
  <2>2. j \notin ToSet(completedOrder)
    BY <1>2 DEF Inv, RetentionInv, Terminal
  <2> QED BY <1>1, <1>2, <1>3, <2>1, <2>2 DEF Inv, TypeOK, RetentionInv
<1> QED BY <1>4, <1>5, <1>6, <1>7 DEF Inv

LEMMA RunKeepsInv ==
    ASSUME Inv, TypeOK', HoldsJob', Run
    PROVE  Inv'
<1>1. /\ UNCHANGED <<status, output, error, cancelFlag, known, queue, completedOrder,
                     lock, canceling, workerJob>>
      /\ workerPc = "running" /\ workerPc' = "ended"
      /\ outcome' = "canceled" => cancelFlag[workerJob]
  BY DEF Run, RunEnds, RunSeesCancel, IsCancelled, jobVars
<1>2. HandInv'
  BY <1>1 DEF Inv, HandInv, Serial
<1>3. FlagInv' /\ QueueExact'
  BY <1>1 DEF Inv, FlagInv, FlagOnlyWhenStarted, QueueExact, NoDuplicates, ToSet
<1>4. RetentionInv'
  <2>1. Writing' = Writing /\ Live' = Live
    BY <1>1 DEF Writing, Live
  <2> QED BY <1>1, <2>1 DEF Inv, RetentionInv, NoDuplicates, ToSet
<1> QED BY <1>2, <1>3, <1>4 DEF Inv

LEMMA RecordOutputKeepsInv ==
    ASSUME Inv, TypeOK', HoldsJob', RecordOutput
    PROVE  Inv'
<1>1. /\ UNCHANGED <<status, error, cancelFlag, known, queue, completedOrder,
                     canceling, workerJob, outcome>>
      /\ workerPc = "ended" /\ workerPc' = "recording" /\ outcome = "output"
      /\ lock = "free" /\ lock' = "worker"
  BY DEF RecordOutput, FirstWrite
<1>2. HandInv'
  BY <1>1 DEF Inv, HandInv, Serial
<1>3. FlagInv' /\ QueueExact'
  BY <1>1 DEF Inv, FlagInv, FlagOnlyWhenStarted, QueueExact, NoDuplicates, ToSet
<1>4. RetentionInv'
  <2>1. Writing' = Writing /\ Live' = Live
    BY <1>1 DEF Writing, Live
  <2> QED BY <1>1, <2>1 DEF Inv, RetentionInv, NoDuplicates, ToSet
<1> QED BY <1>2, <1>3, <1>4 DEF Inv

LEMMA RecordFailedKeepsInv ==
    ASSUME Inv, TypeOK', HoldsJob', RecordFailed
    PROVE  Inv'
<1>1. /\ UNCHANGED <<output, error, cancelFlag, known, queue, completedOrder,
                     canceling, workerJob, outcome>>
      /\ workerPc = "ended" /\ workerPc' = "recording" /\ outcome # "output"
      /\ lock = "free" /\ lock' = "worker"
      /\ status' = [status EXCEPT ![workerJob] = "FAILED"]
      /\ workerJob \in Jobs /\ status[workerJob] = "IN_PROGRESS"
  BY DEF RecordFailed, Inv, HandInv, HoldsJob
<1>2. HandInv'
  BY <1>1 DEF Inv, TypeOK, HandInv, Serial
<1>3. FlagInv'
  BY <1>1 DEF Inv, TypeOK, FlagInv, FlagOnlyWhenStarted, Terminal
<1>4. QueueExact'
  <2>1. {k \in Jobs : status'[k] = "IN_QUEUE"} = {k \in Jobs : status[k] = "IN_QUEUE"}
    BY <1>1 DEF Inv, TypeOK
  <2> QED BY <1>1, <2>1 DEF Inv, QueueExact
<1>5. RetentionInv'
  <2>1. Writing = {} /\ Writing' = {workerJob}
    BY <1>1 DEF Writing
  <2>2. Live' = Live \ {workerJob} /\ workerJob \in Live
    BY <1>1 DEF Inv, TypeOK, Live
  <2>3. workerJob \notin ToSet(completedOrder)
    BY <1>1 DEF Inv, RetentionInv, Terminal
  <2> QED BY <1>1, <2>1, <2>2, <2>3 DEF Inv, TypeOK, RetentionInv, Terminal
<1> QED BY <1>2, <1>3, <1>4, <1>5 DEF Inv

LEMMA RecordEndKeepsInv ==
    ASSUME Inv, TypeOK', HoldsJob', RecordEnd
    PROVE  Inv'
<1>. DEFINE j == workerJob
<1>1. /\ UNCHANGED <<output, cancelFlag, queue, stop, canceling>>
      /\ workerPc = "recording" /\ workerPc' = "check" /\ workerJob' = NoJob
      /\ lock = "worker" /\ lock' = "free" /\ outcome' = None
      /\ j \in Jobs /\ Retain(j)
      /\ status[j] = IF outcome = "output" THEN "IN_PROGRESS" ELSE "FAILED"
  BY DEF RecordEnd, ErrorText, Inv, HandInv, HoldsJob
<1>2. status' = [status EXCEPT ![j] = IF outcome = "output" THEN "COMPLETED" ELSE "FAILED"]
  BY <1>1 DEF RecordEnd, ErrorText, Inv, TypeOK
<1>. HIDE DEF j
<1>3. HandInv'
  BY <1>1, <1>2 DEF Inv, TypeOK, HandInv, Serial, j
<1>4. FlagInv'
  <2>1. \A k \in Jobs : error'[k] = "canceled" => error[k] = "canceled" \/ cancelFlag[k]
    BY <1>1 DEF RecordEnd, ErrorText, Inv, TypeOK, FlagInv, j
  <2> QED BY <1>1, <1>2, <2>1 DEF Inv, TypeOK, FlagInv, FlagOnlyWhenStarted, Terminal
<1>5. QueueExact'
  BY <1>1, <1>2 DEF Inv, TypeOK, QueueExact, NoDuplicates, ToSet
<1>6. RetentionInv'
  <2>1. j \in Live \cup Writing /\ Writing' = {} /\ Writing \subseteq {j}
    BY <1>1 DEF Writing, Live, j
  <2>2. Live' = Live \ {j}
    BY <1>1, <1>2 DEF Inv, TypeOK, Live
  <2>3. j \notin ToSet(completedOrder)
    BY <1>1, <2>1 DEF Inv, RetentionInv, Live, Terminal
  <2>4. ToSet(completedOrder) \cap Live = {}
    BY DEF Inv, RetentionInv, Live, Terminal
  <2>5. PICK gone \in SUBSET Jobs :
             /\ known' = known \ gone
             /\ gone \subseteq ToSet(completedOrder) \cup {j}
             /\ ToSet(completedOrder') = (ToSet(completedOrder) \cup {j}) \ gone
             /\ NoDuplicates(completedOrder')
             /\ Len(completedOrder') <= MaxCompleted
             /\ gone # {} => Len(completedOrder') = MaxCompleted
             /\ Len(completedOrder) = MaxCompleted => Len(completedOrder') = MaxCompleted
    BY <1>1, <2>3, RetainFacts
  <2>6. known' = Live' \cup ToSet(completedOrder') \cup Writing'
    BY <2>1, <2>2, <2>4, <2>5 DEF Inv, RetentionInv
  <2>7. ToSet(completedOrder') \subseteq {k \in Jobs : status'[k] \in Terminal}
    BY <1>1, <1>2, <2>5 DEF Inv, TypeOK, RetentionInv, Terminal
  <2>8. (\E k \in Jobs : status'[k] # "NEW" /\ k \notin known')
           => Len(completedOrder') = MaxCompleted
    BY <1>1, <1>2, <2>5 DEF Inv, TypeOK, RetentionInv
  <2> QED BY <2>1, <2>5, <2>6, <2>7, <2>8 DEF RetentionInv
<1> QED BY <1>3, <1>4, <1>5, <1>6 DEF Inv

LEMMA InvStep ==
    ASSUME Inv, [Next]_vars
    PROVE  Inv'
<1>1. TypeOK' /\ HoldsJob'
  BY TypeStep DEF Inv
<1>2. CASE UNCHANGED vars
  BY <1>1, <1>2, PollKeepsInv DEF vars, jobVars
<1>3. CASE Handler
  BY <1>1, <1>3, SubmitKeepsInv, CancelQueuedKeepsInv, CancelRunningKeepsInv,
     CancelQueuedEndKeepsInv DEF Handler
<1>4. CASE Shutdown
  BY <1>1, <1>4, IdleStepKeepsInv
<1>5. CASE Worker
  BY <1>1, <1>5, IdleStepKeepsInv, WorkerTakeKeepsInv, RecordOutputKeepsInv,
     RecordFailedKeepsInv, RecordEndKeepsInv DEF Worker
<1>6. CASE Run
  BY <1>1, <1>6, RunKeepsInv
<1>7. CASE Poll
  BY <1>1, <1>7, PollKeepsInv DEF Poll, PollGet, PollStatus, PollOutput, PollError
<1> QED BY <1>2, <1>3, <1>4, <1>5, <1>6, <1>7 DEF Next

\* The inductive invariant holds in every reachable state.
THEOREM Invariance == Spec => []Inv
<1>1. Inv /\ [Next]_vars => Inv'
  BY InvStep
<1> QED BY InvInit, <1>1, PTL DEF Spec

(* One job at a time on the card, whatever the HTTP threads do. *)
THEOREM SerialAlways == Spec => []Serial
<1>1. Inv => Serial
  BY DEF Inv, HandInv
<1> QED BY Invariance, <1>1, PTL

(* The queue holds each IN_QUEUE job once and nothing else. *)
THEOREM QueueAlwaysExact == Spec => []QueueExact
<1>1. Inv => QueueExact
  BY DEF Inv
<1> QED BY Invariance, <1>1, PTL

(* Retention forgets only ended jobs, the oldest, and only when it must. *)
THEOREM RetentionAlwaysExact == Spec => []RetentionExact
<1>1. Inv => RetentionExact
  <2>. SUFFICES ASSUME Inv, lock = "free"
                PROVE  /\ known = Live \cup ToSet(completedOrder)
                       /\ RetentionInv
    BY DEF RetentionExact, RetentionInv
  <2>1. Writing = {}
    BY DEF Inv, HandInv, Writing
  <2> QED BY <2>1 DEF Inv, RetentionInv
<1> QED BY Invariance, <1>1, PTL

(* The branch of _run_loop for a flagged queued job is dead. *)
THEOREM FlagOnlyAfterStart == Spec => []FlagOnlyWhenStarted
<1>1. Inv => FlagOnlyWhenStarted
  BY DEF Inv, FlagInv
<1> QED BY Invariance, <1>1, PTL
-----------------------------------------------------------------------------
(* Refinement.  A submit accepts, a cancel of a queued job withdraws,      *)
(* WorkerTake starts, and a run finishes at the write of its status; every *)
(* other step is invisible to the abstract lifecycle.                      *)

LEMMA LifecycleUnchanged ==
    ASSUME UNCHANGED <<status, queue>>
    PROVE  [Lifecycle!LifecycleNext]_Lifecycle!lifecycleVars
  BY DEF Lifecycle!lifecycleVars

LEMMA LifecycleStep ==
    ASSUME Inv, [Next]_vars
    PROVE  [Lifecycle!LifecycleNext]_Lifecycle!lifecycleVars
<1>1. CASE UNCHANGED vars
  BY <1>1, LifecycleUnchanged DEF vars
<1>2. ASSUME NEW j \in Jobs, Submit(j) PROVE Lifecycle!Accept(j)
  BY <1>2 DEF Submit, EnsureWorker, Lifecycle!Accept
<1>3. ASSUME NEW j \in Jobs, CancelQueued(j) PROVE Lifecycle!Withdraw(j)
  <2>1. \E i \in DOMAIN queue : queue[i] = j /\ queue' = RemoveAt(queue, i)
    BY <1>3, CancelQueuedQueue DEF Inv
  <2>2. status[j] = "IN_QUEUE" /\ status' = [status EXCEPT ![j] = "FAILED"]
    BY <1>3 DEF CancelQueued, MayDrop, Dequeue
  <2> QED BY <2>1, <2>2 DEF Lifecycle!Withdraw, RemoveAt, Lifecycle!RemoveAt
<1>4. CASE WorkerTake
  <2>. DEFINE j == Head(queue)
  <2>1. j \in Jobs /\ j \in ToSet(queue)
    BY <1>4, TailFacts DEF WorkerTake, Pop, Inv, TypeOK
  <2>2. status[j] = "IN_QUEUE" /\ j \in known
    BY <2>1 DEF Inv, QueueExact, RetentionInv, Live
  <2>3. \A k \in Jobs : status[k] # "IN_PROGRESS"
    BY <1>4 DEF WorkerTake, Pop, Inv, HandInv, Serial
  <2>4. Lifecycle!Start(j)
    BY <1>4, <2>2, <2>3 DEF WorkerTake, Pop, Lifecycle!Start
  <2> QED BY <2>1, <2>4 DEF Lifecycle!LifecycleNext
<1>5. CASE RecordFailed
  <2>1. workerJob \in Jobs /\ status[workerJob] = "IN_PROGRESS"
    BY <1>5 DEF RecordFailed, Inv, HandInv, HoldsJob
  <2>2. Lifecycle!Finish(workerJob, "FAILED")
    BY <1>5, <2>1 DEF RecordFailed, Lifecycle!Finish
  <2> QED BY <2>1, <2>2 DEF Lifecycle!LifecycleNext, Lifecycle!Verdicts
<1>6. CASE RecordEnd
  <2>1. CASE outcome = "output"
    <3>1. workerJob \in Jobs /\ status[workerJob] = "IN_PROGRESS"
      BY <1>6, <2>1 DEF RecordEnd, ErrorText, Inv, HandInv, HoldsJob
    <3>2. Lifecycle!Finish(workerJob, "COMPLETED")
      BY <1>6, <2>1, <3>1 DEF RecordEnd, ErrorText, Lifecycle!Finish
    <3> QED BY <3>1, <3>2 DEF Lifecycle!LifecycleNext, Lifecycle!Verdicts
  <2>2. CASE outcome # "output"
    BY <1>6, <2>2, LifecycleUnchanged DEF RecordEnd, ErrorText
  <2> QED BY <2>1, <2>2
<1>7. CASE CancelQueuedEnd \/ (\E j \in Jobs : CancelRunning(j)) \/ Shutdown \/ Run
             \/ WorkerWait \/ WorkerLeave \/ WorkerGone \/ RecordOutput \/ Poll
  BY <1>7, LifecycleUnchanged
  DEF CancelQueuedEnd, CancelRunning, Shutdown, Run, RunEnds, RunSeesCancel, WorkerWait,
      WorkerLeave, WorkerGone, RecordOutput, FirstWrite,
       Poll, PollGet, PollStatus, PollOutput,
      PollError, jobVars
<1>8. \A j \in Jobs : Submit(j) \/ CancelQueued(j) => Lifecycle!LifecycleNext
  BY <1>2, <1>3 DEF Lifecycle!LifecycleNext
<1> QED BY <1>1, <1>4, <1>5, <1>6, <1>7, <1>8 DEF Next, Handler, Worker

(* The registry implements the abstract job lifecycle, for any number of   *)
(* jobs and any interleaving of its threads.                               *)
THEOREM Implementation == Spec => ImplementsLifecycle
<1>1. Init => Lifecycle!LifecycleInit
  BY DEF Init, Lifecycle!LifecycleInit
<1>2. Inv /\ [Next]_vars => [Lifecycle!LifecycleNext]_Lifecycle!lifecycleVars
  BY LifecycleStep
<1> QED
  BY Invariance, <1>1, <1>2, PTL DEF Spec, ImplementsLifecycle, Lifecycle!LifecycleSpec
-----------------------------------------------------------------------------
(* The /status answers.  What a handler has read so far still fits the Job *)
(* when it reads on, because a status only moves forward and the output is *)
(* written before COMPLETED is.                                            *)

JobInv ==
    /\ \A j \in Jobs : status[j] = "COMPLETED" => output[j] = "output"
    /\ workerPc = "recording" /\ outcome = "output" => output[workerJob] = "output"

(* e is an envelope whose job has got at least as far as e says. *)
Fits(e) ==
    /\ e.status = "COMPLETED" => status[e.job] = "COMPLETED"
    /\ e.status = "FAILED" => status[e.job] = "FAILED"
    /\ e.status = "IN_PROGRESS" => status[e.job] \notin {"NEW", "IN_QUEUE"}
    /\ e.status = "404" => status[e.job] # "NEW" /\ e.job \notin known

(* What holds of poller p between its reads and after its last answer. *)
ReadOk(p) ==
    /\ poll[p].at # "idle" => status[poll[p].job] # "NEW"
    /\ Fits(poll[p])
    /\ poll[p].status # "404"
    /\ poll[p].at \in {"idle", "status"} => poll[p].status = None
    /\ poll[p].at = "error" /\ poll[p].status = "COMPLETED" => poll[p].output = "output"
    /\ reply[p].status # None => reply[p].job \in Jobs
    /\ Fits(reply[p])
    /\ poll[p].at # "idle" /\ poll[p].job = reply[p].job => reply[p].status # "404"
    /\ poll[p].at \in {"output", "error"} /\ poll[p].job = reply[p].job =>
          /\ reply[p].status \in Terminal => poll[p].status = reply[p].status
          /\ reply[p].status = "IN_PROGRESS" => poll[p].status # "IN_QUEUE"

ReadInv == \A p \in Pollers : ReadOk(p)

(* A status moves forward only, and a forgotten job stays forgotten. *)
LEMMA Forward ==
    ASSUME Inv, [Next]_vars, NEW j \in Jobs
    PROVE  /\ status[j] \in Terminal => status'[j] = status[j]
           /\ status[j] = "IN_PROGRESS" => status'[j] \in {"IN_PROGRESS"} \cup Terminal
           /\ status[j] # "NEW" => status'[j] # "NEW"
           /\ status[j] # "NEW" /\ j \notin known => j \notin known'
<1>. USE DEF Terminal
<1>1. ASSUME NEW k \in Jobs, Submit(k) PROVE status[k] = "NEW" /\ status' = [status EXCEPT ![k] = "IN_QUEUE"] /\ known' = known \cup {k}
  BY <1>1 DEF Submit, EnsureWorker
<1>2. ASSUME NEW k \in Jobs, CancelQueued(k) PROVE status[k] = "IN_QUEUE" /\ status' = [status EXCEPT ![k] = "FAILED"] /\ known' = known
  BY <1>2 DEF CancelQueued, MayDrop, Dequeue
<1>3. CASE WorkerTake
  <2>. DEFINE k == Head(queue)
  <2>1. known' = known /\ k \in Jobs
    BY <1>3 DEF WorkerTake, Pop, Inv, TypeOK
  <2>2. \/ status' = status
        \/ status[k] = "IN_QUEUE" /\ status' = [status EXCEPT ![k] = "IN_PROGRESS"]
    BY <1>3 DEF WorkerTake, Pop
  <2>. HIDE DEF k
  <2> QED BY <2>1, <2>2 DEF Inv, TypeOK
<1>4. CASE RecordFailed \/ RecordEnd
  <2>1. known' \subseteq known
    BY <1>4 DEF RecordFailed, RecordEnd, Retain
  <2>2. workerJob \in Jobs
    BY <1>4 DEF RecordFailed, RecordEnd, Inv, HoldsJob
  <2>3. \/ status' = status
        \/ /\ status[workerJob] = "IN_PROGRESS"
           /\ \E v \in Terminal : status' = [status EXCEPT ![workerJob] = v]
    BY <1>4 DEF RecordFailed, RecordEnd, Inv, HandInv
  <2> QED BY <2>1, <2>2, <2>3 DEF Inv, TypeOK
<1>5. CASE \/ UNCHANGED vars \/ CancelQueuedEnd \/ (\E k \in Jobs : CancelRunning(k))
           \/ Shutdown \/ Run \/ WorkerWait \/ WorkerLeave \/ WorkerGone \/ RecordOutput
           \/ Poll
  <2>1. status' = status /\ known' \subseteq known
    BY <1>5 DEF vars, CancelQueuedEnd, Retain, CancelRunning, Shutdown, Run, RunEnds,
       RunSeesCancel, WorkerWait, WorkerLeave, WorkerGone, RecordOutput, FirstWrite,
       Poll, PollGet,
       PollStatus, PollOutput, PollError, jobVars
  <2> QED BY <2>1
<1>6. CASE \E k \in Jobs : Submit(k)
  BY <1>1, <1>6 DEF Inv, TypeOK
<1>7. CASE \E k \in Jobs : CancelQueued(k)
  BY <1>2, <1>7 DEF Inv, TypeOK
<1> QED BY <1>3, <1>4, <1>5, <1>6, <1>7 DEF Next, Handler, Worker

LEMMA JobInvStep ==
    ASSUME Inv, JobInv, [Next]_vars
    PROVE  JobInv'
<1>1. CASE RecordOutput
  BY <1>1 DEF RecordOutput, FirstWrite, JobInv, Inv, TypeOK, HoldsJob
<1>2. CASE RecordEnd
  BY <1>2 DEF RecordEnd, ErrorText, JobInv, Inv, TypeOK, HoldsJob
<1>3. CASE RecordFailed
  BY <1>3 DEF RecordFailed, JobInv, Inv, TypeOK, HoldsJob
<1>4. CASE WorkerTake
  BY <1>4 DEF WorkerTake, Pop, JobInv, Inv, TypeOK
<1>5. CASE Handler
  BY <1>5 DEF Handler, Submit, EnsureWorker, CancelQueued, CancelRunning, CancelQueuedEnd, JobInv, Inv, TypeOK
<1>6. CASE UNCHANGED vars \/ Shutdown \/ Run \/ WorkerWait \/ WorkerLeave \/ WorkerGone \/ Poll
  BY <1>6 DEF vars, Shutdown, WakeAll, Run, RunEnds, RunSeesCancel,
     WorkerWait, WorkerLeave, WorkerGone,
     Poll, PollGet, PollStatus, PollOutput, PollError, JobInv, jobVars
<1> QED BY <1>1, <1>2, <1>3, <1>4, <1>5, <1>6 DEF Next, Worker

LEMMA FitsKept ==
    ASSUME Inv, [Next]_vars, NEW CONSTANT e, Fits(e), e.status # None => e.job \in Jobs
    PROVE  /\ e.status = "COMPLETED" => status'[e.job] = "COMPLETED"
           /\ e.status = "FAILED" => status'[e.job] = "FAILED"
           /\ e.status = "IN_PROGRESS" => status'[e.job] \notin {"NEW", "IN_QUEUE"}
           /\ e.status = "404" => status'[e.job] # "NEW" /\ e.job \notin known'
<1>1. CASE e.status = None
  BY <1>1 DEF None
<1>2. CASE e.status # None
  <2>. DEFINE j == e.job
  <2>1. j \in Jobs
    BY <1>2
  <2>. HIDE DEF j
  <2>2. /\ status[j] \in Terminal => status'[j] = status[j]
        /\ status[j] = "IN_PROGRESS" => status'[j] \in {"IN_PROGRESS"} \cup Terminal
        /\ status[j] # "NEW" => status'[j] # "NEW"
        /\ status[j] # "NEW" /\ j \notin known => j \notin known'
        /\ status[j] \in Statuses
    BY <2>1, Forward DEF Inv, TypeOK
  <2>3. /\ e.status = "COMPLETED" => status[j] = "COMPLETED"
        /\ e.status = "FAILED" => status[j] = "FAILED"
        /\ e.status = "IN_PROGRESS" => status[j] \notin {"NEW", "IN_QUEUE"}
        /\ e.status = "404" => status[j] # "NEW" /\ j \notin known
    BY DEF Fits, j
  <2>4. /\ e.status = "COMPLETED" => status'[j] = "COMPLETED"
        /\ e.status = "FAILED" => status'[j] = "FAILED"
        /\ e.status = "IN_PROGRESS" => status'[j] \notin {"NEW", "IN_QUEUE"}
        /\ e.status = "404" => status'[j] # "NEW" /\ j \notin known'
    BY <2>2, <2>3 DEF Terminal, Statuses
  <2> QED BY <2>4 DEF j
<1> QED BY <1>1, <1>2

LEMMA ReadOkKept ==
    ASSUME Inv, ReadInv, [Next]_vars, NEW p \in Pollers,
           poll'[p] = poll[p], reply'[p] = reply[p]
    PROVE  ReadOk(p)'
<1>1. ReadOk(p)
  BY DEF ReadInv, ReadOk
<1>2. Fits(poll[p]) /\ (poll[p].status # None => poll[p].job \in Jobs)
  BY <1>1 DEF ReadOk, Inv, HoldsJob
<1>3. Fits(reply[p]) /\ (reply[p].status # None => reply[p].job \in Jobs)
  BY <1>1 DEF ReadOk
<1>4. Fits(poll[p])' /\ Fits(reply[p])'
  BY <1>2, <1>3, FitsKept DEF Fits
<1>5. poll[p].at # "idle" => status'[poll[p].job] # "NEW"
  BY <1>1, Forward DEF ReadOk, Inv, HoldsJob
<1> QED BY <1>1, <1>4, <1>5 DEF ReadOk

LEMMA ReadInvStep ==
    ASSUME Inv, JobInv, ReadInv, [Next]_vars
    PROVE  ReadInv'
<1>. SUFFICES ASSUME NEW p \in Pollers PROVE ReadOk(p)'
  BY DEF ReadInv, ReadOk
<1>1. CASE poll'[p] = poll[p] /\ reply'[p] = reply[p]
  BY <1>1, ReadOkKept
<1>2. ASSUME NEW j \in Jobs, PollGet(p, j) PROVE ReadOk(p)'
  <2>1. status' = status /\ known' = known /\ status[j] # "NEW"
    BY <1>2 DEF PollGet, jobVars
  <2>2. CASE j \in known
    <3>1. /\ poll'[p] = [NoEnvelope EXCEPT !.at = "status", !.job = j]
          /\ reply'[p] = reply[p]
      BY <1>2, <2>2 DEF PollGet, Inv, TypeOK
    <3>2. poll'[p].at = "status" /\ poll'[p].job = j /\ poll'[p].status = None
      BY <3>1 DEF NoEnvelope
    <3>3. reply[p].job = j => reply[p].status # "404"
      BY <2>2 DEF ReadInv, ReadOk, Fits
    <3> QED BY <2>1, <3>1, <3>2, <3>3 DEF ReadInv, ReadOk, Fits, None
  <2>3. CASE j \notin known
    <3>1. /\ poll'[p] = NoEnvelope
          /\ reply'[p] = [NoEnvelope EXCEPT !.job = j, !.status = "404"]
      BY <1>2, <2>3 DEF PollGet, Answer, Inv, TypeOK
    <3>2. /\ poll'[p].at = "idle" /\ poll'[p].status = None
          /\ reply'[p].job = j /\ reply'[p].status = "404"
      BY <3>1 DEF NoEnvelope
    <3> QED BY <2>1, <2>3, <3>2 DEF ReadOk, Fits, None
  <2> QED BY <2>2, <2>3
<1>3. CASE PollStatus(p)
  <2>1. status' = status /\ known' = known /\ reply'[p] = reply[p]
    BY <1>3 DEF PollStatus, jobVars
  <2>2. poll'[p] = [poll[p] EXCEPT !.at = "output", !.status = status[poll[p].job]]
    BY <1>3 DEF PollStatus, Inv, TypeOK
  <2>3. /\ poll[p].at = "status" /\ poll[p] \in Envelopes /\ poll[p].job \in Jobs
        /\ status[poll[p].job] \in Statuses /\ status[poll[p].job] # "NEW"
    BY <1>3 DEF PollStatus, Inv, TypeOK, HoldsJob, ReadInv, ReadOk
  <2>4. poll'[p].at = "output" /\ poll'[p].job = poll[p].job /\ poll'[p].status = status[poll[p].job]
    BY <2>2, <2>3 DEF Envelopes
  <2>5. poll[p].job = reply[p].job =>
           /\ reply[p].status \in Terminal => poll'[p].status = reply[p].status
           /\ reply[p].status = "IN_PROGRESS" => poll'[p].status # "IN_QUEUE"
    BY <2>4 DEF ReadInv, ReadOk, Fits, Terminal
  <2> QED BY <2>1, <2>3, <2>4, <2>5 DEF ReadInv, ReadOk, Fits, Statuses, Terminal
<1>4. CASE PollOutput(p)
  <2>. DEFINE j == poll[p].job
  <2>1. status' = status /\ known' = known /\ reply'[p] = reply[p]
    BY <1>4 DEF PollOutput, jobVars
  <2>2. poll'[p] = [poll[p] EXCEPT !.at = "error",
                      !.output = IF status[j] = "COMPLETED" THEN output[j] ELSE None]
    BY <1>4 DEF PollOutput, Inv, TypeOK
  <2>3. poll[p].at = "output" /\ poll[p] \in Envelopes /\ j \in Jobs
    BY <1>4 DEF PollOutput, Inv, TypeOK, HoldsJob
  <2>4. /\ poll'[p].at = "error" /\ poll'[p].job = j /\ poll'[p].status = poll[p].status
        /\ poll'[p].output = IF status[j] = "COMPLETED" THEN output[j] ELSE None
    BY <2>2, <2>3 DEF Envelopes
  <2>5. poll[p].status = "COMPLETED" => poll'[p].output = "output"
    BY <2>3, <2>4 DEF ReadInv, ReadOk, Fits, JobInv
  <2> QED BY <2>1, <2>3, <2>4, <2>5 DEF ReadInv, ReadOk, Fits
<1>5. CASE PollError(p)
  <2>. DEFINE j == poll[p].job
  <2>1. status' = status /\ known' = known
    BY <1>5 DEF PollError, jobVars
  <2>2. /\ poll'[p] = NoEnvelope
        /\ reply'[p] = [poll[p] EXCEPT !.at = "idle",
                          !.error = IF status[j] = "FAILED" THEN error[j] ELSE None]
    BY <1>5 DEF PollError, Answer, Inv, TypeOK
  <2>3. poll[p].at = "error" /\ poll[p] \in Envelopes /\ j \in Jobs
    BY <1>5 DEF PollError, Inv, TypeOK, HoldsJob
  <2>4. reply'[p].job = j /\ reply'[p].status = poll[p].status
    BY <2>2, <2>3 DEF Envelopes
  <2>5. poll'[p].at = "idle" /\ poll'[p].status = None
    BY <2>2 DEF NoEnvelope
  <2> QED BY <2>1, <2>3, <2>4, <2>5 DEF ReadInv, ReadOk, Fits, None
<1>6. CASE \/ UNCHANGED vars \/ Handler \/ Shutdown \/ Worker \/ Run
           \/ \E q \in Pollers : q # p /\ (PollStatus(q) \/ PollOutput(q) \/ PollError(q)
                                            \/ \E j \in Jobs : PollGet(q, j))
  <2>1. poll'[p] = poll[p] /\ reply'[p] = reply[p]
    BY <1>6 DEF vars, Handler, Submit, EnsureWorker, CancelQueued, CancelRunning, CancelQueuedEnd, Shutdown,
       Worker, WorkerWait, WorkerLeave, MayLeave, WorkerGone, WorkerTake, RecordOutput, FirstWrite, RecordFailed,
       RecordEnd, Run, RunEnds, RunSeesCancel, IsCancelled, pollVars, PollStatus, PollOutput, PollError,
       PollGet, Answer, Inv, TypeOK
  <2> QED BY <2>1, ReadOkKept
<1> QED BY <1>2, <1>3, <1>4, <1>5, <1>6 DEF Next, Poll

LEMMA ReadInvInit == Init => JobInv /\ ReadInv
  BY DEF Init, JobInv, ReadInv, ReadOk, Fits, NoEnvelope, None

LEMMA ReadInvariance == Spec => [](Inv /\ JobInv /\ ReadInv)
<1>1. Inv /\ JobInv /\ ReadInv /\ [Next]_vars => (Inv /\ JobInv /\ ReadInv)'
  BY InvStep, JobInvStep, ReadInvStep
<1> QED BY InvInit, ReadInvInit, <1>1, PTL DEF Spec

(* An answer is given by PollGet (404) or by PollError. *)
LEMMA AnswerStep ==
    ASSUME Inv, [Next]_vars, NEW p \in Pollers
    PROVE  reply'[p] = reply[p] \/ reply'[p].status = "404" \/ PollError(p)
<1>1. ASSUME NEW j \in Jobs, PollGet(p, j)
      PROVE  reply'[p] = reply[p] \/ reply'[p].status = "404"
  <2>1. p \in DOMAIN reply
    BY DEF Inv, TypeOK
  <2> QED BY <1>1, <2>1 DEF PollGet, Answer, NoEnvelope
<1>2. CASE \/ UNCHANGED vars \/ Handler \/ Shutdown \/ Worker \/ Run
           \/ \E q \in Pollers : \/ PollStatus(q) \/ PollOutput(q)
                                 \/ q # p /\ PollError(q)
                                 \/ q # p /\ \E j \in Jobs : PollGet(q, j)
  BY <1>2
  DEF vars, Handler, Submit, EnsureWorker, CancelQueued, CancelRunning, CancelQueuedEnd, Shutdown,
      Worker, WorkerWait, WorkerLeave, MayLeave, WorkerGone, WorkerTake, RecordOutput, FirstWrite, RecordFailed,
      RecordEnd, Run, RunEnds, RunSeesCancel, IsCancelled, pollVars, PollStatus, PollOutput, PollError,
      PollGet, Answer, Inv, TypeOK
<1> QED BY <1>1, <1>2 DEF Next, Poll

(* Two answers to one poller about one job never contradict each other:    *)
(* an ended job stays as it ended, a lost one stays lost.                  *)
THEOREM AnswersAreFinal == Spec => AnswersNeverGoBack
<1>. DEFINE NoStepBack ==
       \A p \in Pollers :
          LET old == reply[p]
              new == reply'[p]
          IN  new.job = old.job =>
                /\ old.status = "404" => new.status = "404"
                /\ old.status \in Terminal => new.status \in {old.status, "404"}
                /\ old.status = "IN_PROGRESS" => new.status # "IN_QUEUE"
<1>1. ASSUME Inv, JobInv, ReadInv, (Inv /\ JobInv /\ ReadInv)', [Next]_vars
      PROVE  NoStepBack
  <2>. SUFFICES ASSUME NEW p \in Pollers, reply'[p].job = reply[p].job
                PROVE  /\ reply[p].status = "404" => reply'[p].status = "404"
                       /\ reply[p].status \in Terminal =>
                             reply'[p].status \in {reply[p].status, "404"}
                       /\ reply[p].status = "IN_PROGRESS" => reply'[p].status # "IN_QUEUE"
    OBVIOUS
  <2>1. CASE reply'[p] = reply[p]
    BY <2>1
  <2>2. CASE reply'[p].status = "404"
    BY <2>2
  <2>3. CASE PollError(p)
    <3>1. /\ poll[p].at = "error" /\ poll[p] \in Envelopes
          /\ reply'[p] = [poll[p] EXCEPT !.at = "idle",
               !.error = IF status[poll[p].job] = "FAILED" THEN error[poll[p].job] ELSE None]
      BY <1>1, <2>3 DEF PollError, Answer, Inv, TypeOK
    <3>2. reply'[p].job = poll[p].job /\ reply'[p].status = poll[p].status
      BY <3>1 DEF Envelopes
    <3>3. poll[p].job = reply[p].job
      BY <3>2
    <3> QED BY <1>1, <3>1, <3>2, <3>3 DEF ReadInv, ReadOk
  <2>4. reply'[p] = reply[p] \/ reply'[p].status = "404" \/ PollError(p)
    BY <1>1, AnswerStep
  <2> QED BY <2>1, <2>2, <2>3, <2>4
<1>2. Inv /\ JobInv /\ ReadInv /\ (Inv /\ JobInv /\ ReadInv)' /\ [Next]_vars
        => [NoStepBack]_vars
  BY <1>1
<1> QED BY ReadInvariance, <1>2, PTL DEF Spec, AnswersNeverGoBack

(* A COMPLETED answer always carries the output and never an error. *)
THEOREM CompletedAlwaysCarriesOutput == Spec => []CompletedCarriesOutput
<1>1. Init => CompletedCarriesOutput
  BY DEF Init, CompletedCarriesOutput, NoEnvelope, None
<1>2. ASSUME Inv, ReadInv, CompletedCarriesOutput, [Next]_vars
      PROVE  CompletedCarriesOutput'
  <2>. SUFFICES ASSUME NEW p \in Pollers, reply'[p].status = "COMPLETED"
                PROVE  reply'[p].output = "output" /\ reply'[p].error = None
    BY DEF CompletedCarriesOutput
  <2>1. CASE reply'[p] = reply[p]
    BY <1>2, <2>1 DEF CompletedCarriesOutput
  <2>2. CASE PollError(p)
    <3>. DEFINE j == poll[p].job
    <3>1. /\ poll[p].at = "error" /\ poll[p] \in Envelopes
          /\ reply'[p] = [poll[p] EXCEPT !.at = "idle",
                            !.error = IF status[j] = "FAILED" THEN error[j] ELSE None]
      BY <1>2, <2>2 DEF PollError, Answer, Inv, TypeOK
    <3>2. /\ reply'[p].status = poll[p].status /\ reply'[p].output = poll[p].output
          /\ reply'[p].error = IF status[j] = "FAILED" THEN error[j] ELSE None
      BY <3>1 DEF Envelopes
    <3>3. status[j] = "COMPLETED" /\ poll[p].output = "output"
      BY <1>2, <3>1, <3>2 DEF ReadInv, ReadOk, Fits
    <3> QED BY <3>2, <3>3
  <2>3. reply'[p] = reply[p] \/ reply'[p].status = "404" \/ PollError(p)
    BY <1>2, AnswerStep
  <2> QED BY <2>1, <2>2, <2>3
<1> QED BY <1>1, <1>2, ReadInvariance, PTL DEF Spec
-----------------------------------------------------------------------------
(* No wake-up is lost.  The thread waits only when there is nothing to do  *)
(* and it was not told to stop; it ends only after shutdown; and a job     *)
(* waits with no thread alive only if it was submitted after shutdown,     *)
(* while the thread was leaving (the case EverythingEnds of Door is about).*)
NeverStranded ==
    /\ workerPc = "waiting" => queue = <<>> /\ ~stop
    /\ workerPc = "leaving" => stop
    /\ workerPc = "none" /\ queue # <<>> => stop

(* submit and shutdown wake the thread that waits, whatever the order.     *)
THEOREM NobodyStranded == Spec => []NeverStranded
<1>1. Init => NeverStranded
  BY DEF Init, NeverStranded
<1>2. ASSUME Inv, NeverStranded, [Next]_vars PROVE NeverStranded'
  <2>1. ASSUME NEW j \in Jobs, Submit(j) PROVE NeverStranded'
    BY <1>2, <2>1 DEF Submit, EnsureWorker, NeverStranded
  <2>2. ASSUME NEW j \in Jobs, CancelQueued(j) PROVE NeverStranded'
    <3>1. queue # <<>>
      BY <1>2, <2>2 DEF CancelQueued, MayDrop, Inv, QueueExact, ToSet
    <3> QED
      BY <1>2, <2>2, <3>1 DEF CancelQueued, NeverStranded
  <2>3. CASE \/ CancelQueuedEnd \/ UNCHANGED vars \/ Poll
             \/ \E j \in Jobs : CancelRunning(j)
    <3>1. UNCHANGED <<workerPc, queue, stop>>
      BY <2>3 DEF CancelQueuedEnd, CancelRunning, vars, Poll, PollGet, PollStatus, PollOutput,
        PollError
    <3> QED
      BY <1>2, <3>1 DEF NeverStranded
  <2>4. CASE Shutdown
    BY <1>2, <2>4 DEF Shutdown, WakeAll, NeverStranded
  <2>5. CASE WorkerWait \/ WorkerLeave \/ WorkerGone
    BY <1>2, <2>5 DEF WorkerWait, WorkerLeave, MayLeave, WorkerGone, NeverStranded
  <2>6. CASE WorkerTake
    BY <1>2, <2>6 DEF WorkerTake, NeverStranded
  <2>7. CASE Run \/ RecordOutput \/ RecordFailed \/ RecordEnd
    BY <1>2, <2>7 DEF Run, RunEnds, RunSeesCancel, RecordOutput, RecordFailed, RecordEnd,
      NeverStranded
  <2> QED
    BY <1>2, <2>1, <2>2, <2>3, <2>4, <2>5, <2>6, <2>7 DEF Next, Handler, Worker
<1>3. Inv /\ NeverStranded /\ [Next]_vars => NeverStranded'
  BY <1>2
<1> QED
  BY Invariance, <1>1, <1>3, PTL DEF Spec
-----------------------------------------------------------------------------
(* An ended job is complete as soon as the lock is released: FAILED with   *)
(* an error, COMPLETED with an output, never with both or the other's.     *)
(* FailedSaysWhy is false only because status_dict does not take the lock. *)
SaysWhyUnderLock ==
    lock = "free" =>
        \A j \in Jobs : /\ status[j] = "FAILED" <=> error[j] # None
                        /\ status[j] = "COMPLETED" <=> output[j] # None

(* The same in the middle of a two-step write. *)
VerdictOk(j) ==
    /\ error[j] # None => status[j] = "FAILED"
    /\ status[j] = "FAILED" => error[j] # None \/ j \in Writing
    /\ output[j] # None =>
          \/ status[j] = "COMPLETED"
          \/ workerPc = "recording" /\ outcome = "output" /\ j = workerJob

VerdictInv == \A j \in Jobs : VerdictOk(j)

LEMMA VerdictStep ==
    ASSUME Inv, VerdictInv, [Next]_vars
    PROVE  VerdictInv'
<1> SUFFICES ASSUME NEW j \in Jobs PROVE VerdictOk(j)'
  BY DEF VerdictInv, VerdictOk, Writing
<1> USE DEF VerdictInv, VerdictOk, Writing
<1>1. ASSUME NEW k \in Jobs, Submit(k) PROVE VerdictOk(j)'
  BY <1>1 DEF Submit, EnsureWorker, Inv, TypeOK
<1>2. ASSUME NEW k \in Jobs, CancelQueued(k) PROVE VerdictOk(j)'
  BY <1>2 DEF CancelQueued, MayDrop, Inv, TypeOK, HandInv
<1>3. CASE CancelQueuedEnd
  <2>1. /\ lock = "cancel" /\ canceling \in Jobs /\ status[canceling] = "FAILED"
        /\ error' = [error EXCEPT ![canceling] = "canceled before start"]
        /\ UNCHANGED <<status, output, workerPc, workerJob, outcome>>
    BY <1>3 DEF CancelQueuedEnd, Inv, HoldsJob, HandInv
  <2>2. workerPc # "recording"
    BY <2>1 DEF Inv, HandInv
  <2> QED
    BY <2>1, <2>2 DEF Inv, TypeOK, None
<1>4. CASE \/ UNCHANGED vars \/ Shutdown \/ Run \/ WorkerWait \/ WorkerLeave \/ WorkerGone
           \/ Poll \/ \E k \in Jobs : CancelRunning(k)
  <2>1. /\ UNCHANGED <<status, output, error, lock, canceling, workerJob>>
        /\ workerPc = "recording" <=> workerPc' = "recording"
        /\ workerPc = "recording" => outcome' = outcome
    BY <1>4 DEF vars, jobVars, Shutdown, WakeAll, Run, RunEnds, RunSeesCancel, WorkerWait,
      WorkerLeave, WorkerGone, Poll, PollGet, PollStatus, PollOutput, PollError, CancelRunning
  <2> QED
    BY <2>1
<1>5. CASE WorkerTake
  <2>1. /\ UNCHANGED <<output, error, lock, canceling>> /\ workerPc = "check"
        /\ workerPc' \in {"check", "running"}
        /\ \A k \in Jobs : \/ status'[k] = status[k]
                           \/ status[k] = "IN_QUEUE" /\ status'[k] = "IN_PROGRESS"
    BY <1>5 DEF WorkerTake, Inv, TypeOK
  <2> QED
    BY <2>1
<1>6. CASE RecordOutput
  BY <1>6 DEF RecordOutput, FirstWrite, Inv, TypeOK, HoldsJob, HandInv
<1>7. CASE RecordFailed
  <2>1. /\ workerPc = "ended" /\ workerPc' = "recording" /\ lock = "free" /\ outcome # "output"
        /\ status' = [status EXCEPT ![workerJob] = "FAILED"]
        /\ UNCHANGED <<output, error, workerJob, outcome>>
    BY <1>7 DEF RecordFailed
  <2>2. workerJob \in Jobs /\ status[workerJob] = "IN_PROGRESS"
    BY <2>1 DEF Inv, HoldsJob, HandInv
  <2> QED
    BY <2>1, <2>2 DEF Inv, TypeOK
<1>8. CASE RecordEnd
  <2>1. workerJob \in Jobs /\ workerPc = "recording" /\ workerPc' = "check" /\ lock = "worker"
    BY <1>8 DEF RecordEnd, Inv, HoldsJob, HandInv
  <2>2. CASE outcome = "output"
    BY <1>8, <2>1, <2>2 DEF RecordEnd, Inv, TypeOK, HandInv
  <2>3. CASE outcome # "output"
    BY <1>8, <2>1, <2>3 DEF RecordEnd, ErrorText, Inv, TypeOK, HandInv, None
  <2> QED
    BY <2>2, <2>3
<1> QED
  BY <1>1, <1>2, <1>3, <1>4, <1>5, <1>6, <1>7, <1>8 DEF Next, Handler, Worker

LEMMA VerdictInvariance == Spec => [](Inv /\ JobInv /\ VerdictInv)
<1>1. Init => VerdictInv
  BY DEF Init, VerdictInv, VerdictOk, None
<1>2. Inv /\ VerdictInv /\ [Next]_vars => VerdictInv'
  BY VerdictStep
<1> QED
  BY ReadInvariance, <1>1, <1>2, PTL DEF Spec

(* Whoever reads a Job under the lock never sees FAILED without a reason   *)
(* or COMPLETED without its output, and no reason or output without them.  *)
THEOREM LockedReadersSeeWhy == Spec => []SaysWhyUnderLock
<1>1. ASSUME Inv, JobInv, VerdictInv, lock = "free", NEW j \in Jobs
      PROVE  /\ status[j] = "FAILED" <=> error[j] # None
             /\ status[j] = "COMPLETED" <=> output[j] # None
  <2>1. j \notin Writing /\ workerPc # "recording"
    BY <1>1 DEF Writing, Inv, HandInv
  <2> QED
    BY <1>1, <2>1 DEF VerdictInv, VerdictOk, JobInv, None
<1>2. Inv /\ JobInv /\ VerdictInv => SaysWhyUnderLock
  BY <1>1 DEF SaysWhyUnderLock
<1> QED
  BY VerdictInvariance, <1>2, PTL

(* Once its verdict is written nothing about a job changes again: no late  *)
(* result, no second cancel and no eviction rewrites what the studio read. *)
EndedStaysAsItIs ==
    [][\A j \in Jobs : status[j] \in Terminal /\ j \notin Writing =>
          /\ status'[j] = status[j] /\ output'[j] = output[j]
          /\ error'[j] = error[j] /\ cancelFlag'[j] = cancelFlag[j]]_vars

(* Only the two-step writes under the lock touch a job that has ended.     *)
THEOREM EndedIsFixed == Spec => EndedStaysAsItIs
<1> DEFINE Fixed == \A j \in Jobs : status[j] \in Terminal /\ j \notin Writing =>
                       /\ status'[j] = status[j] /\ output'[j] = output[j]
                       /\ error'[j] = error[j] /\ cancelFlag'[j] = cancelFlag[j]
<1>1. ASSUME Inv, [Next]_vars PROVE Fixed
  <2> SUFFICES ASSUME NEW j \in Jobs, status[j] \in Terminal, j \notin Writing
               PROVE  /\ output'[j] = output[j] /\ error'[j] = error[j]
                      /\ cancelFlag'[j] = cancelFlag[j]
    BY <1>1, Forward
  <2>1. ASSUME NEW k \in Jobs, Submit(k) \/ CancelQueued(k) \/ CancelRunning(k)
        PROVE  /\ output' = output /\ error' = error
               /\ cancelFlag'[j] = cancelFlag[j]
    BY <1>1, <2>1 DEF Submit, CancelQueued, CancelRunning, MayFlag, Inv, TypeOK, Terminal
  <2>2. CASE CancelQueuedEnd
    BY <1>1, <2>2 DEF CancelQueuedEnd, Writing, Inv, TypeOK
  <2>3. CASE RecordOutput
    BY <1>1, <2>3 DEF RecordOutput, FirstWrite, Inv, TypeOK, HandInv, Terminal
  <2>4. CASE RecordEnd
    BY <1>1, <2>4 DEF RecordEnd, Writing, Inv, TypeOK
  <2>5. CASE \/ UNCHANGED vars \/ Shutdown \/ Run \/ WorkerWait \/ WorkerLeave \/ WorkerGone
             \/ WorkerTake \/ RecordFailed \/ Poll
    BY <2>5 DEF vars, jobVars, Shutdown, Run, RunEnds, RunSeesCancel, WorkerWait, WorkerLeave,
      WorkerGone, WorkerTake, RecordFailed, Poll, PollGet, PollStatus, PollOutput, PollError
  <2> QED
    BY <1>1, <2>1, <2>2, <2>3, <2>4, <2>5 DEF Next, Handler, Worker
<1>2. Inv /\ [Next]_vars => [Fixed]_vars
  BY <1>1
<1> QED
  BY Invariance, <1>2, PTL DEF Spec, EndedStaysAsItIs
=============================================================================
