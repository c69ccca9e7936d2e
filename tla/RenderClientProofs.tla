-------------------------- MODULE RenderClientProofs --------------------------
(***************************************************************************)
(* What the render client guarantees for every set of renders, whichever   *)
(* of them have long commands, and every sequence of cancels, crashes,     *)
(* kills and shutdowns: its safety invariants, and that it keeps           *)
(* RenderPromise.                                                          *)
(***************************************************************************)
EXTENDS RenderClient, TLAPS

(* What the commands or the answers in a pipe are about. *)
Terminal == {"result", "error"}

NoCommand(s) == \A i \in 1 .. Len(s) : s[i].t # "render"

OneCommand(s, r) ==
    /\ \A i \in 1 .. Len(s) : s[i].t = "render" => s[i].job = r
    /\ \A i, j \in 1 .. Len(s) : s[i].t = "render" /\ s[j].t = "render" => i = j

CommandsOf(s, S) == \A i \in 1 .. Len(s) : s[i].t = "render" => s[i].job \in S

NoAnswer(s) == \A i \in 1 .. Len(s) : s[i].t \notin Terminal

OneAnswer(s, r) ==
    /\ \A i \in 1 .. Len(s) : s[i].t \in Terminal => s[i].job = r
    /\ \A i, j \in 1 .. Len(s) : s[i].t \in Terminal /\ s[j].t \in Terminal => i = j

NoResult(s) == \A i \in 1 .. Len(s) : s[i].t # "result"

NoEof(s) == \A i \in 1 .. Len(s) : s[i].t # "eof"

Begun   == {r \in Renders : outcome[r] # "none"}
Waiting == {"check", "get", "terminate"}
-----------------------------------------------------------------------------
(* The inductive invariant. *)

\* What the thread in render() holds at each place.
CallKnown ==
    /\ callPc = "idle" <=> callJob = None
    /\ callPc \in {"idle", "lock", "ensure", "reuse", "adopt"} <=> useProc = None
    /\ callPc \in Waiting \cup {"write"} => useQueue \in {useProc, None}
    /\ callPc = "terminate" => cancelRequested[callJob]
    /\ callPc = "terminate" /\ procState[useProc] \in Serving => signalled[useProc]
    /\ ~exited => \A r \in Renders : outcome[r] = "pending" <=> r = callJob

\* The handle is never another worker than the one a call uses.
HandleKnown ==
    /\ eventQueue = procHandle
    /\ callPc = "adopt" => procHandle = None
    /\ useProc # None => procHandle \in {useProc, None}
    /\ callPc \in Waiting \cup {"write"} /\ useQueue = None => procHandle = None
    /\ exited => callPc = "idle" /\ procHandle = None /\ shutPc = "done"

\* What a process can have in hand, by how far it is.
ProcessKnown(p) ==
    /\ procState[p] = "none" =>
          stdin[p] = <<>> /\ stdout[p] = <<>> /\ working[p] = None /\ ~signalled[p]
    /\ procState[p] # "none" =>
          p \in Begun /\ (callJob = p => callPc \notin {"lock", "ensure", "reuse"})
    /\ procState[p] = "rendering" => working[p] # None
    /\ working[p] \in Begun \cup {None}
    /\ CommandsOf(stdin[p], Begun)
    /\ procState[p] \in Serving => NoEof(stdout[p])

\* Where the command or the answer of a render may be: with the worker the
\* call is waiting for, once, or with one no call can reach any more.
Owner(p) == useProc = p /\ callPc \in Waiting

Fresh(p) == NoCommand(stdin[p]) /\ working[p] = None /\ NoAnswer(stdout[p])

Commanded(p) == OneCommand(stdin[p], callJob) /\ working[p] = None /\ NoAnswer(stdout[p])
AtWork(p)    == NoCommand(stdin[p]) /\ working[p] = callJob /\ NoAnswer(stdout[p])
Answered(p)  == /\ NoCommand(stdin[p]) /\ working[p] = None
                /\ OneAnswer(stdout[p], callJob)
                /\ NoResult(stdout[p]) \/ callJob \in uploaded

Abandoned(p) == p # procHandle /\ p # useProc /\ ~(callPc = "adopt" /\ callJob = p)

Attended(p) ==
    \/ Fresh(p)
    \/ Abandoned(p)
    \/ Owner(p) /\ (Commanded(p) \/ AtWork(p) \/ Answered(p))

\* Until shutdown, who serves untold is the handle, and who was told to die
\* is waited for.
ServesKnown(p) ==
    shutPc = "no" /\ procState[p] \in Serving =>
        /\ ~signalled[p] => p = procHandle \/ (callPc = "adopt" /\ callJob = p)
        /\ signalled[p] => callPc = "terminate" /\ useProc = p

Inv ==
    /\ TypeOK
    /\ CallKnown
    /\ HandleKnown
    /\ \A p \in Workers : ProcessKnown(p)
    /\ \A p \in Workers : Attended(p)
    /\ \A p \in Workers : ServesKnown(p)
    /\ ResultIsOwn
-----------------------------------------------------------------------------
(* Pipes. *)

\* An empty pipe has nothing in it.
LEMMA Empty ==
    ASSUME NEW r, NEW S
    PROVE  /\ NoCommand(<<>>) /\ NoAnswer(<<>>) /\ NoResult(<<>>) /\ NoEof(<<>>)
           /\ CommandsOf(<<>>, S)
  BY DEF NoCommand, NoAnswer, NoResult, NoEof, CommandsOf

\* What one more event makes of a pipe.
LEMMA Appended ==
    ASSUME NEW s \in Seq(Events), NEW e \in Events, NEW r, NEW S
    PROVE  /\ Append(s, e) \in Seq(Events)
           /\ NoCommand(s) /\ e.t # "render" => NoCommand(Append(s, e))
           /\ NoCommand(s) /\ e.t = "render" => OneCommand(Append(s, e), e.job)
           /\ OneCommand(s, r) /\ e.t # "render" => OneCommand(Append(s, e), r)
           /\ CommandsOf(s, S) /\ (e.t = "render" => e.job \in S)
                  => CommandsOf(Append(s, e), S)
           /\ NoAnswer(s) /\ e.t \notin Terminal => NoAnswer(Append(s, e))
           /\ NoAnswer(s) /\ e.t \in Terminal => OneAnswer(Append(s, e), e.job)
           /\ OneAnswer(s, r) /\ e.t \notin Terminal => OneAnswer(Append(s, e), r)
           /\ NoResult(s) /\ e.t # "result" => NoResult(Append(s, e))
           /\ NoEof(s) /\ e.t # "eof" => NoEof(Append(s, e))
<1>. DEFINE q == Append(s, e)
<1>1. /\ q \in Seq(Events) /\ Len(q) = Len(s) + 1 /\ Len(s) \in Nat
      /\ \A i \in 1 .. Len(s) : q[i] = s[i]
      /\ q[Len(s) + 1] = e
  OBVIOUS
<1>2. \A i \in 1 .. Len(q) : i \in 1 .. Len(s) \/ i = Len(s) + 1
  BY <1>1
<1>. HIDE DEF q
<1>3. /\ NoCommand(s) /\ e.t # "render" => NoCommand(q)
      /\ NoAnswer(s) /\ e.t \notin Terminal => NoAnswer(q)
      /\ NoResult(s) /\ e.t # "result" => NoResult(q)
      /\ NoEof(s) /\ e.t # "eof" => NoEof(q)
      /\ CommandsOf(s, S) /\ (e.t = "render" => e.job \in S) => CommandsOf(q, S)
  BY <1>1, <1>2 DEF NoCommand, NoAnswer, NoResult, NoEof, CommandsOf
<1>4. /\ NoCommand(s) /\ e.t = "render" => OneCommand(q, e.job)
      /\ OneCommand(s, r) /\ e.t # "render" => OneCommand(q, r)
  BY <1>1, <1>2 DEF NoCommand, OneCommand
<1>5. /\ NoAnswer(s) /\ e.t \in Terminal => OneAnswer(q, e.job)
      /\ OneAnswer(s, r) /\ e.t \notin Terminal => OneAnswer(q, r)
  BY <1>1, <1>2 DEF NoAnswer, OneAnswer
<1> QED BY <1>1, <1>3, <1>4, <1>5 DEF q

\* What is left of a pipe when its first event is taken.
LEMMA Taken ==
    ASSUME NEW s \in Seq(Events), s # <<>>, NEW r, NEW S
    PROVE  /\ Tail(s) \in Seq(Events) /\ Head(s) \in Events
           /\ NoCommand(s) => NoCommand(Tail(s)) /\ Head(s).t # "render"
           /\ OneCommand(s, r) => OneCommand(Tail(s), r)
           /\ OneCommand(s, r) /\ Head(s).t = "render"
                  => NoCommand(Tail(s)) /\ Head(s).job = r
           /\ CommandsOf(s, S) => CommandsOf(Tail(s), S)
           /\ CommandsOf(s, S) /\ Head(s).t = "render" => Head(s).job \in S
           /\ NoAnswer(s) => NoAnswer(Tail(s)) /\ Head(s).t \notin Terminal
           /\ OneAnswer(s, r) => OneAnswer(Tail(s), r)
           /\ OneAnswer(s, r) /\ Head(s).t \in Terminal
                  => NoAnswer(Tail(s)) /\ Head(s).job = r
           /\ NoResult(s) => NoResult(Tail(s)) /\ Head(s).t # "result"
           /\ NoEof(s) => NoEof(Tail(s)) /\ Head(s).t # "eof"
<1>. DEFINE q == Tail(s)
            h == Head(s)
<1>1. /\ q \in Seq(Events) /\ h \in Events /\ h = s[1]
      /\ Len(s) \in Nat /\ 1 \in 1 .. Len(s)
      /\ \A i \in 1 .. Len(q) : i + 1 \in 1 .. Len(s) /\ i + 1 # 1 /\ q[i] = s[i + 1]
      /\ \A i, j \in 1 .. Len(q) : i + 1 = j + 1 => i = j
  OBVIOUS
<1>. HIDE DEF q, h
<1>2. /\ NoCommand(s) => NoCommand(q) /\ h.t # "render"
      /\ NoAnswer(s) => NoAnswer(q) /\ h.t \notin Terminal
  BY <1>1 DEF NoCommand, NoAnswer
<1>3. /\ NoResult(s) => NoResult(q) /\ h.t # "result"
      /\ NoEof(s) => NoEof(q) /\ h.t # "eof"
  BY <1>1 DEF NoResult, NoEof
<1>4. /\ CommandsOf(s, S) => CommandsOf(q, S)
      /\ CommandsOf(s, S) /\ h.t = "render" => h.job \in S
  BY <1>1 DEF CommandsOf
<1>5. ASSUME OneCommand(s, r) PROVE OneCommand(q, r)
  <2>1. \A i \in 1 .. Len(q) : q[i].t = "render" => q[i].job = r
    BY <1>1, <1>5 DEF OneCommand
  <2>2. ASSUME NEW i \in 1 .. Len(q), NEW j \in 1 .. Len(q),
               q[i].t = "render", q[j].t = "render"
        PROVE  i = j
    BY <1>1, <1>5, <2>2 DEF OneCommand
  <2> QED BY <2>1, <2>2 DEF OneCommand
<1>6. OneCommand(s, r) /\ h.t = "render" => NoCommand(q) /\ h.job = r
  BY <1>1 DEF NoCommand, OneCommand
<1>7. ASSUME OneAnswer(s, r) PROVE OneAnswer(q, r)
  <2>1. \A i \in 1 .. Len(q) : q[i].t \in Terminal => q[i].job = r
    BY <1>1, <1>7 DEF OneAnswer
  <2>2. ASSUME NEW i \in 1 .. Len(q), NEW j \in 1 .. Len(q),
               q[i].t \in Terminal, q[j].t \in Terminal
        PROVE  i = j
    BY <1>1, <1>7, <2>2 DEF OneAnswer
  <2> QED BY <2>1, <2>2 DEF OneAnswer
<1>8. OneAnswer(s, r) /\ h.t \in Terminal => NoAnswer(q) /\ h.job = r
  BY <1>1 DEF NoAnswer, OneAnswer
<1> QED BY <1>1, <1>2, <1>3, <1>4, <1>5, <1>6, <1>7, <1>8 DEF q, h

\* More renders have begun, or as many.
LEMMA CommandsGrow ==
    ASSUME NEW s, NEW S, NEW T, S \subseteq T, CommandsOf(s, S)
    PROVE  CommandsOf(s, T)
  BY DEF CommandsOf

-----------------------------------------------------------------------------
(* What the steps share. *)

\* _terminate_proc tells a living process, and no other, to die.
LEMMA Signalling ==
    ASSUME TypeOK, NEW w \in Workers, Terminate(w)
    PROVE  /\ signalled' \in [Workers -> BOOLEAN]
           /\ procState[w] \in Serving => signalled'[w] = TRUE
           /\ procState[w] = "none" => signalled'[w] = FALSE
           /\ \A p \in Workers : p # w => signalled'[p] = signalled[p]
<1>1. CASE procState[w] \in Alive
  <2>1. signalled' = [signalled EXCEPT ![w] = TRUE]
    BY <1>1 DEF Terminate
  <2> QED BY <2>1, <1>1 DEF TypeOK, Alive, Serving
<1>2. CASE procState[w] \notin Alive
  <2>1. (procState[w] \in Alive) = FALSE
    BY <1>2
  <2>2. signalled' = [signalled EXCEPT ![w] = FALSE]
    BY <2>1, Zenon DEF Terminate
  <2> QED BY <2>2, <1>2 DEF TypeOK, Alive
<1> QED BY <1>1, <1>2

\* The one line shutdown writes is not a command.
LEMMA ShutdownLine ==
    ASSUME TypeOK, ShutGraceful, NEW p \in Workers
    PROVE  /\ stdin'[p] \in Seq(Events)
           /\ procState[p] \notin Serving => stdin'[p] = stdin[p]
           /\ NoCommand(stdin[p]) => NoCommand(stdin'[p])
           /\ OneCommand(stdin[p], callJob) => OneCommand(stdin'[p], callJob)
           /\ CommandsOf(stdin[p], Begun) => CommandsOf(stdin'[p], Begun)
<1>. DEFINE e == Ev("shutdown", None)
<1>1. e \in Events /\ e.t # "render"
  BY DEF Ev, Events
<1>. HIDE DEF e
<1>2. stdin[p] \in Seq(Events)
  BY DEF TypeOK
<1>3. /\ NoCommand(stdin[p]) => NoCommand(Append(stdin[p], e))
      /\ OneCommand(stdin[p], callJob) => OneCommand(Append(stdin[p], e), callJob)
      /\ CommandsOf(stdin[p], Begun) => CommandsOf(Append(stdin[p], e), Begun)
  BY <1>1, <1>2, Appended
<1>4. \/ stdin'[p] = stdin[p]
      \/ procState[p] \in Serving /\ stdin'[p] = Append(stdin[p], e)
  BY DEF TypeOK, ShutGraceful, e
<1>5. Append(stdin[p], e) \in Seq(Events)
  BY <1>1, <1>2, Appended
<1> QED BY <1>2, <1>3, <1>4, <1>5

-----------------------------------------------------------------------------
(* The steps. *)

\* The main thread.
LEMMA MainStep ==
    ASSUME Inv, ShutRead \/ ShutLock \/ ShutNoLock \/ ShutGraceful \/ ShutKill
           \/ ShutRelease \/ ShutReap \/ ShutStdout \/ ShutClear
           \/ ShutInterrupted \/ ServerExit
    PROVE  Inv'
<1>. USE RenderAssumption DEF callVars, resultVars, handleVars, shutVars, procVars,
      Workers, None
<1>1. CASE ShutRead
  <2>1. TypeOK'
    BY <1>1
       DEF Inv, TypeOK, Alive, Serving, Ended, ShutRead
  <2>2. CallKnown' /\ HandleKnown'
    BY <1>1
       DEF Inv, TypeOK, CallKnown, HandleKnown, Waiting, ShutRead
  <2>3. \A p \in Workers : ProcessKnown(p)'
    BY <1>1
       DEF Inv, TypeOK, ProcessKnown, Begun, ShutRead
  <2>4. \A p \in Workers : Attended(p)'
    BY <1>1
       DEF Inv, TypeOK, Attended, Fresh, Abandoned, Owner, Commanded, AtWork,
           Answered, Waiting, CallKnown, HandleKnown, ShutRead
  <2>5. \A p \in Workers : ServesKnown(p)'
    BY <1>1
       DEF Inv, TypeOK, ServesKnown, CallKnown, HandleKnown, ShutRead
  <2>6. ResultIsOwn'
    BY <1>1
       DEF Inv, TypeOK, ResultIsOwn, ShutRead
  <2> QED BY <2>1, <2>2, <2>3, <2>4, <2>5, <2>6 DEF Inv
<1>2. CASE ShutLock
  <2>1. TypeOK'
    BY <1>2
       DEF Inv, TypeOK, Alive, Serving, Ended, ShutLock
  <2>2. CallKnown' /\ HandleKnown'
    BY <1>2
       DEF Inv, TypeOK, CallKnown, HandleKnown, Waiting, ShutLock
  <2>3. \A p \in Workers : ProcessKnown(p)'
    BY <1>2
       DEF Inv, TypeOK, ProcessKnown, Begun, ShutLock
  <2>4. \A p \in Workers : Attended(p)'
    BY <1>2
       DEF Inv, TypeOK, Attended, Fresh, Abandoned, Owner, Commanded, AtWork,
           Answered, Waiting, CallKnown, HandleKnown, ShutLock
  <2>5. \A p \in Workers : ServesKnown(p)'
    BY <1>2
       DEF Inv, TypeOK, ServesKnown, CallKnown, HandleKnown, ShutLock
  <2>6. ResultIsOwn'
    BY <1>2
       DEF Inv, TypeOK, ResultIsOwn, ShutLock
  <2> QED BY <2>1, <2>2, <2>3, <2>4, <2>5, <2>6 DEF Inv
<1>3. CASE ShutNoLock
  <2>1. TypeOK'
    BY <1>3
       DEF Inv, TypeOK, Alive, Serving, Ended, ShutNoLock
  <2>2. CallKnown' /\ HandleKnown'
    BY <1>3
       DEF Inv, TypeOK, CallKnown, HandleKnown, Waiting, ShutNoLock
  <2>3. \A p \in Workers : ProcessKnown(p)'
    BY <1>3
       DEF Inv, TypeOK, ProcessKnown, Begun, ShutNoLock
  <2>4. \A p \in Workers : Attended(p)'
    BY <1>3
       DEF Inv, TypeOK, Attended, Fresh, Abandoned, Owner, Commanded, AtWork,
           Answered, Waiting, CallKnown, HandleKnown, ShutNoLock
  <2>5. \A p \in Workers : ServesKnown(p)'
    BY <1>3
       DEF Inv, TypeOK, ServesKnown, CallKnown, HandleKnown, ShutNoLock
  <2>6. ResultIsOwn'
    BY <1>3
       DEF Inv, TypeOK, ResultIsOwn, ShutNoLock
  <2> QED BY <2>1, <2>2, <2>3, <2>4, <2>5, <2>6 DEF Inv
<1>4. CASE ShutGraceful
  <2>0. \A p \in Workers :
              /\ stdin'[p] \in Seq(Events)
              /\ procState[p] \notin Serving => stdin'[p] = stdin[p]
              /\ NoCommand(stdin[p]) => NoCommand(stdin'[p])
              /\ OneCommand(stdin[p], callJob) => OneCommand(stdin'[p], callJob)
              /\ CommandsOf(stdin[p], Begun) => CommandsOf(stdin'[p], Begun)
    BY <1>4, ShutdownLine DEF Inv
  <2>1. TypeOK'
    <3>1. DOMAIN stdin' = Workers /\ stdin' = [p \in Workers |-> stdin'[p]]
      BY <1>4 DEF Inv, TypeOK, ShutGraceful
    <3>2. stdin' \in [Workers -> Seq(Events)]
      BY <2>0, <3>1
    <3> QED BY <1>4, <3>2, SMTT(30) DEF Inv, TypeOK, ShutGraceful
  <2>2. CallKnown' /\ HandleKnown'
    BY <1>4, <2>0
       DEF Inv, TypeOK, CallKnown, HandleKnown, Waiting, ShutGraceful
  <2>3. \A p \in Workers : ProcessKnown(p)'
    BY <1>4, <2>0 DEF Inv, TypeOK, ProcessKnown, Begun, Serving, ShutGraceful
  <2>4. \A p \in Workers : Attended(p)'
    BY <1>4, <2>0
       DEF Inv, TypeOK, Attended, Fresh, Abandoned, Owner, Commanded, AtWork,
           Answered, Waiting, CallKnown, HandleKnown, ShutGraceful
  <2>5. \A p \in Workers : ServesKnown(p)'
    BY <1>4, <2>0
       DEF Inv, TypeOK, ServesKnown, CallKnown, HandleKnown, ShutGraceful
  <2>6. ResultIsOwn'
    BY <1>4, <2>0
       DEF Inv, TypeOK, ResultIsOwn, ShutGraceful
  <2> QED BY <2>1, <2>2, <2>3, <2>4, <2>5, <2>6 DEF Inv
<1>5. CASE ShutKill
  <2>0. /\ signalled' \in [Workers -> BOOLEAN]
        /\ \A p \in Workers :
              /\ procState[p] \in Serving /\ signalled[p] => signalled'[p]
              /\ procState[p] = "none" /\ ~signalled[p] => ~signalled'[p]
    BY <1>5, Signalling DEF Inv, TypeOK, ShutKill, Terminate
  <2>1. TypeOK'
    BY <1>5, <2>0
       DEF Inv, TypeOK, Alive, Serving, Ended, ShutKill
  <2>2. CallKnown' /\ HandleKnown'
    BY <1>5, <2>0
       DEF Inv, TypeOK, CallKnown, HandleKnown, Waiting, ShutKill
  <2>3. \A p \in Workers : ProcessKnown(p)'
    BY <1>5, <2>0
       DEF Inv, TypeOK, ProcessKnown, Begun, ShutKill
  <2>4. \A p \in Workers : Attended(p)'
    BY <1>5, <2>0
       DEF Inv, TypeOK, Attended, Fresh, Abandoned, Owner, Commanded, AtWork,
           Answered, Waiting, CallKnown, HandleKnown, ShutKill
  <2>5. \A p \in Workers : ServesKnown(p)'
    BY <1>5, <2>0
       DEF Inv, TypeOK, ServesKnown, CallKnown, HandleKnown, ShutKill
  <2>6. ResultIsOwn'
    BY <1>5, <2>0
       DEF Inv, TypeOK, ResultIsOwn, ShutKill
  <2> QED BY <2>1, <2>2, <2>3, <2>4, <2>5, <2>6 DEF Inv
<1>6. CASE ShutRelease
  <2>1. TypeOK'
    BY <1>6
       DEF Inv, TypeOK, Alive, Serving, Ended, ShutRelease
  <2>2. CallKnown' /\ HandleKnown'
    BY <1>6
       DEF Inv, TypeOK, CallKnown, HandleKnown, Waiting, ShutRelease
  <2>3. \A p \in Workers : ProcessKnown(p)'
    BY <1>6
       DEF Inv, TypeOK, ProcessKnown, Begun, ShutRelease
  <2>4. \A p \in Workers : Attended(p)'
    BY <1>6
       DEF Inv, TypeOK, Attended, Fresh, Abandoned, Owner, Commanded, AtWork,
           Answered, Waiting, CallKnown, HandleKnown, ShutRelease
  <2>5. \A p \in Workers : ServesKnown(p)'
    BY <1>6
       DEF Inv, TypeOK, ServesKnown, CallKnown, HandleKnown, ShutRelease
  <2>6. ResultIsOwn'
    BY <1>6
       DEF Inv, TypeOK, ResultIsOwn, ShutRelease
  <2> QED BY <2>1, <2>2, <2>3, <2>4, <2>5, <2>6 DEF Inv
<1>7. CASE ShutReap
  <2>1. TypeOK'
    <3>1. stdinOpen' \in [Workers -> BOOLEAN]
      BY <1>7 DEF Inv, TypeOK, ShutReap
    <3> QED BY <1>7, <3>1 DEF Inv, TypeOK, ShutReap
  <2>2. CallKnown' /\ HandleKnown'
    BY <1>7
       DEF Inv, TypeOK, CallKnown, HandleKnown, Waiting, ShutReap
  <2>3. \A p \in Workers : ProcessKnown(p)'
    BY <1>7
       DEF Inv, TypeOK, ProcessKnown, Begun, ShutReap
  <2>4. \A p \in Workers : Attended(p)'
    BY <1>7
       DEF Inv, TypeOK, Attended, Fresh, Abandoned, Owner, Commanded, AtWork,
           Answered, Waiting, CallKnown, HandleKnown, ShutReap
  <2>5. \A p \in Workers : ServesKnown(p)'
    BY <1>7
       DEF Inv, TypeOK, ServesKnown, CallKnown, HandleKnown, ShutReap
  <2>6. ResultIsOwn'
    BY <1>7
       DEF Inv, TypeOK, ResultIsOwn, ShutReap
  <2> QED BY <2>1, <2>2, <2>3, <2>4, <2>5, <2>6 DEF Inv
<1>8. CASE ShutClear
  <2>1. TypeOK'
    BY <1>8
       DEF Inv, TypeOK, Alive, Serving, Ended, ShutClear
  <2>2. CallKnown' /\ HandleKnown'
    BY <1>8
       DEF Inv, TypeOK, CallKnown, HandleKnown, Waiting, ShutClear
  <2>3. \A p \in Workers : ProcessKnown(p)'
    BY <1>8
       DEF Inv, TypeOK, ProcessKnown, Begun, ShutClear
  <2>4. \A p \in Workers : Attended(p)'
    BY <1>8
       DEF Inv, TypeOK, Attended, Fresh, Abandoned, Owner, Commanded, AtWork,
           Answered, Waiting, CallKnown, HandleKnown, ShutClear
  <2>5. \A p \in Workers : ServesKnown(p)'
    BY <1>8
       DEF Inv, TypeOK, ServesKnown, CallKnown, HandleKnown, ShutClear
  <2>6. ResultIsOwn'
    BY <1>8
       DEF Inv, TypeOK, ResultIsOwn, ShutClear
  <2> QED BY <2>1, <2>2, <2>3, <2>4, <2>5, <2>6 DEF Inv
<1>9. CASE ShutInterrupted
  <2>1. TypeOK'
    BY <1>9
       DEF Inv, TypeOK, Alive, Serving, Ended, ShutInterrupted
  <2>2. CallKnown' /\ HandleKnown'
    BY <1>9
       DEF Inv, TypeOK, CallKnown, HandleKnown, Waiting, ShutInterrupted
  <2>3. \A p \in Workers : ProcessKnown(p)'
    BY <1>9
       DEF Inv, TypeOK, ProcessKnown, Begun, ShutInterrupted
  <2>4. \A p \in Workers : Attended(p)'
    BY <1>9
       DEF Inv, TypeOK, Attended, Fresh, Abandoned, Owner, Commanded, AtWork,
           Answered, Waiting, CallKnown, HandleKnown, ShutInterrupted
  <2>5. \A p \in Workers : ServesKnown(p)'
    BY <1>9
       DEF Inv, TypeOK, ServesKnown, CallKnown, HandleKnown, ShutInterrupted
  <2>6. ResultIsOwn'
    BY <1>9
       DEF Inv, TypeOK, ResultIsOwn, ShutInterrupted
  <2> QED BY <2>1, <2>2, <2>3, <2>4, <2>5, <2>6 DEF Inv
<1>10. CASE ServerExit
  <2>1. TypeOK'
    BY <1>10
       DEF Inv, TypeOK, Alive, Serving, Ended, ServerExit
  <2>2. CallKnown' /\ HandleKnown'
    BY <1>10
       DEF Inv, TypeOK, CallKnown, HandleKnown, Waiting, ServerExit
  <2>3. \A p \in Workers : ProcessKnown(p)'
    BY <1>10, Empty
       DEF Inv, TypeOK, ProcessKnown, Begun, ServerExit
  <2>4. \A p \in Workers : Attended(p)'
    BY <1>10
       DEF Inv, TypeOK, Attended, Fresh, Abandoned, Owner, Commanded, AtWork,
           Answered, Waiting, CallKnown, HandleKnown, ServerExit
  <2>5. \A p \in Workers : ServesKnown(p)'
    BY <1>10
       DEF Inv, TypeOK, ServesKnown, CallKnown, HandleKnown, ServerExit
  <2>6. ResultIsOwn'
    BY <1>10
       DEF Inv, TypeOK, ResultIsOwn, ServerExit
  <2> QED BY <2>1, <2>2, <2>3, <2>4, <2>5, <2>6 DEF Inv
<1>11. CASE ShutStdout
  <2>1. TypeOK'
    BY <1>11
       DEF Inv, TypeOK, Alive, Serving, Ended, ShutStdout
  <2>2. CallKnown' /\ HandleKnown'
    BY <1>11
       DEF Inv, TypeOK, CallKnown, HandleKnown, Waiting, ShutStdout
  <2>3. \A p \in Workers : ProcessKnown(p)'
    BY <1>11
       DEF Inv, TypeOK, ProcessKnown, Begun, ShutStdout
  <2>4. \A p \in Workers : Attended(p)'
    BY <1>11
       DEF Inv, TypeOK, Attended, Fresh, Abandoned, Owner, Commanded, AtWork,
           Answered, Waiting, CallKnown, HandleKnown, ShutStdout
  <2>5. \A p \in Workers : ServesKnown(p)'
    BY <1>11
       DEF Inv, TypeOK, ServesKnown, CallKnown, HandleKnown, ShutStdout
  <2>6. ResultIsOwn'
    BY <1>11
       DEF Inv, TypeOK, ResultIsOwn, ShutStdout
  <2> QED BY <2>1, <2>2, <2>3, <2>4, <2>5, <2>6 DEF Inv
<1> QED BY <1>1, <1>2, <1>3, <1>4, <1>5, <1>6, <1>7, <1>8, <1>9, <1>10,
            <1>11

\* However a call ends: nothing it leaves in the processes is unaccounted for.
LEMMA EndKeepsProcesses ==
    ASSUME TypeOK, callJob \in Renders, NEW how \in Ended, NEW whose,
           EndRender(how, whose), UNCHANGED <<procState, working, stdin, signalled>>,
           NEW p \in Workers, ProcessKnown(p),
           procState[p] = "none" => stdout'[p] = <<>>,
           NoEof(stdout[p]) => NoEof(stdout'[p])
    PROVE  ProcessKnown(p)'
<1>1. Begun \subseteq Begun'
  BY DEF TypeOK, EndRender, Begun, Ended
<1>2. CommandsOf(stdin[p], Begun')
  BY <1>1, CommandsGrow DEF ProcessKnown
<1>3. callJob' = None /\ p # None
  BY RenderAssumption DEF EndRender, None, Workers
<1> QED BY <1>1, <1>2, <1>3 DEF ProcessKnown

\* The call ends with its worker gone and reaped.
LEMMA ReapAndEnd ==
    ASSUME Inv, ~exited, callPc \in Waiting \cup {"write"},
           procState[useProc] \notin Serving,
           NEW how \in Ended \ {"output"}, Reap(useProc), EndRender(how, None),
           UNCHANGED <<shutVars, procState, working, uploaded, signalled, stdin>>
    PROVE  Inv'
<1>. USE RenderAssumption DEF shutVars, handleVars, Workers, None
<1>1. /\ useProc \in Workers /\ callJob \in Renders
      /\ stdout' = [stdout EXCEPT ![useProc] = <<>>]
      /\ useProc' = None /\ callJob' = None /\ callPc' = "idle"
  BY DEF Inv, TypeOK, Reap, EndRender, CallKnown, Waiting
<1>2. TypeOK'
  <2>1. /\ stdout' \in [Workers -> Seq(Events)]
        /\ procHandle' \in Workers \cup {None} /\ eventQueue' \in Workers \cup {None}
    BY <1>1 DEF Inv, TypeOK, Reap
  <2> QED BY <1>1, <2>1 DEF Inv, TypeOK, Reap, EndRender, Ended
<1>3. CallKnown' /\ HandleKnown'
  BY <1>1 DEF Inv, TypeOK, CallKnown, HandleKnown, Waiting, Reap, EndRender, Ended
<1>4. \A p \in Workers : ProcessKnown(p)'
  <2>1. \A p \in Workers : /\ procState[p] = "none" => stdout'[p] = <<>>
                           /\ NoEof(stdout[p]) => NoEof(stdout'[p])
    BY <1>1, Empty DEF Inv, TypeOK, ProcessKnown
  <2> QED BY <1>1, <2>1, EndKeepsProcesses DEF Inv
<1>5. \A p \in Workers : Attended(p)'
  BY <1>1, Empty DEF Inv, TypeOK, Attended, Fresh, Abandoned, Owner, HandleKnown,
                     Reap
<1>6. \A p \in Workers : ServesKnown(p)'
  BY <1>1 DEF Inv, TypeOK, ServesKnown, CallKnown, HandleKnown, Waiting, Reap
<1>7. ResultIsOwn'
  BY <1>1 DEF Inv, TypeOK, ResultIsOwn, EndRender
<1> QED BY <1>2, <1>3, <1>4, <1>5, <1>6, <1>7 DEF Inv

\* The thread in render(), until it has a worker.
LEMMA StartStep ==
    ASSUME Inv, NEW r \in Renders, RenderCall(r) \/ RequestCancel(r) \/ CallLock
           \/ EnsureFinds \/ EnsureReuse \/ EnsureSpawn \/ EnsureAdopt \/ TakeQueue
    PROVE  Inv'
<1>. USE RenderAssumption DEF callVars, resultVars, handleVars, shutVars, procVars,
      Workers, None
<1>1. CASE RenderCall(r)
  <2>1. TypeOK'
    BY <1>1, SMTT(30) DEF Inv, TypeOK, RenderCall
  <2>2. CallKnown' /\ HandleKnown'
    BY <1>1
       DEF Inv, TypeOK, CallKnown, HandleKnown, Waiting, RenderCall
  <2>3. \A p \in Workers : ProcessKnown(p)'
    <3>1. Begun \subseteq Begun' /\ r \notin Begun /\ callJob' = r
      BY <1>1 DEF Inv, TypeOK, RenderCall, Begun
    <3>2. \A p \in Workers : CommandsOf(stdin[p], Begun')
      BY <3>1, CommandsGrow DEF Inv, ProcessKnown
    <3> QED BY <1>1, <3>1, <3>2 DEF Inv, ProcessKnown, RenderCall
  <2>4. \A p \in Workers : Attended(p)'
    BY <1>1
       DEF Inv, TypeOK, Attended, Fresh, Abandoned, Owner, Commanded, AtWork,
           Answered, Waiting, CallKnown, HandleKnown, RenderCall
  <2>5. \A p \in Workers : ServesKnown(p)'
    BY <1>1
       DEF Inv, TypeOK, ServesKnown, CallKnown, HandleKnown, RenderCall
  <2>6. ResultIsOwn'
    BY <1>1
       DEF Inv, TypeOK, ResultIsOwn, RenderCall
  <2> QED BY <2>1, <2>2, <2>3, <2>4, <2>5, <2>6 DEF Inv
<1>2. CASE RequestCancel(r)
  <2>1. TypeOK'
    BY <1>2, SMTT(30) DEF Inv, TypeOK, RequestCancel
  <2>2. CallKnown' /\ HandleKnown'
    BY <1>2
       DEF Inv, TypeOK, CallKnown, HandleKnown, Waiting, RequestCancel
  <2>3. \A p \in Workers : ProcessKnown(p)'
    BY <1>2
       DEF Inv, TypeOK, ProcessKnown, Begun, RequestCancel
  <2>4. \A p \in Workers : Attended(p)'
    BY <1>2
       DEF Inv, TypeOK, Attended, Fresh, Abandoned, Owner, Commanded, AtWork,
           Answered, Waiting, CallKnown, HandleKnown, RequestCancel
  <2>5. \A p \in Workers : ServesKnown(p)'
    BY <1>2
       DEF Inv, TypeOK, ServesKnown, CallKnown, HandleKnown, RequestCancel
  <2>6. ResultIsOwn'
    BY <1>2
       DEF Inv, TypeOK, ResultIsOwn, RequestCancel
  <2> QED BY <2>1, <2>2, <2>3, <2>4, <2>5, <2>6 DEF Inv
<1>3. CASE CallLock
  <2>1. TypeOK'
    BY <1>3, SMTT(30) DEF Inv, TypeOK, CallLock
  <2>2. CallKnown' /\ HandleKnown'
    BY <1>3
       DEF Inv, TypeOK, CallKnown, HandleKnown, Waiting, CallLock
  <2>3. \A p \in Workers : ProcessKnown(p)'
    BY <1>3
       DEF Inv, TypeOK, ProcessKnown, Begun, CallLock
  <2>4. \A p \in Workers : Attended(p)'
    BY <1>3
       DEF Inv, TypeOK, Attended, Fresh, Abandoned, Owner, Commanded, AtWork,
           Answered, Waiting, CallKnown, HandleKnown, CallLock
  <2>5. \A p \in Workers : ServesKnown(p)'
    BY <1>3
       DEF Inv, TypeOK, ServesKnown, CallKnown, HandleKnown, CallLock
  <2>6. ResultIsOwn'
    BY <1>3
       DEF Inv, TypeOK, ResultIsOwn, CallLock
  <2> QED BY <2>1, <2>2, <2>3, <2>4, <2>5, <2>6 DEF Inv
<1>4. CASE EnsureReuse
  <2>1. TypeOK'
    BY <1>4
       DEF Inv, TypeOK, Alive, Serving, Ended, EnsureReuse
  <2>2. CallKnown' /\ HandleKnown'
    BY <1>4
       DEF Inv, TypeOK, CallKnown, HandleKnown, Waiting, EnsureReuse
  <2>3. \A p \in Workers : ProcessKnown(p)'
    BY <1>4
       DEF Inv, TypeOK, ProcessKnown, Begun, EnsureReuse
  <2>4. \A p \in Workers : Attended(p)'
    BY <1>4
       DEF Inv, TypeOK, Attended, Fresh, Abandoned, Owner, Commanded, AtWork,
           Answered, Waiting, CallKnown, HandleKnown, EnsureReuse
  <2>5. \A p \in Workers : ServesKnown(p)'
    BY <1>4
       DEF Inv, TypeOK, ServesKnown, CallKnown, HandleKnown, EnsureReuse
  <2>6. ResultIsOwn'
    BY <1>4
       DEF Inv, TypeOK, ResultIsOwn, EnsureReuse
  <2> QED BY <2>1, <2>2, <2>3, <2>4, <2>5, <2>6 DEF Inv
<1>5. CASE EnsureSpawn
  <2>0. /\ callJob \in Renders /\ procState[callJob] = "none" /\ callJob \in Begun
        /\ NoCommand(stdin[callJob]) /\ NoAnswer(stdout[callJob])
        /\ NoEof(stdout[callJob]) /\ working[callJob] = None
        /\ ~signalled[callJob]
        /\ procState' = [procState EXCEPT ![callJob] = "starting"]
        /\ callPc' = "adopt" /\ useProc = None /\ procHandle' = None
    <3>1. /\ callPc = "ensure" /\ callPc' = "adopt" /\ procHandle' = None
          /\ procState' = [procState EXCEPT ![callJob] = "starting"]
      BY <1>5 DEF EnsureSpawn
    <3>2. callJob \in Renders /\ useProc = None /\ ~exited
      BY <1>5, <3>1 DEF Inv, TypeOK, CallKnown, EnsureSpawn
    <3>3. outcome[callJob] = "pending"
      BY <3>2 DEF Inv, CallKnown
    <3>4. procState[callJob] = "none" /\ ProcessKnown(callJob)
      BY <3>1, <3>2 DEF Inv, ProcessKnown
    <3>5. /\ stdin[callJob] = <<>> /\ stdout[callJob] = <<>>
          /\ working[callJob] = None /\ ~signalled[callJob]
      BY <3>4 DEF ProcessKnown
    <3> QED BY <3>1, <3>2, <3>3, <3>4, <3>5, Empty DEF Begun
  <2>1. TypeOK'
    <3>1. procState' \in [Workers -> Alive \cup {"none", "dead"}]
      BY <2>0 DEF Inv, TypeOK, Alive, Serving
    <3>2. \A p \in Workers : (IF p = callJob THEN TRUE
                             ELSE IF p = procHandle THEN FALSE ELSE stdinOpen[p]) \in BOOLEAN
      BY DEF Inv, TypeOK
    <3>3. stdinOpen' \in [Workers -> BOOLEAN]
      BY <1>5, <3>2 DEF EnsureSpawn
    <3> QED BY <1>5, <3>1, <3>3 DEF Inv, TypeOK, EnsureSpawn
  <2>2. CallKnown' /\ HandleKnown'
    BY <1>5, <2>0
       DEF Inv, TypeOK, CallKnown, HandleKnown, Waiting, EnsureSpawn,
           HandleUsable
  <2>3. \A p \in Workers : ProcessKnown(p)'
    <3>1. UNCHANGED <<callJob, outcome, working, stdin, stdout, signalled>> /\ Begun' = Begun
      BY <1>5 DEF EnsureSpawn, Begun
    <3> QED BY <2>0, <3>1 DEF Inv, TypeOK, ProcessKnown
  <2>4. \A p \in Workers : Attended(p)'
    <3>1. UNCHANGED <<callJob, useProc, working, stdin, stdout>>
      BY <1>5 DEF EnsureSpawn
    <3>2. \A p \in Workers : Fresh(p) => Fresh(p)'
      BY <3>1 DEF Fresh
    <3>3. \A p \in Workers : ~Owner(p)
      BY <1>5 DEF EnsureSpawn, Owner, Waiting
    <3>4. \A p \in Workers : Abandoned(p) /\ p # callJob => Abandoned(p)'
      BY <2>0, <3>1 DEF Abandoned
    <3> QED BY <2>0, <3>2, <3>3, <3>4 DEF Inv, Attended, Fresh
  <2>5. \A p \in Workers : ServesKnown(p)'
    <3>1. UNCHANGED <<callJob, useProc, shutPc, signalled>>
      BY <1>5 DEF EnsureSpawn
    <3>2. procHandle = None \/ procState[procHandle] \notin Serving
      BY <1>5 DEF EnsureSpawn, HandleUsable, Alive
    <3>3. \A p \in Workers : p # callJob /\ procState'[p] \in Serving
              => procState[p] \in Serving
      BY <2>0 DEF Inv, TypeOK
    <3> QED BY <1>5, <2>0, <3>1, <3>2, <3>3 DEF Inv, ServesKnown, EnsureSpawn
  <2>6. ResultIsOwn'
    BY <1>5, <2>0
       DEF Inv, TypeOK, ResultIsOwn, EnsureSpawn, HandleUsable
  <2> QED BY <2>1, <2>2, <2>3, <2>4, <2>5, <2>6 DEF Inv
<1>6. CASE EnsureAdopt
  <2>1. TypeOK'
    BY <1>6
       DEF Inv, TypeOK, Alive, Serving, Ended, EnsureAdopt
  <2>2. CallKnown' /\ HandleKnown'
    BY <1>6
       DEF Inv, TypeOK, CallKnown, HandleKnown, Waiting, EnsureAdopt
  <2>3. \A p \in Workers : ProcessKnown(p)'
    BY <1>6
       DEF Inv, TypeOK, ProcessKnown, Begun, EnsureAdopt
  <2>4. \A p \in Workers : Attended(p)'
    BY <1>6
       DEF Inv, TypeOK, Attended, Fresh, Abandoned, Owner, Commanded, AtWork,
           Answered, Waiting, CallKnown, HandleKnown, EnsureAdopt
  <2>5. \A p \in Workers : ServesKnown(p)'
    BY <1>6
       DEF Inv, TypeOK, ServesKnown, CallKnown, HandleKnown, EnsureAdopt
  <2>6. ResultIsOwn'
    BY <1>6
       DEF Inv, TypeOK, ResultIsOwn, EnsureAdopt
  <2> QED BY <2>1, <2>2, <2>3, <2>4, <2>5, <2>6 DEF Inv
<1>7. CASE TakeQueue
  <2>1. TypeOK'
    BY <1>7, SMTT(30) DEF Inv, TypeOK, TakeQueue
  <2>2. CallKnown' /\ HandleKnown'
    BY <1>7
       DEF Inv, TypeOK, CallKnown, HandleKnown, Waiting, TakeQueue
  <2>3. \A p \in Workers : ProcessKnown(p)'
    BY <1>7
       DEF Inv, TypeOK, ProcessKnown, Begun, TakeQueue
  <2>4. \A p \in Workers : Attended(p)'
    BY <1>7
       DEF Inv, TypeOK, Attended, Fresh, Abandoned, Owner, Commanded, AtWork,
           Answered, Waiting, CallKnown, HandleKnown, TakeQueue
  <2>5. \A p \in Workers : ServesKnown(p)'
    BY <1>7
       DEF Inv, TypeOK, ServesKnown, CallKnown, HandleKnown, TakeQueue
  <2>6. ResultIsOwn'
    BY <1>7
       DEF Inv, TypeOK, ResultIsOwn, TakeQueue
  <2> QED BY <2>1, <2>2, <2>3, <2>4, <2>5, <2>6 DEF Inv
<1>8. CASE EnsureFinds
  <2>1. TypeOK'
    BY <1>8
       DEF Inv, TypeOK, Alive, Serving, Ended, EnsureFinds, HandleUsable
  <2>2. CallKnown' /\ HandleKnown'
    BY <1>8
       DEF Inv, TypeOK, CallKnown, HandleKnown, Waiting, EnsureFinds,
           HandleUsable
  <2>3. \A p \in Workers : ProcessKnown(p)'
    BY <1>8
       DEF Inv, TypeOK, ProcessKnown, Begun, EnsureFinds, HandleUsable
  <2>4. \A p \in Workers : Attended(p)'
    BY <1>8
       DEF Inv, TypeOK, Attended, Fresh, Abandoned, Owner, Commanded, AtWork,
           Answered, Waiting, CallKnown, HandleKnown, EnsureFinds, HandleUsable
  <2>5. \A p \in Workers : ServesKnown(p)'
    BY <1>8
       DEF Inv, TypeOK, ServesKnown, CallKnown, HandleKnown, EnsureFinds,
           HandleUsable
  <2>6. ResultIsOwn'
    BY <1>8
       DEF Inv, TypeOK, ResultIsOwn, EnsureFinds, HandleUsable
  <2> QED BY <2>1, <2>2, <2>3, <2>4, <2>5, <2>6 DEF Inv
<1> QED BY <1>1, <1>2, <1>3, <1>4, <1>5, <1>6, <1>7, <1>8

\* The thread in render(), when it gets no worker.
LEMMA NoWorkerStep ==
    ASSUME Inv, EnsureLost \/ SpawnFails
    PROVE  Inv'
<1>. USE RenderAssumption DEF callVars, resultVars, handleVars, shutVars, procVars,
      Workers, None
<1>1. /\ EndRender("error", None) /\ callJob \in Renders /\ useProc = None
      /\ callPc' = "idle" /\ callJob' = None /\ useProc' = None
      /\ procHandle' = None /\ eventQueue' = None /\ callPc \in {"ensure", "reuse"}
      /\ procHandle = None \/ procState[procHandle] \notin Serving
      /\ ~exited
      /\ UNCHANGED <<shutVars, procVars, signalled, stdin>>
  BY DEF EnsureLost, SpawnFails, EndRender, HandleUsable, Alive, Inv, TypeOK, CallKnown,
         HandleKnown
<1>2. TypeOK'
  <2>1. stdinOpen' \in [Workers -> BOOLEAN]
    BY DEF EnsureLost, SpawnFails, Inv, TypeOK
  <2>2. outcome' \in [Renders -> {"none", "pending"} \cup Ended]
    BY <1>1 DEF EndRender, Inv, TypeOK, Ended
  <2> QED BY <1>1, <2>1, <2>2 DEF Inv, TypeOK, EndRender
<1>3. CallKnown' /\ HandleKnown'
  BY <1>1 DEF Inv, TypeOK, CallKnown, HandleKnown, Waiting, EndRender, Ended
<1>4. \A p \in Workers : ProcessKnown(p)'
  BY <1>1, EndKeepsProcesses DEF Inv, ProcessKnown, Ended
<1>5. \A p \in Workers : Attended(p)'
  BY <1>1 DEF Inv, TypeOK, Attended, Fresh, Abandoned, Owner, Waiting
<1>6. \A p \in Workers : ServesKnown(p)'
  BY <1>1 DEF Inv, TypeOK, ServesKnown
<1>7. ResultIsOwn'
  BY <1>1 DEF Inv, TypeOK, ResultIsOwn, EndRender
<1> QED BY <1>2, <1>3, <1>4, <1>5, <1>6, <1>7 DEF Inv

\* The thread in render(), at the write.
LEMMA WriteStep ==
    ASSUME Inv, WriteCommand \/ WriteBrokenPipe \/ WriteClosedPipe
    PROVE  Inv'
<1>. USE RenderAssumption DEF callVars, resultVars, handleVars, shutVars, procVars,
      Workers, None
<1>1. CASE WriteCommand
  <2>. DEFINE e == Ev("render", callJob)
  <2>0. /\ useProc \in Workers /\ callJob \in Renders /\ callJob \in Begun
        /\ Fresh(useProc)
        /\ e \in Events /\ e.t = "render" /\ e.job = callJob
    BY <1>1 DEF Inv, TypeOK, WriteCommand, CallKnown, HandleKnown, Attended, Owner,
                Abandoned, Waiting, Begun, Ev, Events
  <2>a. /\ \/ stdin' = stdin
           \/ /\ procState[useProc] \in Serving
              /\ stdin' = [stdin EXCEPT ![useProc] = Append(stdin[useProc], e)]
        /\ callPc' = "check"
        /\ UNCHANGED <<callJob, useProc, outcome, procState, working, stdout, procHandle,
                       signalled>>
        /\ Begun' = Begun
    BY <1>1 DEF WriteCommand, Begun, Inv, TypeOK
  <2>. HIDE DEF e
  <2>b. /\ Append(stdin[useProc], e) \in Seq(Events)
        /\ OneCommand(Append(stdin[useProc], e), callJob)
        /\ CommandsOf(stdin[useProc], Begun) => CommandsOf(Append(stdin[useProc], e), Begun)
    BY <2>0, Appended DEF Inv, TypeOK, Fresh
  <2>1. TypeOK'
    <3>1. stdin' \in [Workers -> Seq(Events)]
      <4>1. stdin \in [Workers -> Seq(Events)]
        BY DEF Inv, TypeOK
      <4> QED BY <2>0, <2>a, <2>b, <4>1
    <3> QED BY <1>1, <3>1, SMTT(30) DEF Inv, TypeOK, WriteCommand
  <2>2. CallKnown' /\ HandleKnown'
    BY <1>1, <2>0
       DEF Inv, TypeOK, CallKnown, HandleKnown, Waiting, WriteCommand,
           WriteGoesThrough
  <2>3. \A p \in Workers : ProcessKnown(p)'
    BY <2>0, <2>a, <2>b DEF Inv, TypeOK, ProcessKnown, Serving
  <2>4. \A p \in Workers : Attended(p)'
    <3>1. \A p \in Workers : p # useProc => stdin'[p] = stdin[p]
      BY <2>0, <2>a DEF Inv, TypeOK
    <3>2. \A p \in Workers : p # useProc => Attended(p)'
      BY <1>1, <2>a, <3>1 DEF Inv, Attended, Fresh, Abandoned, Owner, WriteCommand, Waiting
    <3>3. \A p \in Workers : p = useProc => Attended(p)'
      BY <2>0, <2>a, <2>b DEF Inv, TypeOK, Attended, Owner, Commanded, Fresh, Waiting
    <3> QED BY <3>2, <3>3
  <2>5. \A p \in Workers : ServesKnown(p)'
    BY <1>1, <2>0
       DEF Inv, TypeOK, ServesKnown, CallKnown, HandleKnown, WriteCommand,
           WriteGoesThrough
  <2>6. ResultIsOwn'
    BY <1>1, <2>0
       DEF Inv, TypeOK, ResultIsOwn, WriteCommand, WriteGoesThrough
  <2> QED BY <2>1, <2>2, <2>3, <2>4, <2>5, <2>6 DEF Inv
<1>2. CASE WriteBrokenPipe
  <2>1. "died" \in Ended \ {"output"}
    BY DEF Ended
  <2> QED BY <1>2, <2>1, ReapAndEnd DEF WriteBrokenPipe
<1>3. CASE WriteClosedPipe
  <2>0. callJob \in Renders
    BY <1>3 DEF Inv, TypeOK, WriteClosedPipe, CallKnown
  <2>1. TypeOK'
    BY <1>3, <2>0
       DEF Inv, TypeOK, Alive, Serving, Ended, WriteClosedPipe, EndRender
  <2>2. CallKnown' /\ HandleKnown'
    BY <1>3, <2>0
       DEF Inv, TypeOK, CallKnown, HandleKnown, Waiting, WriteClosedPipe,
           EndRender
  <2>3. \A p \in Workers : ProcessKnown(p)'
    <3>1. "error" \in Ended
      BY DEF Ended
    <3> QED BY <1>3, <2>0, <3>1, EndKeepsProcesses
            DEF Inv, ProcessKnown, WriteClosedPipe
  <2>4. \A p \in Workers : Attended(p)'
    BY <1>3, <2>0
       DEF Inv, TypeOK, Attended, Fresh, Abandoned, Owner, Commanded, AtWork,
           Answered, Waiting, CallKnown, HandleKnown, WriteClosedPipe, EndRender
  <2>5. \A p \in Workers : ServesKnown(p)'
    BY <1>3, <2>0
       DEF Inv, TypeOK, ServesKnown, CallKnown, HandleKnown, WriteClosedPipe,
           EndRender
  <2>6. ResultIsOwn'
    BY <1>3, <2>0
       DEF Inv, TypeOK, ResultIsOwn, WriteClosedPipe, EndRender
  <2> QED BY <2>1, <2>2, <2>3, <2>4, <2>5, <2>6 DEF Inv
<1> QED BY <1>1, <1>2, <1>3

\* What the next event of the worker the call waits for tells.
LEMMA NextEvent ==
    ASSUME Inv, callPc = "get", useQueue # None, stdout[useQueue] # <<>>
    PROVE  /\ useProc \in Workers /\ useQueue = useProc /\ callJob \in Renders
           /\ Head(stdout[useProc]) \in Events
           /\ Head(stdout[useProc]).t = "eof" => procState[useProc] \notin Serving
           /\ Head(stdout[useProc]).t \in Terminal =>
                 /\ NoCommand(stdin[useProc]) /\ working[useProc] = None
                 /\ NoAnswer(Tail(stdout[useProc]))
                 /\ Head(stdout[useProc]).job = callJob
           /\ Head(stdout[useProc]).t = "result" => callJob \in uploaded
<1>. DEFINE s == stdout[useProc]
<1>1. /\ useProc \in Workers /\ useQueue = useProc /\ callJob \in Renders
      /\ s \in Seq(Events) /\ s # <<>>
  BY RenderAssumption DEF Inv, TypeOK, CallKnown, Waiting, Workers, None
<1>. HIDE DEF s
<1>2. /\ Head(s) \in Events
      /\ NoEof(s) => Head(s).t # "eof"
      /\ NoResult(s) => Head(s).t # "result"
      /\ NoAnswer(s) => Head(s).t \notin Terminal
      /\ OneAnswer(s, callJob) /\ Head(s).t \in Terminal
            => NoAnswer(Tail(s)) /\ Head(s).job = callJob
  BY <1>1, Taken
<1>3. procState[useProc] \in Serving => NoEof(s)
  BY <1>1 DEF Inv, ProcessKnown, s
<1>4. NoAnswer(s) \/ Answered(useProc)
  BY <1>1 DEF Inv, Attended, Fresh, Abandoned, Commanded, AtWork, s
<1>5. Head(s).t = "result" => Head(s).t \in Terminal
  BY DEF Terminal
<1> QED BY <1>1, <1>2, <1>3, <1>4, <1>5 DEF Answered, s

\* The call ends with the answer it has just taken.
LEMMA AnswerStep ==
    ASSUME Inv, ~exited, callPc = "get", useProc \in Workers, callJob \in Renders,
           stdout[useProc] # <<>>,
           NoCommand(stdin[useProc]), working[useProc] = None,
           NoAnswer(Tail(stdout[useProc])),
           stdout' = [stdout EXCEPT ![useProc] = Tail(@)],
           \/ EndRender("error", None)
           \/ EndRender("output", callJob) /\ callJob \in uploaded,
           UNCHANGED <<handleVars, stdinOpen, shutVars, procState, working, uploaded,
                       signalled, stdin>>
    PROVE  Inv'
<1>. USE RenderAssumption DEF shutVars, handleVars, Workers, None
<1>1. /\ stdout[useProc] \in Seq(Events)
      /\ Tail(stdout[useProc]) \in Seq(Events)
      /\ NoEof(stdout[useProc]) => NoEof(Tail(stdout[useProc]))
  BY Taken DEF Inv, TypeOK
<1>2. PICK how \in {"error", "output"}, whose \in Renders \cup {None} :
          EndRender(how, whose) /\ (how = "output" => whose = callJob /\ callJob \in uploaded)
  OBVIOUS
<1>3. TypeOK'
  <2>1. stdout' \in [Workers -> Seq(Events)]
    BY <1>1 DEF Inv, TypeOK
  <2> QED BY <1>2, <2>1 DEF Inv, TypeOK, EndRender, Ended
<1>4. CallKnown' /\ HandleKnown'
  BY <1>2 DEF Inv, TypeOK, CallKnown, HandleKnown, Waiting, EndRender
<1>5. \A p \in Workers : ProcessKnown(p)'
  <2>1. \A p \in Workers : /\ procState[p] = "none" => stdout'[p] = <<>>
                           /\ NoEof(stdout[p]) => NoEof(stdout'[p])
    BY <1>1 DEF Inv, TypeOK, ProcessKnown
  <2>2. how \in Ended
    BY DEF Ended
  <2> QED BY <1>2, <2>1, <2>2, EndKeepsProcesses DEF Inv
<1>6. \A p \in Workers : Attended(p)'
  <2>1. \A p \in Workers : p = useProc => Fresh(p)'
    BY DEF Inv, TypeOK, Fresh
  <2>2. \A p \in Workers : p # useProc => stdout'[p] = stdout[p]
    BY DEF Inv, TypeOK
  <2>3. useProc' = None /\ callPc' = "idle"
    BY <1>2 DEF EndRender
  <2> QED BY <2>1, <2>2, <2>3 DEF Inv, Attended, Fresh, Abandoned, Owner
<1>7. \A p \in Workers : ServesKnown(p)'
  BY DEF Inv, ServesKnown
<1>8. ResultIsOwn'
  BY <1>2 DEF Inv, TypeOK, ResultIsOwn, EndRender
<1> QED BY <1>3, <1>4, <1>5, <1>6, <1>7, <1>8 DEF Inv

\* The thread in render(), up to the answer.
LEMMA ReadStep ==
    ASSUME Inv, CheckCancel \/ CancelDone \/ GetTimeout \/ GetEvent \/
           GetWithoutQueue
    PROVE  Inv'
<1>. USE RenderAssumption DEF callVars, resultVars, handleVars, shutVars, procVars,
      Workers, None
<1>1. CASE CheckCancel
  <2>0. /\ useProc \in Workers /\ signalled' \in [Workers -> BOOLEAN]
        /\ procState[useProc] \in Serving /\ callPc' = "terminate" => signalled'[useProc]
        /\ \A p \in Workers :
              /\ procState[p] = "none" /\ ~signalled[p] => ~signalled'[p]
              /\ procState[p] \in Serving /\ signalled[p] => signalled'[p]
              /\ p # useProc => signalled'[p] = signalled[p]
    <3>1. useProc \in Workers
      BY <1>1 DEF Inv, TypeOK, CheckCancel, CallKnown
    <3>2. \A p \in Workers : procState[p] = "none" => ~signalled[p]
      BY DEF Inv, ProcessKnown
    <3>3. CASE Terminate(useProc)
      <4>1. /\ signalled' \in [Workers -> BOOLEAN]
            /\ procState[useProc] \in Serving => signalled'[useProc] = TRUE
            /\ procState[useProc] = "none" => signalled'[useProc] = FALSE
            /\ \A p \in Workers : p # useProc => signalled'[p] = signalled[p]
        BY <3>1, <3>3, Signalling DEF Inv
      <4>2. ASSUME NEW p \in Workers
            PROVE  /\ procState[p] = "none" /\ ~signalled[p] => ~signalled'[p]
                   /\ procState[p] \in Serving /\ signalled[p] => signalled'[p]
        <5>1. CASE p = useProc
          BY <4>1, <5>1
        <5>2. CASE p # useProc
          BY <4>1, <5>2
        <5> QED BY <5>1, <5>2
      <4> QED BY <3>1, <4>1, <4>2
    <3>4. CASE callPc' = "get" /\ signalled' = signalled
      BY <3>1, <3>4 DEF Inv, TypeOK
    <3> QED BY <1>1, <3>3, <3>4 DEF CheckCancel
  <2>1. TypeOK'
    BY <1>1, <2>0
       DEF Inv, TypeOK, Alive, Serving, Ended, CheckCancel, AskCancel
  <2>2. CallKnown' /\ HandleKnown'
    BY <1>1, <2>0 DEF Inv, TypeOK, CallKnown, HandleKnown, Waiting, CheckCancel, AskCancel
  <2>3. \A p \in Workers : ProcessKnown(p)'
    BY <1>1, <2>0
       DEF Inv, TypeOK, ProcessKnown, Begun, CheckCancel, AskCancel
  <2>4. \A p \in Workers : Attended(p)'
    BY <1>1, <2>0
       DEF Inv, TypeOK, Attended, Fresh, Abandoned, Owner, Commanded, AtWork,
           Answered, Waiting, CallKnown, HandleKnown, CheckCancel, AskCancel
  <2>5. \A p \in Workers : ServesKnown(p)'
    <3>1. callPc' = "get" => signalled' = signalled
      BY <1>1 DEF CheckCancel
    <3>2. callPc' \in {"get", "terminate"} /\ callPc = "check"
      BY <1>1 DEF CheckCancel
    <3> QED BY <1>1, <2>0, <3>1, <3>2 DEF Inv, ServesKnown, CheckCancel
  <2>6. ResultIsOwn'
    BY <1>1, <2>0
       DEF Inv, TypeOK, ResultIsOwn, CheckCancel, AskCancel
  <2> QED BY <2>1, <2>2, <2>3, <2>4, <2>5, <2>6 DEF Inv
<1>2. CASE CancelDone
  <2>1. "cancelled" \in Ended \ {"output"} /\ "terminate" \in Waiting
    BY DEF Ended, Waiting
  <2> QED BY <1>2, <2>1, ReapAndEnd DEF CancelDone, ReapWaits
<1>3. CASE GetTimeout
  <2>1. TypeOK'
    BY <1>3
       DEF Inv, TypeOK, Alive, Serving, Ended, GetTimeout, OnTimeout
  <2>2. CallKnown' /\ HandleKnown'
    BY <1>3
       DEF Inv, TypeOK, CallKnown, HandleKnown, Waiting, GetTimeout, OnTimeout
  <2>3. \A p \in Workers : ProcessKnown(p)'
    BY <1>3
       DEF Inv, TypeOK, ProcessKnown, Begun, GetTimeout, OnTimeout
  <2>4. \A p \in Workers : Attended(p)'
    BY <1>3
       DEF Inv, TypeOK, Attended, Fresh, Abandoned, Owner, Commanded, AtWork,
           Answered, Waiting, CallKnown, HandleKnown, GetTimeout, OnTimeout
  <2>5. \A p \in Workers : ServesKnown(p)'
    BY <1>3
       DEF Inv, TypeOK, ServesKnown, CallKnown, HandleKnown, GetTimeout,
           OnTimeout
  <2>6. ResultIsOwn'
    BY <1>3
       DEF Inv, TypeOK, ResultIsOwn, GetTimeout, OnTimeout
  <2> QED BY <2>1, <2>2, <2>3, <2>4, <2>5, <2>6 DEF Inv
<1>4. CASE GetEvent
  <2>. DEFINE ev == Head(stdout[useProc])
  <2>0. /\ ~exited /\ callPc = "get" /\ useQueue = useProc /\ stdout[useProc] # <<>>
        /\ UNCHANGED <<shutVars, procState, working, uploaded, signalled, stdin>>
        /\ useProc \in Workers /\ callJob \in Renders
    BY <1>4, NextEvent DEF GetEvent
  <2>1. CASE ev.t = "eof"
    <3>1. Reap(useProc) /\ EndRender("died", None)
      BY <1>4, <2>0, <2>1 DEF GetEvent
    <3>2. "died" \in Ended \ {"output"} /\ "get" \in Waiting
      BY DEF Ended, Waiting
    <3>3. procState[useProc] \notin Serving
      BY <1>4, <2>0, <2>1, NextEvent DEF GetEvent
    <3> QED BY <2>0, <3>1, <3>2, <3>3, ReapAndEnd
  <2>2. CASE ev.t \in Terminal
    <3>1. /\ stdout' = [stdout EXCEPT ![useProc] = Tail(@)]
          /\ UNCHANGED <<handleVars, stdinOpen>>
          /\ \/ ev.t = "result" /\ EndRender("output", ev.job)
             \/ ev.t = "error" /\ EndRender("error", None)
      BY <1>4, <2>0, <2>2 DEF GetEvent, Terminal
    <3>2. /\ NoCommand(stdin[useProc]) /\ working[useProc] = None
          /\ NoAnswer(Tail(stdout[useProc])) /\ ev.job = callJob
          /\ ev.t = "result" => callJob \in uploaded
      BY <1>4, <2>0, <2>2, NextEvent DEF GetEvent
    <3> QED BY <2>0, <3>1, <3>2, AnswerStep
  <2>3. CASE ev.t = "ready"
    <3>1. /\ stdout' = [stdout EXCEPT ![useProc] = Tail(@)] /\ callPc' = "check"
          /\ UNCHANGED <<callJob, useProc, useQueue, outcome, delivered, cancelRequested,
                         renderLock, procHandle, eventQueue, stdinOpen>>
      BY <1>4, <2>0, <2>3 DEF GetEvent
    <3>2. /\ Tail(stdout[useProc]) \in Seq(Events)
          /\ NoEof(stdout[useProc]) => NoEof(Tail(stdout[useProc]))
          /\ NoResult(stdout[useProc]) => NoResult(Tail(stdout[useProc]))
          /\ NoAnswer(stdout[useProc]) => NoAnswer(Tail(stdout[useProc]))
          /\ OneAnswer(stdout[useProc], callJob) => OneAnswer(Tail(stdout[useProc]), callJob)
      BY <2>0, Taken DEF Inv, TypeOK
    <3>3. \A p \in Workers : stdout'[p] = IF p = useProc THEN Tail(stdout[p]) ELSE stdout[p]
      BY <3>1 DEF Inv, TypeOK
    <3>4. stdout' \in [Workers -> Seq(Events)]
      BY <3>1, <3>2 DEF Inv, TypeOK
    <3>5. TypeOK'
      BY <2>0, <3>1, <3>4 DEF Inv, TypeOK
    <3>6. CallKnown' /\ HandleKnown'
      BY <2>0, <3>1 DEF Inv, CallKnown, HandleKnown, Waiting
    <3>7. \A p \in Workers : ProcessKnown(p)'
      <4>1. Begun' = Begun
        BY <3>1 DEF Begun
      <4>2. UNCHANGED <<procState, stdin, working, signalled, callJob>> /\ callPc' = "check"
        BY <2>0, <3>1
      <4>3. ASSUME NEW p \in Workers PROVE ProcessKnown(p)'
        <5>1. ProcessKnown(p)
          BY DEF Inv
        <5>2. CASE p # useProc
          <6>1. stdout'[p] = stdout[p]
            BY <3>3, <5>2
          <6> QED BY <4>1, <4>2, <5>1, <6>1 DEF ProcessKnown
        <5>3. CASE p = useProc
          <6>1. procState[p] # "none"
            BY <2>0, <5>1, <5>3 DEF ProcessKnown
          <6>2. NoEof(stdout[p]) => NoEof(stdout'[p])
            BY <3>2, <3>3, <5>3
          <6> QED BY <4>1, <4>2, <5>1, <6>1, <6>2 DEF ProcessKnown
        <5> QED BY <5>2, <5>3
      <4> QED BY <4>3
    <3>8. \A p \in Workers : Attended(p)'
      BY <2>0, <3>1, <3>2, <3>3 DEF Inv, Attended, Fresh, Abandoned, Owner, Commanded,
                                    AtWork, Answered, Waiting
    <3>9. (\A p \in Workers : ServesKnown(p)') /\ ResultIsOwn'
      BY <2>0, <3>1 DEF Inv, ServesKnown, ResultIsOwn
    <3> QED BY <3>5, <3>6, <3>7, <3>8, <3>9 DEF Inv
  <2> QED BY <1>4, <2>0, <2>1, <2>2, <2>3 DEF GetEvent, Terminal
<1>5. CASE GetWithoutQueue
  <2>0. callJob \in Renders
    BY <1>5 DEF Inv, TypeOK, GetWithoutQueue, CallKnown
  <2>1. TypeOK'
    BY <1>5, <2>0
       DEF Inv, TypeOK, Alive, Serving, Ended, GetWithoutQueue, EndRender
  <2>2. CallKnown' /\ HandleKnown'
    BY <1>5, <2>0
       DEF Inv, TypeOK, CallKnown, HandleKnown, Waiting, GetWithoutQueue,
           EndRender
  <2>3. \A p \in Workers : ProcessKnown(p)'
    <3>1. "error" \in Ended
      BY DEF Ended
    <3> QED BY <1>5, <2>0, <3>1, EndKeepsProcesses
            DEF Inv, ProcessKnown, GetWithoutQueue
  <2>4. \A p \in Workers : Attended(p)'
    BY <1>5, <2>0
       DEF Inv, TypeOK, Attended, Fresh, Abandoned, Owner, Commanded, AtWork,
           Answered, Waiting, CallKnown, HandleKnown, GetWithoutQueue, EndRender
  <2>5. \A p \in Workers : ServesKnown(p)'
    BY <1>5, <2>0
       DEF Inv, TypeOK, ServesKnown, CallKnown, HandleKnown, GetWithoutQueue,
           EndRender
  <2>6. ResultIsOwn'
    BY <1>5, <2>0
       DEF Inv, TypeOK, ResultIsOwn, GetWithoutQueue, EndRender
  <2> QED BY <2>1, <2>2, <2>3, <2>4, <2>5, <2>6 DEF Inv
<1> QED BY <1>1, <1>2, <1>3, <1>4, <1>5

\* A step of one worker that leaves the server's threads alone keeps the
\* invariant when the worker itself stays accounted for.
LEMMA OneWorkerMoves ==
    ASSUME Inv, NEW w \in Workers, procState[w] # "none",
           UNCHANGED <<callVars, resultVars, cancelRequested, handleVars, renderLock,
                       shutVars, uploaded, signalled, stdinOpen>>,
           NEW d \in (Alive \cup {"dead"}), NEW k \in Renders \cup {None},
           NEW i \in Seq(Events), NEW o \in Seq(Events),
           procState' = [procState EXCEPT ![w] = d],
           working' = [working EXCEPT ![w] = k],
           stdin' = [stdin EXCEPT ![w] = i],
           stdout' = [stdout EXCEPT ![w] = o],
           d \in Serving => procState[w] \in Serving /\ NoEof(o),
           d = "rendering" => k # None,
           k \in Begun \cup {None}, CommandsOf(i, Begun),
           Attended(w) => \/ Abandoned(w)
                          \/ NoCommand(i) /\ k = None /\ NoAnswer(o)
                          \/ /\ Owner(w)
                             /\ \/ OneCommand(i, callJob) /\ k = None /\ NoAnswer(o)
                                \/ NoCommand(i) /\ k = callJob /\ NoAnswer(o)
                                \/ /\ NoCommand(i) /\ k = None /\ OneAnswer(o, callJob)
                                   /\ NoResult(o) \/ callJob \in uploaded
    PROVE  Inv'
<1>. USE DEF callVars, resultVars, handleVars, shutVars, Workers, None
<1>1. TypeOK'
  <2>1. procState' \in [Workers -> Alive \cup {"none", "dead"}]
    BY DEF Inv, TypeOK, Alive, Serving
  <2>2. /\ working' \in [Workers -> Renders \cup {None}]
        /\ stdin' \in [Workers -> Seq(Events)] /\ stdout' \in [Workers -> Seq(Events)]
    BY DEF Inv, TypeOK
  <2> QED BY <2>1, <2>2, SMTT(30) DEF Inv, TypeOK
<1>2. \A p \in Workers : p # w => UNCHANGED <<procState[p], working[p], stdin[p], stdout[p]>>
  BY DEF Inv, TypeOK
<1>3. procState'[w] = d /\ working'[w] = k /\ stdin'[w] = i /\ stdout'[w] = o
  BY DEF Inv, TypeOK
<1>4. CallKnown' /\ HandleKnown'
  BY <1>2, <1>3 DEF Inv, TypeOK, CallKnown, HandleKnown, Waiting
<1>5. \A p \in Workers : ProcessKnown(p)'
  <2>1. d # "none"
    BY DEF Alive, Serving
  <2>2. Begun' = Begun
    BY DEF Begun
  <2>3. \A p \in Workers : p # w => ProcessKnown(p)'
    BY <1>2, <2>2 DEF Inv, ProcessKnown
  <2>4. \A p \in Workers : p = w => ProcessKnown(p)'
    BY <1>3, <2>1, <2>2 DEF Inv, ProcessKnown
  <2> QED BY <2>3, <2>4
<1>6. \A p \in Workers : Attended(p)'
  <2>1. \A p \in Workers : p # w => Attended(p)'
    BY <1>2 DEF Inv, Attended, Fresh, Abandoned, Owner, Commanded, AtWork, Answered
  <2>2. \A p \in Workers : p = w => Attended(p)'
    BY <1>3 DEF Inv, Attended, Fresh, Abandoned, Owner, Commanded, AtWork, Answered
  <2> QED BY <2>1, <2>2
<1>7. \A p \in Workers : ServesKnown(p)'
  BY <1>2, <1>3 DEF Inv, ServesKnown
<1>8. ResultIsOwn'
  BY DEF Inv, ResultIsOwn
<1> QED BY <1>1, <1>4, <1>5, <1>6, <1>7, <1>8 DEF Inv

\* Whyever a worker stops serving.
LEMMA StopStep ==
    ASSUME Inv, NEW w \in Workers, procState[w] \in Serving, StopServing(w),
           UNCHANGED <<callVars, resultVars, cancelRequested, handleVars, renderLock,
                       shutVars, uploaded, signalled, stdinOpen>>
    PROVE  Inv'
<1>. DEFINE o == Append(stdout[w], Eof)
<1>1. /\ o \in Seq(Events)
      /\ NoAnswer(stdout[w]) => NoAnswer(o)
      /\ OneAnswer(stdout[w], callJob) => OneAnswer(o, callJob)
      /\ NoResult(stdout[w]) => NoResult(o)
  <2>1. Eof \in Events /\ Eof.t \notin Terminal /\ Eof.t # "result"
    BY DEF Eof, Ev, Events, Terminal
  <2> QED BY <2>1, Appended DEF Inv, TypeOK, Workers
<1>2. /\ procState' = [procState EXCEPT ![w] = "closing"]
      /\ working' = [working EXCEPT ![w] = None]
      /\ stdin' = [stdin EXCEPT ![w] = <<>>]
      /\ stdout' = [stdout EXCEPT ![w] = o]
  BY DEF StopServing, PutEof, Emit
<1>. HIDE DEF o
<1>3. NoCommand(<<>>) /\ CommandsOf(<<>>, Begun) /\ <<>> \in Seq(Events)
  BY Empty
<1>4. "closing" \in Alive \cup {"dead"} /\ "closing" \notin Serving /\ procState[w] # "none"
  BY DEF Alive, Serving
<1>5. Attended(w) => \/ Abandoned(w)
                     \/ NoAnswer(o)
                     \/ /\ Owner(w) /\ OneAnswer(o, callJob)
                        /\ NoResult(o) \/ callJob \in uploaded
  BY <1>1 DEF Attended, Fresh, Commanded, AtWork, Answered
<1> QED BY <1>1, <1>2, <1>3, <1>4, <1>5, OneWorkerMoves

\* The worker processes.
LEMMA WorkerStep ==
    ASSUME Inv, NEW w \in Workers,
           \/ Steps(w) \/ WorkerReady(w) \/ WorkerUploads(w)
           \/ WorkerReports(w) \/ WorkerCrashes(w)
    PROVE  Inv'
<1>. USE RenderAssumption DEF Workers, None
<1>0. /\ stdin[w] \in Seq(Events) /\ stdout[w] \in Seq(Events)
      /\ procState = [procState EXCEPT ![w] = procState[w]]
      /\ working = [working EXCEPT ![w] = working[w]]
      /\ stdin = [stdin EXCEPT ![w] = stdin[w]]
      /\ stdout = [stdout EXCEPT ![w] = stdout[w]]
      /\ working[w] \in Renders \cup {None}
      /\ Attended(w) /\ ProcessKnown(w)
  BY DEF Inv, TypeOK
<1>1. CASE WorkerReady(w)
  <2>1. CASE exited
    BY <1>1, <2>1, StopStep DEF WorkerReady, Serving
  <2>2. CASE ~exited
    <3>. DEFINE o == Append(stdout[w], Ev("ready", None))
    <3>1. Ev("ready", None) \in Events /\ Ev("ready", None).t \notin Terminal \cup {"eof"}
      BY DEF Ev, Events, Terminal
    <3>2. /\ o \in Seq(Events)
          /\ NoAnswer(stdout[w]) => NoAnswer(o)
          /\ OneAnswer(stdout[w], callJob) => OneAnswer(o, callJob)
          /\ NoResult(stdout[w]) => NoResult(o)
          /\ NoEof(stdout[w]) => NoEof(o)
      BY <1>0, <3>1, Appended DEF Terminal
    <3>3. /\ procState' = [procState EXCEPT ![w] = "idle"]
          /\ stdout' = [stdout EXCEPT ![w] = o]
          /\ UNCHANGED <<working, stdin, callVars, resultVars, cancelRequested, handleVars,
                         renderLock, shutVars, uploaded, signalled, stdinOpen>>
      BY <1>1, <2>2 DEF WorkerReady, Emit
    <3>. HIDE DEF o
    <3>4. /\ procState[w] \in Serving \ {"none"} /\ "idle" \in Alive /\ "idle" # "rendering"
          /\ NoEof(stdout[w])
      BY <1>0, <1>1 DEF WorkerReady, Serving, Alive, ProcessKnown
    <3>5. Attended(w) =>
             \/ Abandoned(w)
             \/ NoCommand(stdin[w]) /\ working[w] = None /\ NoAnswer(o)
             \/ /\ Owner(w)
                /\ \/ OneCommand(stdin[w], callJob) /\ working[w] = None /\ NoAnswer(o)
                   \/ NoCommand(stdin[w]) /\ working[w] = callJob /\ NoAnswer(o)
                   \/ /\ NoCommand(stdin[w]) /\ working[w] = None /\ OneAnswer(o, callJob)
                      /\ NoResult(o) \/ callJob \in uploaded
      BY <3>2 DEF Attended, Fresh, Commanded, AtWork, Answered
    <3>6. working[w] \in Begun \cup {None} /\ CommandsOf(stdin[w], Begun)
      BY <1>0 DEF ProcessKnown
    <3>7. working' = [working EXCEPT ![w] = working[w]] /\ stdin' = [stdin EXCEPT ![w] = stdin[w]]
      BY <1>0, <3>3
    <3> QED BY <1>0, <3>2, <3>3, <3>4, <3>5, <3>6, <3>7, OneWorkerMoves
  <2> QED BY <2>1, <2>2
<1>2. CASE WorkerTakesRender(w)
  <2>. DEFINE k == Head(stdin[w]).job
              i == Tail(stdin[w])
  <2>1. /\ Head(stdin[w]).t = "render" /\ stdin[w] # <<>> /\ procState[w] = "idle"
        /\ procState' = [procState EXCEPT ![w] = "rendering"]
        /\ working' = [working EXCEPT ![w] = k]
        /\ stdin' = [stdin EXCEPT ![w] = i]
        /\ UNCHANGED <<stdout, callVars, resultVars, cancelRequested, handleVars,
                       renderLock, shutVars, uploaded, signalled, stdinOpen>>
    BY <1>2 DEF WorkerTakesRender
  <2>2. /\ i \in Seq(Events)
        /\ CommandsOf(stdin[w], Begun) => CommandsOf(i, Begun) /\ k \in Begun
        /\ ~NoCommand(stdin[w])
        /\ OneCommand(stdin[w], callJob) => NoCommand(i) /\ k = callJob
    BY <1>0, <2>1, Taken
  <2>. HIDE DEF k, i
  <2>3. k \in Begun /\ k \in Renders /\ k # None /\ CommandsOf(i, Begun)
    BY <1>0, <2>2 DEF ProcessKnown, Begun
  <2>4. /\ procState[w] \in Serving /\ procState[w] # "none" /\ "rendering" \in Alive
        /\ NoEof(stdout[w])
    BY <1>0, <2>1 DEF ProcessKnown, Serving, Alive
  <2>5. Attended(w) => \/ Abandoned(w)
                       \/ /\ Owner(w)
                          /\ NoCommand(i) /\ k = callJob /\ NoAnswer(stdout[w])
    BY <2>2 DEF Attended, Fresh, Commanded, AtWork, Answered
  <2>6. stdout' = [stdout EXCEPT ![w] = stdout[w]]
    BY <1>0, <2>1
  <2> QED BY <1>0, <2>1, <2>2, <2>3, <2>4, <2>5, <2>6, OneWorkerMoves
<1>3. CASE WorkerUploads(w)
  <2>. USE DEF callVars, resultVars, handleVars, shutVars
  <2>1. working[w] \in Renders
    BY <1>0, <1>3 DEF WorkerUploads, ProcessKnown
  <2>2. TypeOK'
    BY <1>3, <2>1, SMTT(30) DEF Inv, TypeOK, WorkerUploads
  <2>3. CallKnown' /\ HandleKnown' /\ ResultIsOwn'
    BY <1>3 DEF Inv, CallKnown, HandleKnown, ResultIsOwn, WorkerUploads
  <2>4. \A p \in Workers : ProcessKnown(p)'
    BY <1>3 DEF Inv, ProcessKnown, Begun, WorkerUploads
  <2>5. \A p \in Workers : Attended(p)'
    BY <1>3 DEF Inv, Attended, Fresh, Abandoned, Owner, Commanded, AtWork, Answered,
                WorkerUploads
  <2>6. \A p \in Workers : ServesKnown(p)'
    BY <1>3 DEF Inv, ServesKnown, WorkerUploads
  <2> QED BY <2>2, <2>3, <2>4, <2>5, <2>6 DEF Inv
<1>4. CASE WorkerReports(w)
  <2>1. CASE exited
    BY <1>4, <2>1, StopStep DEF WorkerReports, Serving
  <2>2. CASE ~exited
    <3>1. PICK e \in {Ev("result", working[w]), Ev("error", working[w])} :
             /\ stdout' = [stdout EXCEPT ![w] = Append(@, e)]
             /\ e.t = "result" => working[w] \in uploaded
      BY <1>4, <2>2 DEF WorkerReports, Emit, Ev
    <3>. DEFINE o == Append(stdout[w], e)
    <3>2. /\ procState' = [procState EXCEPT ![w] = "idle"]
          /\ working' = [working EXCEPT ![w] = None]
          /\ UNCHANGED <<stdin, callVars, resultVars, cancelRequested, handleVars,
                         renderLock, shutVars, uploaded, signalled, stdinOpen>>
          /\ procState[w] = "rendering"
      BY <1>4, <2>2 DEF WorkerReports
    <3>3. /\ e \in Events /\ e.t \in Terminal /\ e.t # "eof" /\ e.job = working[w]
      BY <1>0 DEF Ev, Events, Terminal
    <3>4. /\ o \in Seq(Events)
          /\ NoAnswer(stdout[w]) => OneAnswer(o, working[w])
          /\ NoEof(stdout[w]) => NoEof(o)
          /\ NoResult(stdout[w]) /\ e.t # "result" => NoResult(o)
      BY <1>0, <3>3, Appended
    <3>5. stdout' = [stdout EXCEPT ![w] = o]
      BY <3>1
    <3>. HIDE DEF o
    <3>6. NoAnswer(stdout[w]) => NoResult(stdout[w])
      BY DEF NoAnswer, NoResult, Terminal
    <3>7. working[w] # None /\ NoEof(stdout[w]) /\ CommandsOf(stdin[w], Begun)
      BY <1>0, <3>2 DEF ProcessKnown, Serving
    <3>8. Attended(w) => \/ Abandoned(w)
                         \/ /\ Owner(w) /\ NoCommand(stdin[w]) /\ OneAnswer(o, callJob)
                            /\ NoResult(o) \/ callJob \in uploaded
      BY <3>1, <3>4, <3>6, <3>7 DEF Attended, Fresh, Commanded, AtWork, Answered
    <3>9. /\ procState[w] \in Serving /\ procState[w] # "none" /\ "idle" \in Alive
          /\ stdin' = [stdin EXCEPT ![w] = stdin[w]]
      BY <1>0, <3>2 DEF Serving, Alive
    <3> QED BY <1>0, <3>2, <3>4, <3>5, <3>7, <3>8, <3>9, OneWorkerMoves
  <2> QED BY <2>1, <2>2
<1>5. CASE WorkerLeaves(w)
  BY <1>5, StopStep DEF WorkerLeaves, Serving
<1>6. CASE WorkerCrashes(w)
  BY <1>6, StopStep DEF WorkerCrashes
<1>7. CASE WorkerKilled(w)
  BY <1>7, StopStep DEF WorkerKilled
<1>8. CASE WorkerGone(w)
  <2>1. /\ procState[w] # "none" /\ "dead" \notin Serving \cup {"rendering"}
        /\ procState' = [procState EXCEPT ![w] = "dead"]
        /\ working' = [working EXCEPT ![w] = working[w]]
        /\ stdin' = [stdin EXCEPT ![w] = stdin[w]]
        /\ stdout' = [stdout EXCEPT ![w] = stdout[w]]
    BY <1>0, <1>8 DEF WorkerGone, Serving
  <2>2. working[w] \in Begun \cup {None} /\ CommandsOf(stdin[w], Begun)
    BY <1>0 DEF ProcessKnown
  <2>3. UNCHANGED <<callVars, resultVars, cancelRequested, handleVars, renderLock, shutVars,
                    uploaded, signalled, stdinOpen>>
    BY <1>8 DEF WorkerGone
  <2>4. Attended(w) =>
           \/ Abandoned(w)
           \/ NoCommand(stdin[w]) /\ working[w] = None /\ NoAnswer(stdout[w])
           \/ /\ Owner(w)
              /\ \/ OneCommand(stdin[w], callJob) /\ working[w] = None /\ NoAnswer(stdout[w])
                 \/ NoCommand(stdin[w]) /\ working[w] = callJob /\ NoAnswer(stdout[w])
                 \/ /\ NoCommand(stdin[w]) /\ working[w] = None
                    /\ OneAnswer(stdout[w], callJob)
                    /\ NoResult(stdout[w]) \/ callJob \in uploaded
    BY DEF Attended, Fresh, Commanded, AtWork, Answered
  <2> QED BY <1>0, <2>1, <2>2, <2>3, <2>4, OneWorkerMoves
<1> QED BY <1>1, <1>2, <1>3, <1>4, <1>5, <1>6, <1>7, <1>8 DEF Steps

\* The invariant is inductive.
LEMMA InitKeeps == Init => Inv
<1>. SUFFICES ASSUME Init PROVE Inv
  OBVIOUS
<1>. USE RenderAssumption DEF Init, Workers, None
<1>1. TypeOK
  <2>1. /\ outcome \in [Renders -> {"none", "pending"} \cup Ended]
        /\ procState \in [Workers -> Alive \cup {"none", "dead"}]
        /\ signalled \in [Workers -> BOOLEAN] /\ stdinOpen \in [Workers -> BOOLEAN]
        /\ cancelRequested \in [Renders -> BOOLEAN]
    OBVIOUS
  <2>2. stdin \in [Workers -> Seq(Events)] /\ stdout \in [Workers -> Seq(Events)]
    OBVIOUS
  <2> QED BY <2>1, <2>2 DEF TypeOK
<1>2. CallKnown /\ HandleKnown /\ ResultIsOwn
  BY DEF CallKnown, HandleKnown, ResultIsOwn, Waiting
<1>3. \A p \in Workers : ProcessKnown(p) /\ Attended(p) /\ ServesKnown(p)
  BY Empty DEF ProcessKnown, Attended, Fresh, ServesKnown, Serving, Begun
<1> QED BY <1>1, <1>2, <1>3 DEF Inv

LEMMA StepKeeps == Inv /\ [Next]_clientVars => Inv'
<1>. SUFFICES ASSUME Inv, [Next]_clientVars PROVE Inv'
  OBVIOUS
<1>1. CASE \E r \in Renders : RenderCall(r) \/ RequestCancel(r)
  BY <1>1, StartStep
<1>2. CASE Caller
  <2>1. Renders # {}
    BY <1>2, RenderAssumption
       DEF Caller, Inv, CallKnown, TypeOK, None, CallLock, EnsureFinds, EnsureLost,
           EnsureReuse, EnsureSpawn, SpawnFails, EnsureAdopt, TakeQueue, WriteCommand, WriteBrokenPipe, WriteClosedPipe,
           CheckCancel, CancelDone, GetTimeout, GetEvent, GetWithoutQueue
  <2> QED BY <1>2, <2>1, StartStep, NoWorkerStep, WriteStep, ReadStep DEF Caller
<1>3. CASE ShutRead \/ Shut \/ ShutInterrupted
  BY <1>3, MainStep DEF Shut
<1>4. CASE \E p \in Workers : \/ Steps(p) \/ WorkerReady(p) \/ WorkerUploads(p)
                              \/ WorkerReports(p) \/ WorkerCrashes(p)
  BY <1>4, WorkerStep
<1>5. CASE UNCHANGED clientVars
  <2>. USE <1>5 DEF clientVars, callVars, resultVars, handleVars, shutVars, procVars
  <2>1. TypeOK'
    BY DEF Inv, TypeOK
  <2>2. CallKnown' /\ HandleKnown' /\ ResultIsOwn'
    BY DEF Inv, CallKnown, HandleKnown, ResultIsOwn
  <2>3. \A p \in Workers : ProcessKnown(p)' /\ ServesKnown(p)'
    BY DEF Inv, ProcessKnown, ServesKnown, Begun
  <2>4. \A p \in Workers : Attended(p)'
    BY DEF Inv, Attended, Fresh, Abandoned, Owner, Commanded, AtWork, Answered
  <2> QED BY <2>1, <2>2, <2>3, <2>4 DEF Inv
<1> QED BY <1>1, <1>2, <1>3, <1>4, <1>5 DEF Next

LEMMA InvHolds == Spec => []Inv
  BY InitKeeps, StepKeeps, PTL DEF Spec
-----------------------------------------------------------------------------
(* The theorems. *)

\* Every variable of the client and of its workers stays in its type.
THEOREM TypeCorrect == Spec => []TypeOK
<1>1. Inv => TypeOK
  BY DEF Inv
<1> QED BY <1>1, InvHolds, PTL

\* A call returns only the result of its own render, with its clip in R2,
\* although _read_until_terminal takes the next terminal event unseen.
THEOREM OwnResult == Spec => []ResultIsOwn
<1>1. Inv => ResultIsOwn
  BY DEF Inv
<1> QED BY <1>1, InvHolds, PTL

\* Until shutdown at most one worker serves that was not told to die.
THEOREM SingleWorker == Spec => []OneWorker
<1>1. Inv => OneWorker
  BY RenderAssumption DEF Inv, ServesKnown, HandleKnown, OneWorker, Workers, None
<1> QED BY <1>1, InvHolds, PTL

\* Until shutdown nobody renders for a caller that has left.
THEOREM NothingAbandoned == Spec => []NoAbandonedRender
<1>1. Inv => NoAbandonedRender
  <2>. SUFFICES ASSUME Inv, shutPc = "no", NEW p \in Workers,
                       procState[p] = "rendering", ~signalled[p]
                PROVE  working[p] = callJob /\ useProc = p /\ callPc \in {"check", "get"}
    BY DEF NoAbandonedRender
  <2>1. procState[p] \in Serving /\ working[p] # None
    BY DEF Inv, ProcessKnown, Serving
  <2>2. ~Abandoned(p)
    BY <2>1 DEF Inv, ServesKnown, Abandoned
  <2>3. Owner(p) /\ AtWork(p)
    BY <2>1, <2>2 DEF Inv, Attended, Fresh, Commanded, Answered
  <2>4. callPc # "terminate"
    BY <2>1, <2>3 DEF Inv, CallKnown, Owner
  <2> QED BY <2>3, <2>4 DEF Owner, AtWork, Waiting
<1> QED BY <1>1, InvHolds, PTL
-----------------------------------------------------------------------------
(* The client keeps RenderPromise. *)

\* Whoever uploads does it for the call that waits, or the server is stopping.
LEMMA UploadForCaller ==
    ASSUME Inv, NEW w \in Workers, procState[w] = "rendering"
    PROVE  /\ working[w] \in Renders /\ outcome[working[w]] # "none"
           /\ shutPc = "no" => ~exited /\ outcome[working[w]] = "pending"
<1>. USE RenderAssumption DEF Workers, None
<1>1. /\ working[w] \in Renders /\ outcome[working[w]] # "none"
      /\ procState[w] \in Serving /\ working[w] # None
  BY DEF Inv, TypeOK, ProcessKnown, Serving, Begun
<1>2. ASSUME shutPc = "no"
      PROVE  ~exited /\ outcome[working[w]] = "pending"
  <2>1. ~exited
    BY <1>2 DEF Inv, HandleKnown
  <2>2. ~Abandoned(w)
    BY <1>1, <1>2 DEF Inv, ServesKnown, Abandoned
  <2>3. working[w] = callJob
    BY <1>1, <2>2 DEF Inv, Attended, Fresh, AtWork, Commanded, Answered
  <2> QED BY <1>1, <2>1, <2>3 DEF Inv, CallKnown
<1> QED BY <1>1, <1>2

\* A call that ends was running; it has its clip if it returns a result, and
\* was asked to stop if it ends cancelled.
LEMMA EndsAsPromised ==
    ASSUME Inv, ~exited, callJob \in Renders, NEW how \in Ended, NEW whose,
           EndRender(how, whose), how = "output" => callJob \in uploaded,
           how = "cancelled" => cancelRequested[callJob],
           UNCHANGED <<uploaded, shutPc, exited>>
    PROVE  Promise!PromiseNext
<1>1. outcome[callJob] = "pending"
  BY DEF Inv, CallKnown
<1>2. Promise!End(callJob, how)
  BY <1>1 DEF Promise!End, Promise!Running, Promise!MayEnd, EndRender
<1>3. how \in Promise!Endings
  BY DEF Ended, Promise!Endings
<1> QED BY <1>2, <1>3 DEF Promise!PromiseNext

\* Every step of the client is one the promise allows, or invisible to it.
LEMMA StepAsPromised ==
    Inv /\ [Next]_clientVars => [Promise!PromiseNext]_(Promise!promiseVars)
<1>. SUFFICES ASSUME Inv, [Next]_clientVars
              PROVE  Promise!PromiseNext \/ UNCHANGED Promise!promiseVars
  OBVIOUS
<1>. USE RenderAssumption DEF Workers, None, callVars, resultVars, handleVars, shutVars,
         procVars
<1>1. ASSUME NEW r \in Renders, RenderCall(r)
      PROVE  Promise!PromiseNext
  <2>1. \A s \in Renders : outcome[s] # "pending"
    BY <1>1 DEF RenderCall, Inv, CallKnown
  <2>2. Promise!Begin(r)
    BY <1>1, <2>1 DEF RenderCall, Promise!Begin
  <2> QED BY <2>2 DEF Promise!PromiseNext
<1>2. ASSUME NEW r \in Renders, RequestCancel(r)
      PROVE  Promise!PromiseNext
  <2>1. Promise!Ask(r)
    BY <1>2 DEF RequestCancel, Promise!Ask, Promise!Running
  <2> QED BY <2>1 DEF Promise!PromiseNext
<1>3. CASE Caller
  <2>1. CASE CallLock \/ EnsureFinds \/ EnsureReuse \/ EnsureSpawn \/ EnsureAdopt
             \/ TakeQueue \/ WriteCommand \/ CheckCancel \/ GetTimeout
    <3>1. UNCHANGED <<outcome, cancelRequested, uploaded, exited, shutPc>>
      BY <2>1 DEF CallLock, EnsureFinds, EnsureReuse, EnsureSpawn, EnsureAdopt, TakeQueue,
                  WriteCommand, CheckCancel, GetTimeout, OnTimeout
    <3> QED BY <3>1 DEF Promise!promiseVars
  <2>2. CASE WriteBrokenPipe \/ WriteClosedPipe \/ GetWithoutQueue \/ EnsureLost
             \/ SpawnFails
    <3>1. PICK how \in {"died", "error"} : EndRender(how, None)
      BY <2>2 DEF WriteBrokenPipe, WriteClosedPipe, GetWithoutQueue, EnsureLost, SpawnFails
    <3>2. ~exited /\ callJob \in Renders /\ UNCHANGED <<uploaded, shutPc, exited>>
      BY <2>2 DEF WriteBrokenPipe, WriteClosedPipe, GetWithoutQueue, EnsureLost, SpawnFails,
                  Inv, TypeOK, CallKnown
    <3>3. how \in Ended /\ how # "output" /\ how # "cancelled"
      BY DEF Ended
    <3> QED BY <3>1, <3>2, <3>3, EndsAsPromised
  <2>3. CASE CancelDone
    <3>1. /\ EndRender("cancelled", None) /\ ~exited /\ callJob \in Renders
          /\ cancelRequested[callJob] /\ UNCHANGED <<uploaded, shutPc, exited>>
      BY <2>3 DEF CancelDone, Inv, TypeOK, CallKnown
    <3>2. "cancelled" \in Ended
      BY DEF Ended
    <3> QED BY <3>1, <3>2, EndsAsPromised
  <2>4. CASE GetEvent
    <3>1. /\ ~exited /\ callPc = "get" /\ useQueue # None /\ stdout[useQueue] # <<>>
          /\ UNCHANGED <<uploaded, shutPc, exited>>
      BY <2>4 DEF GetEvent
    <3>2. /\ useQueue = useProc /\ callJob \in Renders
          /\ Head(stdout[useProc]).t = "result" => callJob \in uploaded
      BY <3>1, NextEvent
    <3>3. CASE Head(stdout[useProc]).t = "ready"
      BY <2>4, <3>2, <3>3 DEF GetEvent, Promise!promiseVars
    <3>4. CASE Head(stdout[useProc]).t # "ready"
      <4>1. PICK how, whose :
                /\ how \in {"died", "error", "output"}
                /\ EndRender(how, whose) /\ (how = "output" => callJob \in uploaded)
        BY <2>4, <3>2, <3>4 DEF GetEvent
      <4>2. how \in Ended /\ how # "cancelled"
        BY <4>1 DEF Ended
      <4> QED BY <3>1, <3>2, <4>1, <4>2, EndsAsPromised
    <3> QED BY <3>3, <3>4
  <2> QED BY <1>3, <2>1, <2>2, <2>3, <2>4 DEF Caller
<1>4. CASE ShutRead \/ ShutInterrupted
  <2>1. CASE shutPc = "no"
    <3>1. Promise!Stop
      BY <1>4, <2>1 DEF ShutRead, ShutInterrupted, Promise!Stop, Inv, HandleKnown
    <3> QED BY <3>1 DEF Promise!PromiseNext
  <2>2. CASE shutPc # "no"
    BY <1>4, <2>2 DEF ShutRead, ShutInterrupted, Promise!promiseVars
  <2> QED BY <2>1, <2>2
<1>5. CASE Shut
  <2>1. CASE ServerExit
    <3>1. Promise!Exit
      BY <2>1 DEF ServerExit, Promise!Exit
    <3> QED BY <3>1 DEF Promise!PromiseNext
  <2>2. CASE ~ServerExit
    BY <1>5, <2>2 DEF Shut, ShutLock, ShutNoLock, ShutGraceful, ShutKill, ShutRelease,
                      ShutReap, ShutStdout, ShutClear, Promise!promiseVars
  <2> QED BY <2>1, <2>2
<1>6. ASSUME NEW p \in Workers, WorkerUploads(p)
      PROVE  Promise!PromiseNext
  <2>1. Promise!Upload(working[p])
    BY <1>6, UploadForCaller DEF WorkerUploads, Promise!Upload, Promise!MayUpload
  <2>2. working[p] \in Renders
    BY <1>6, UploadForCaller DEF WorkerUploads
  <2> QED BY <2>1, <2>2 DEF Promise!PromiseNext
<1>7. ASSUME NEW p \in Workers,
             Steps(p) \/ WorkerReady(p) \/ WorkerReports(p) \/ WorkerCrashes(p)
      PROVE  UNCHANGED Promise!promiseVars
  BY <1>7 DEF Steps, WorkerReady, WorkerTakesRender, WorkerReports, WorkerLeaves,
              WorkerCrashes, WorkerKilled, WorkerGone, Promise!promiseVars
<1>8. CASE UNCHANGED clientVars
  BY <1>8 DEF clientVars, Promise!promiseVars
<1>9. CASE \E r \in Renders : RenderCall(r) \/ RequestCancel(r)
  BY <1>9, <1>1, <1>2
<1>10. CASE \E p \in Workers : \/ Steps(p) \/ WorkerReady(p) \/ WorkerUploads(p)
                               \/ WorkerReports(p) \/ WorkerCrashes(p)
  BY <1>10, <1>6, <1>7
<1> QED BY <1>3, <1>4, <1>5, <1>8, <1>9, <1>10 DEF Next

\* The client implements what the door relies on: one render at a time, each
\* ending once and as it may, and uploads only for the call that waits.
THEOREM KeepsPromise == Spec => ImplementsPromise
<1>1. Init => Promise!PromiseInit
  BY DEF Init, Promise!PromiseInit
<1> QED BY <1>1, StepAsPromised, InvHolds, PTL DEF Spec, ImplementsPromise,
           Promise!PromiseSpec
-----------------------------------------------------------------------------
(* What the liveness properties rest on: nobody waits for something that   *)
(* cannot come.                                                            *)

\* A call that waits for an event of a worker that no longer serves has the
\* end of its stdout before it, or has no queue and fails: its waits never
\* time out for ever (the safety half of DeathEndsRender).
DeathIsHeard ==
    callPc = "get" /\ procState[useProc] \notin Serving =>
        useQueue = None \/ (useQueue = useProc /\ ~NoEof(stdout[useQueue]))

\* The end of a stdout is there until nobody can use the worker any more.
EofKnown(p) == procState[p] \notin Serving => Abandoned(p) \/ ~NoEof(stdout[p])

EofInv == \A p \in Workers : EofKnown(p)

\* Nobody loses the end of a stdout by reading something else.
LEMMA EofStays ==
    ASSUME NEW s \in Seq(Events), NEW e \in Events
    PROVE  /\ ~NoEof(s) => ~NoEof(Append(s, e))
           /\ e.t = "eof" => ~NoEof(Append(s, e))
           /\ s # <<>> /\ ~NoEof(s) /\ Head(s).t # "eof" => ~NoEof(Tail(s))
<1> DEFINE q == Append(s, e)
           r == Tail(s)
<1>1. /\ Len(q) = Len(s) + 1 /\ Len(s) \in Nat /\ q[Len(s) + 1] = e
      /\ \A i \in 1 .. Len(s) : q[i] = s[i]
  OBVIOUS
<1>2. s # <<>> => /\ Len(r) = Len(s) - 1 /\ Head(s) = s[1]
                  /\ \A i \in 2 .. Len(s) : i - 1 \in 1 .. Len(r) /\ r[i - 1] = s[i]
  <2> SUFFICES ASSUME s # <<>>
               PROVE  /\ Len(r) = Len(s) - 1 /\ Head(s) = s[1]
                      /\ \A i \in 2 .. Len(s) : i - 1 \in 1 .. Len(r) /\ r[i - 1] = s[i]
    OBVIOUS
  <2>1. Len(r) = Len(s) - 1 /\ Head(s) = s[1] /\ Len(s) \in Nat
    OBVIOUS
  <2>2. ASSUME NEW i \in 2 .. Len(s) PROVE i - 1 \in 1 .. Len(r) /\ r[i - 1] = s[i]
    <3>1. PICK j \in 1 .. Len(r) : i = j + 1
      BY <2>1
    <3>2. r[j] = s[j + 1]
      OBVIOUS
    <3> QED
      BY <3>1, <3>2
  <2> QED
    BY <2>1, <2>2
<1> HIDE DEF q, r
<1>3. ~NoEof(s) => ~NoEof(q)
  BY <1>1 DEF NoEof
<1>4. e.t = "eof" => ~NoEof(q)
  BY <1>1 DEF NoEof
<1>5. ASSUME s # <<>>, ~NoEof(s), Head(s).t # "eof" PROVE ~NoEof(r)
  <2>1. PICK i \in 1 .. Len(s) : s[i].t = "eof"
    BY <1>5 DEF NoEof
  <2>2. i \in 2 .. Len(s)
    BY <1>1, <1>2, <1>5, <2>1
  <2> QED
    BY <1>2, <1>5, <2>1, <2>2 DEF NoEof
<1> QED
  BY <1>3, <1>4, <1>5 DEF q, r

\* A call that leaves by _reap leaves nobody who could use any worker.
LEMMA ReapAbandons ==
    ASSUME Inv, useProc # None, Reap(useProc), callPc' = "idle", useProc' = None
    PROVE  \A p \in Workers : Abandoned(p)'
<1>1. procHandle \in {useProc, None}
  BY DEF Inv, HandleKnown
<1>2. procHandle' = None
  BY <1>1 DEF Reap, handleVars
<1> QED
  BY <1>2, RenderAssumption DEF Abandoned, Workers, None

LEMMA EofStep ==
    ASSUME Inv, EofInv, [Next]_clientVars, NEW p \in Workers
    PROVE  EofKnown(p)'
<1> USE DEF EofInv, EofKnown, callVars, handleVars, shutVars, procVars
<1>0. /\ stdout \in [Workers -> Seq(Events)]
      /\ procState \in [Workers -> Alive \cup {"none", "dead"}]
      /\ p # None /\ "starting" \in Serving
  BY RenderAssumption DEF Inv, TypeOK, Workers, None, Serving
<1>1. CASE /\ UNCHANGED <<procState[p], stdout[p]>>
           /\ Abandoned(p) => Abandoned(p)'
  BY <1>1
<1>2. CASE /\ UNCHANGED <<procState, stdout>>
           /\ \/ CallLock \/ EnsureFinds \/ EnsureReuse \/ EnsureAdopt \/ TakeQueue \/ WriteCommand
              \/ CheckCancel \/ GetTimeout
              \/ \E r \in Renders : RenderCall(r) \/ RequestCancel(r)
  <2>1. Abandoned(p) => Abandoned(p)'
    BY <1>0, <1>2 DEF CallLock, EnsureFinds, EnsureReuse, EnsureAdopt, TakeQueue, WriteCommand, CheckCancel,
      GetTimeout, OnTimeout, RenderCall, RequestCancel, Abandoned
  <2> QED
    BY <1>1, <1>2, <2>1
<1>3. CASE WriteClosedPipe \/ GetWithoutQueue \/ EnsureLost \/ SpawnFails
  <2>1. Abandoned(p) => Abandoned(p)'
    BY <1>0, <1>3 DEF WriteClosedPipe, GetWithoutQueue, EnsureLost, SpawnFails, EndRender,
      Abandoned
  <2>2. UNCHANGED <<procState, stdout>>
    BY <1>3 DEF WriteClosedPipe, GetWithoutQueue, EnsureLost, SpawnFails
  <2> QED
    BY <1>1, <2>1, <2>2
<1>4. CASE EnsureSpawn
  <2>1. /\ procHandle' = None /\ useProc' = useProc /\ callPc' = "adopt" /\ callJob' = callJob
        /\ procState' = [procState EXCEPT ![callJob] = "starting"] /\ stdout' = stdout
        /\ useProc = None
    BY <1>4 DEF EnsureSpawn, Inv, CallKnown
  <2>2. CASE p = callJob
    BY <1>0, <2>1, <2>2
  <2>3. CASE p # callJob
    BY <1>0, <2>1, <2>3 DEF Abandoned
  <2> QED
    BY <2>2, <2>3
<1>5. CASE WriteBrokenPipe \/ CancelDone
  <2>1. useProc # None
    BY <1>5 DEF WriteBrokenPipe, CancelDone, Inv, CallKnown
  <2>2. Reap(useProc) /\ callPc' = "idle" /\ useProc' = None
    BY <1>5 DEF WriteBrokenPipe, CancelDone, EndRender
  <2> QED
    BY <2>1, <2>2, ReapAbandons
<1>6. CASE GetEvent
  <2>1. /\ useProc # None /\ useQueue \in Workers /\ stdout[useQueue] # <<>>
        /\ useQueue = useProc /\ procState' = procState
    BY <1>6 DEF GetEvent, Inv, TypeOK, CallKnown, Waiting
  <2>2. CASE Reap(useProc) /\ EndRender("died", None)
    BY <2>1, <2>2, ReapAbandons DEF EndRender
  <2>3. CASE /\ Head(stdout[useQueue]).t # "eof"
             /\ stdout' = [stdout EXCEPT ![useQueue] = Tail(@)]
             /\ Abandoned(p) => Abandoned(p)'
    <3>1. CASE p = useQueue
      <4>1. stdout[p] \in Seq(Events)
        BY <1>0
      <4>2. stdout'[p] = Tail(stdout[p]) /\ Eof \in Events
        BY <1>0, <2>3, <3>1 DEF Eof, Ev, Events
      <4>3. ~NoEof(stdout[p]) => ~NoEof(stdout'[p])
        BY <2>1, <2>3, <3>1, <4>1, <4>2, EofStays
      <4> QED
        BY <2>1, <2>3, <4>3
    <3>2. CASE p # useQueue
      BY <1>1, <2>1, <2>3, <3>2, <1>0
    <3> QED
      BY <3>1, <3>2
  <2>4. \/ Reap(useProc) /\ EndRender("died", None)
        \/ /\ Head(stdout[useQueue]).t # "eof"
           /\ stdout' = [stdout EXCEPT ![useQueue] = Tail(@)]
           /\ Abandoned(p) => Abandoned(p)'
    BY <1>0, <1>6 DEF GetEvent, EndRender, Abandoned
  <2> QED
    BY <2>2, <2>3, <2>4
<1>7. CASE \/ ShutRead \/ ShutLock \/ ShutNoLock \/ ShutGraceful \/ ShutKill \/ ShutRelease
           \/ ShutReap \/ ShutStdout \/ ShutClear \/ ShutInterrupted
           \/ UNCHANGED clientVars
  <2>1. UNCHANGED <<procState, stdout>>
    BY <1>7 DEF ShutRead, ShutLock, ShutNoLock, ShutGraceful, ShutKill, ShutRelease, ShutReap,
      ShutStdout, ShutClear, ShutInterrupted, clientVars
  <2>2. Abandoned(p) => Abandoned(p)'
    BY <1>0, <1>7 DEF ShutRead, ShutLock, ShutNoLock, ShutGraceful, ShutKill, ShutRelease,
      ShutReap, ShutStdout, ShutClear, ShutInterrupted, clientVars, Abandoned
  <2> QED
    BY <1>1, <2>1, <2>2
<1>8. CASE ServerExit
  BY <1>0, <1>8 DEF ServerExit, Abandoned
<1>9. ASSUME NEW w \in Workers, UNCHANGED <<callVars, handleVars>>, StopServing(w)
      PROVE  EofKnown(p)'
  <2>1. Abandoned(p)' <=> Abandoned(p)
    BY <1>9 DEF Abandoned
  <2>2. CASE p = w
    <3>1. Eof \in Events /\ Eof.t = "eof"
      BY DEF Eof, Ev, Events
    <3>2. stdout[p] \in Seq(Events) /\ stdout'[p] = Append(stdout[p], Eof)
      BY <1>0, <1>9, <2>2 DEF StopServing, PutEof, Emit
    <3> QED
      BY <3>1, <3>2, EofStays
  <2>3. CASE p # w
    <3>1. UNCHANGED <<procState[p], stdout[p]>>
      BY <1>0, <1>9, <2>3 DEF StopServing, PutEof, Emit
    <3> QED
      BY <1>1, <2>1, <3>1
  <2> QED
    BY <2>2, <2>3
<1>10. ASSUME NEW w \in Workers, \/ Steps(w) \/ WorkerReady(w) \/ WorkerUploads(w)
                                 \/ WorkerReports(w) \/ WorkerCrashes(w)
       PROVE  EofKnown(p)'
  <2>1. UNCHANGED <<callVars, handleVars>>
    BY <1>10 DEF Steps, WorkerReady, WorkerTakesRender, WorkerUploads, WorkerReports,
      WorkerLeaves, WorkerCrashes, WorkerKilled, WorkerGone
  <2>2. Abandoned(p)' <=> Abandoned(p)
    BY <2>1 DEF Abandoned
  <2>3. CASE StopServing(w)
    BY <1>9, <2>1, <2>3
  <2>4. CASE WorkerGone(w)
    BY <1>0, <2>2, <2>4 DEF WorkerGone, Serving
  <2>5. CASE ~StopServing(w) /\ ~WorkerGone(w)
    <3>1. \/ UNCHANGED <<procState[p], stdout[p]>>
          \/ procState'[p] \in Serving
      BY <1>0, <1>10, <2>5 DEF Steps, WorkerReady, WorkerTakesRender, WorkerUploads,
        WorkerReports, WorkerLeaves, WorkerCrashes, WorkerKilled, Emit, Serving
    <3>2. procState'[p] \in Serving => EofKnown(p)'
      BY DEF Serving
    <3> QED
      BY <1>1, <2>2, <3>1, <3>2
  <2> QED
    BY <2>3, <2>4, <2>5
<1>11. CASE \/ CallLock \/ EnsureFinds \/ EnsureReuse \/ EnsureAdopt \/ TakeQueue \/ WriteCommand
            \/ CheckCancel \/ GetTimeout
            \/ \E r \in Renders : RenderCall(r) \/ RequestCancel(r)
  <2>1. UNCHANGED <<procState, stdout>>
    BY <1>11 DEF CallLock, EnsureFinds, EnsureReuse, EnsureAdopt, TakeQueue, WriteCommand, CheckCancel,
      GetTimeout, RenderCall, RequestCancel
  <2> QED
    BY <1>2, <1>11, <2>1
<1> QED
  BY <1>3, <1>4, <1>5, <1>6, <1>7, <1>8, <1>10, <1>11 DEF Next, Caller, Shut

\* A worker's death always reaches the call that waits for it.
THEOREM DeathAlwaysHeard == Spec => []DeathIsHeard
<1>1. Init => EofInv
  BY RenderAssumption DEF Init, EofInv, EofKnown, Abandoned, Workers, None
<1>2. Inv /\ EofInv /\ [Next]_clientVars => EofInv'
  <2> SUFFICES ASSUME Inv, EofInv, [Next]_clientVars, NEW p \in Workers PROVE EofKnown(p)'
    BY DEF EofInv, EofKnown, Abandoned
  <2> QED
    BY EofStep
<1>3. Inv /\ EofInv => DeathIsHeard
  <2> SUFFICES ASSUME Inv, EofInv, callPc = "get", procState[useProc] \notin Serving
               PROVE  useQueue = None \/ (useQueue = useProc /\ ~NoEof(stdout[useQueue]))
    BY DEF DeathIsHeard
  <2>1. useProc \in Workers /\ useQueue \in {useProc, None} /\ ~Abandoned(useProc)
    BY DEF Inv, TypeOK, CallKnown, Waiting, Abandoned
  <2> QED
    BY <2>1 DEF EofInv, EofKnown
<1> QED
  BY <1>1, <1>2, <1>3, InvHolds, PTL DEF Spec
-----------------------------------------------------------------------------
\* While shutdown waits for the worker's stdout to end, the worker is not
\* serving or was told to die: the wait is for the kernel only (the safety
\* half of ShutdownExits).
ShutIsTold ==
    shutPc \in {"release", "reap", "stdout"} /\ procState[shutProc] \in Serving => signalled[shutProc]

\* What was taken for a handle was started, and nothing starts it again.
ToldInv ==
    /\ procHandle # None => procState[procHandle] # "none"
    /\ callPc = "adopt" => procState[callJob] # "none"
    /\ shutPc \in {"lock", "graceful", "kill", "release", "reap", "stdout"} =>
          shutProc \in Workers /\ procState[shutProc] # "none"
    /\ ShutIsTold

LEMMA ToldStep ==
    ASSUME Inv, ToldInv, [Next]_clientVars
    PROVE  ToldInv'
<1> USE DEF ToldInv, ShutIsTold, callVars, handleVars, shutVars, procVars
<1>0. /\ procState \in [Workers -> Alive \cup {"none", "dead"}]
      /\ signalled \in [Workers -> BOOLEAN]
      /\ procHandle \in Workers \cup {None} /\ callJob \in Renders \cup {None}
      /\ useProc \in Workers \cup {None} /\ shutProc \in Workers \cup {None}
      /\ None \notin Workers /\ "none" \notin Alive /\ "starting" # "none"
      /\ \A p \in Workers : ~signalled[p] <=> signalled[p] = FALSE
  BY RenderAssumption DEF Inv, TypeOK, Workers, None, Alive, Serving
<1>1. CASE /\ UNCHANGED <<procState, signalled, shutPc, shutProc>>
           /\ callPc' = "adopt" => callPc = "adopt" /\ callJob' = callJob
           /\ procHandle' # None =>
                 procHandle' = procHandle \/ (callPc = "adopt" /\ procHandle' = callJob)
  BY <1>0, <1>1
<1>2. CASE \/ CallLock \/ EnsureFinds \/ EnsureReuse \/ EnsureAdopt \/ TakeQueue \/ WriteCommand
           \/ WriteClosedPipe \/ GetTimeout \/ GetWithoutQueue \/ EnsureLost \/ SpawnFails
           \/ \E r \in Renders : RenderCall(r) \/ RequestCancel(r)
  BY <1>1, <1>2 DEF CallLock, EnsureFinds, EnsureReuse, EnsureAdopt, TakeQueue, WriteCommand,
    WriteClosedPipe, GetTimeout, OnTimeout, GetWithoutQueue, EnsureLost, SpawnFails,
    EndRender, RenderCall, RequestCancel
<1>3. CASE WriteBrokenPipe \/ CancelDone \/ GetEvent
  BY <1>1, <1>3 DEF WriteBrokenPipe, CancelDone, GetEvent, EndRender, Reap
<1>4. CASE EnsureSpawn
  <2>1. /\ callPc = "ensure" /\ procHandle' = None /\ callPc' = "adopt" /\ callJob' = callJob
        /\ procState' = [procState EXCEPT ![callJob] = "starting"]
        /\ UNCHANGED <<signalled, shutPc, shutProc>>
    BY <1>4 DEF EnsureSpawn
  <2>2. callJob \in Workers /\ procState[callJob] = "none"
    BY <1>0, <2>1 DEF Inv, CallKnown, ProcessKnown, Workers, None
  <2> QED
    BY <1>0, <2>1, <2>2
<1>5. CASE CheckCancel
  <2>1. useProc \in Workers
    BY <1>0, <1>5 DEF CheckCancel, Inv, CallKnown
  <2>2. \/ signalled' = signalled
        \/ /\ procState[useProc] \in Serving => signalled'[useProc] = TRUE
           /\ \A p \in Workers : p # useProc => signalled'[p] = signalled[p]
    BY <1>5, <2>1, Signalling DEF CheckCancel, Inv
  <2>3. /\ UNCHANGED <<procState, procHandle, shutPc, shutProc>> /\ callPc' # "adopt"
    BY <1>5 DEF CheckCancel
  <2> QED
    BY <1>0, <2>2, <2>3
<1>6. CASE ShutRead
  BY <1>0, <1>6 DEF ShutRead
<1>7. CASE ShutLock \/ ShutNoLock \/ ShutGraceful \/ ShutRelease \/ ShutReap \/ ShutStdout
           \/ ShutClear \/ ShutInterrupted
  BY <1>0, <1>7 DEF ShutLock, ShutNoLock, ShutGraceful, ShutRelease, ShutReap, ShutStdout,
    ShutClear, ShutInterrupted
<1>8. CASE ShutKill
  <2>1. shutPc = "kill" /\ Terminate(shutProc) /\ shutProc \in Workers
    BY <1>8 DEF ShutKill
  <2>2. procState[shutProc] \in Serving => signalled'[shutProc] = TRUE
    BY <2>1, Signalling DEF Inv
  <2> QED
    BY <1>8, <2>1, <2>2 DEF ShutKill
<1>9. CASE ServerExit
  BY <1>9 DEF ServerExit, Inv, HandleKnown
<1>10. CASE UNCHANGED clientVars
  BY <1>1, <1>10 DEF clientVars
<1>11. ASSUME NEW w \in Workers, \/ Steps(w) \/ WorkerReady(w) \/ WorkerUploads(w)
                                 \/ WorkerReports(w) \/ WorkerCrashes(w)
       PROVE  ToldInv'
  <2>1. UNCHANGED <<callPc, callJob, procHandle, shutPc, shutProc, signalled>>
    BY <1>11 DEF Steps, WorkerReady, WorkerTakesRender, WorkerUploads, WorkerReports,
      WorkerLeaves, WorkerCrashes, WorkerKilled, WorkerGone
  <2>2. \A p \in Workers : procState[p] # "none" => procState'[p] # "none"
    BY <1>0, <1>11 DEF Steps, WorkerReady, WorkerTakesRender, WorkerUploads, WorkerReports,
      WorkerLeaves, WorkerCrashes, WorkerKilled, WorkerGone, StopServing
  <2>3. \A p \in Workers : procState'[p] \in Serving => procState[p] \in Serving
    BY <1>0, <1>11 DEF Steps, WorkerReady, WorkerTakesRender, WorkerUploads, WorkerReports,
      WorkerLeaves, WorkerCrashes, WorkerKilled, WorkerGone, StopServing, Serving
  <2>4. callPc = "adopt" => callJob \in Workers
    BY <1>0 DEF Inv, CallKnown, Workers
  <2> QED
    BY <1>0, <2>1, <2>2, <2>3, <2>4
<1> QED
  BY <1>2, <1>3, <1>4, <1>5, <1>6, <1>7, <1>8, <1>9, <1>10, <1>11 DEF Next, Caller, Shut

\* Shutdown never waits for a worker that nobody told to die.
THEOREM ShutAlwaysTold == Spec => []ShutIsTold
<1>1. Init => ToldInv
  BY DEF Init, ToldInv, ShutIsTold
<1>2. Inv /\ ToldInv /\ [Next]_clientVars => ToldInv'
  BY ToldStep
<1>3. ToldInv => ShutIsTold
  BY DEF ToldInv
<1> QED
  BY <1>1, <1>2, <1>3, InvHolds, PTL DEF Spec
-----------------------------------------------------------------------------
\* The render lock: a call holds it from the start of _ensure_worker to its
\* end, however it ends; shutdown's line is only written by who holds it, so
\* it is never mixed with a command; and it is never left behind.
OneWriter ==
    /\ renderLock = "render" <=> callPc \notin {"idle", "lock"}
    /\ shutPc = "graceful" => renderLock = "shutdown"
    /\ renderLock = "shutdown" => shutPc \in {"graceful", "kill", "release"}

\* _render_lock and the guarded shutdown give the stdin one writer at a time.
THEOREM OneWriterAlways == Spec => []OneWriter
<1>1. Init => OneWriter
  BY DEF Init, OneWriter
<1>2. ASSUME OneWriter, [Next]_clientVars PROVE OneWriter'
  <2> USE <1>2 DEF OneWriter, callVars, shutVars
  <2>1. CASE \E r \in Renders : RenderCall(r) \/ RequestCancel(r)
    BY <2>1 DEF RenderCall, RequestCancel
  <2>2. CASE CallLock
    BY <2>2 DEF CallLock
  <2>3. CASE EnsureFinds \/ EnsureReuse \/ EnsureSpawn \/ EnsureAdopt \/ TakeQueue \/ WriteCommand
             \/ CheckCancel
    BY <2>3 DEF EnsureFinds, EnsureReuse, EnsureSpawn, EnsureAdopt, TakeQueue, WriteCommand,
      CheckCancel
  <2>4. CASE WriteBrokenPipe \/ WriteClosedPipe \/ CancelDone \/ GetWithoutQueue
             \/ EnsureLost \/ SpawnFails
    BY <2>4 DEF WriteBrokenPipe, WriteClosedPipe, CancelDone, GetWithoutQueue, EnsureLost,
      SpawnFails, EndRender
  <2>5. CASE GetTimeout \/ GetEvent
    BY <2>5 DEF GetTimeout, OnTimeout, GetEvent, EndRender
  <2>6. CASE ShutRead \/ ShutLock \/ ShutNoLock \/ ShutGraceful \/ ShutKill
    BY <2>6 DEF ShutRead, ShutLock, ShutNoLock, ShutGraceful, ShutKill
  <2>7. CASE ShutRelease \/ ShutReap \/ ShutStdout \/ ShutClear \/ ShutInterrupted
    BY <2>7 DEF ShutRelease, ShutReap, ShutStdout, ShutClear, ShutInterrupted
  <2>8. CASE ServerExit
    BY <2>8 DEF ServerExit
  <2>9. CASE \/ UNCHANGED clientVars
             \/ \E p \in Workers : \/ Steps(p) \/ WorkerReady(p) \/ WorkerUploads(p)
                                   \/ WorkerReports(p) \/ WorkerCrashes(p)
    <3>1. UNCHANGED <<renderLock, callPc, shutPc>>
      BY <2>9 DEF clientVars, Steps, WorkerReady, WorkerTakesRender, WorkerUploads,
        WorkerReports, WorkerLeaves, WorkerCrashes, WorkerKilled, WorkerGone
    <3> QED
      BY <3>1
  <2> QED
    BY <2>1, <2>2, <2>3, <2>4, <2>5, <2>6, <2>7, <2>8, <2>9 DEF Next, Caller, Shut
<1>3. OneWriter /\ [Next]_clientVars => OneWriter'
  BY <1>2
<1> QED
  BY <1>1, <1>3, PTL DEF Spec
=============================================================================
