--------------------------- MODULE TrainRunProofs ---------------------------
(***************************************************************************)
(* TrainRun's properties for bundles of any number of slots and references *)
(* and for every number a caller may send.  The argument rests on two      *)
(* pieces of arithmetic: iterations are updates * accumulation + pending   *)
(* with pending below the accumulation, so the test on the remainder fires *)
(* exactly when the last iteration of an update ends; and the bar is a     *)
(* quotient that grows with the iterations and meets the bar of the next   *)
(* slot.  The ceiling of 32 on the accumulation below the floor of 50 on   *)
(* the steps does the rest.                                                *)
(***************************************************************************)
EXTENDS TrainRun, TLAPS

LEMMA RemainderOfSum ==
    ASSUME NEW a \in Nat \ {0}, NEW u \in Nat, NEW p \in 0 .. (a - 1)
    PROVE  (u * a + p) % a = p
BY SMTT(30)

\* The remainder is zero exactly when the pending iteration is the last one.
LEMMA UpdateDue ==
    ASSUME NEW a \in Nat \ {0}, NEW u \in Nat, NEW p \in 0 .. (a - 1)
    PROVE  (u * a + p + 1) % a = 0 <=> p + 1 = a
<1>1. CASE p + 1 = a
  <2>1. u * a + p + 1 = (u + 1) * a + 0
    BY <1>1
  <2> QED
    BY <1>1, <2>1, RemainderOfSum
<1>2. CASE p + 1 # a
  <2>1. p + 1 \in 0 .. (a - 1)
    BY <1>2
  <2>2. (u * a + (p + 1)) % a = p + 1
    BY <2>1, RemainderOfSum
  <2>3. u * a + (p + 1) = u * a + p + 1
    OBVIOUS
  <2> QED
    BY <1>2, <2>2, <2>3
<1> QED
  BY <1>1, <1>2

LEMMA QuotientBounds ==
    ASSUME NEW x \in Int, NEW d \in Nat \ {0}
    PROVE  /\ x \div d \in Int
           /\ d * (x \div d) <= x
           /\ x < d * (x \div d) + d
BY SMTT(30)

LEMMA QuotientUnique ==
    ASSUME NEW x \in Int, NEW d \in Nat \ {0}, NEW q \in Int,
           d * q <= x, x < d * q + d
    PROVE  x \div d = q
BY SMTT(30)

LEMMA QuotientMonotone ==
    ASSUME NEW x \in Int, NEW y \in Int, NEW d \in Nat \ {0}, x <= y
    PROVE  x \div d <= y \div d
BY SMTT(30)

LEMMA QuotientCancels ==
    ASSUME NEW x \in Int, NEW d \in Nat \ {0}, NEW s \in Nat \ {0}
    PROVE  (x * s) \div (d * s) = x \div d
<1> DEFINE q == x \div d
<1>1. q \in Int /\ d * q <= x /\ x < d * q + d
  BY QuotientBounds
<1>2. d * s \in Nat \ {0} /\ x * s \in Int
  BY SMTT(20)
<1>3. (d * s) * q <= x * s
  <2>1. (d * q) * s <= x * s
    BY <1>1, SMTT(20)
  <2>2. (d * q) * s = (d * s) * q
    BY <1>1, SMTT(20)
  <2> QED
    BY <2>1, <2>2
<1>4. x * s < (d * s) * q + d * s
  <2>1. x * s < (d * q + d) * s
    BY <1>1, SMTT(20)
  <2>2. (d * q + d) * s = (d * q) * s + d * s
    <3>1. \A a, b, c \in Int : (a + b) * c = a * c + b * c
      BY SMTT(20)
    <3>2. d * q \in Int
      BY <1>1, SMTT(20)
    <3> QED
      BY <3>1, <3>2
  <2>3. (d * q) * s = (d * s) * q
    BY <1>1, SMTT(20)
  <2> QED
    BY <2>1, <2>2, <2>3
<1> HIDE DEF q
<1>5. (x * s) \div (d * s) = q
  BY <1>1, <1>2, <1>3, <1>4, QuotientUnique
<1> QED
  BY <1>5 DEF q

\* The bar of iteration `done` of `steps` in slot `i` of `n`.
Bar(i, n, steps, done) == (((i - 1) * steps + done) * 1000) \div (n * steps)

LEMMA BarStarts ==
    ASSUME NEW i \in Nat \ {0}, NEW n \in Nat \ {0}, NEW s \in Nat \ {0}
    PROVE  /\ Bar(i, n, s, 0) = ((i - 1) * 1000) \div n
           /\ Bar(i, n, s, s) = (i * 1000) \div n
<1>1. ((i - 1) * s + 0) * 1000 = ((i - 1) * 1000) * s
  BY SMTT(20)
<1>2. ((i - 1) * s + s) * 1000 = (i * 1000) * s
  BY SMTT(20)
<1> QED
  BY <1>1, <1>2, QuotientCancels DEF Bar

LEMMA BarGrows ==
    ASSUME NEW i \in Nat \ {0}, NEW n \in Nat \ {0}, NEW s \in Nat \ {0},
           NEW a \in Nat, NEW b \in Nat, a <= b
    PROVE  Bar(i, n, s, a) <= Bar(i, n, s, b) /\ Bar(i, n, s, a) \in Int
<1> DEFINE x == ((i - 1) * s + a) * 1000
           y == ((i - 1) * s + b) * 1000
<1>1. x \in Int /\ y \in Int /\ x <= y /\ n * s \in Nat \ {0}
  BY SMTT(20)
<1> HIDE DEF x, y
<1>2. x \div (n * s) <= y \div (n * s) /\ x \div (n * s) \in Int
  BY <1>1, QuotientMonotone, QuotientBounds
<1> QED
  BY <1>2 DEF Bar, x, y

LEMMA BarOfSlots ==
    ASSUME NEW n \in Nat \ {0}, NEW i \in Nat, i <= n
    PROVE  (i * 1000) \div n \in Nat /\ (i * 1000) \div n <= 1000
<1>1. 0 <= i * 1000 /\ i * 1000 <= 1000 * n /\ i * 1000 \in Int
  OBVIOUS
<1>2. 0 \div n = 0 /\ (1000 * n) \div n = 1000
  <2>1. n * 0 <= 0 /\ 0 < n * 0 + n
    OBVIOUS
  <2>2. n * 1000 <= 1000 * n /\ 1000 * n < n * 1000 + n
    OBVIOUS
  <2> QED
    BY <2>1, <2>2, QuotientUnique
<1>3. 0 \div n <= (i * 1000) \div n /\ (i * 1000) \div n <= (1000 * n) \div n
  BY <1>1, QuotientMonotone
<1> QED
  BY <1>1, <1>2, <1>3, QuotientBounds

-----------------------------------------------------------------------------
(* The inductive invariant.                                                *)

Configured ==
    /\ slot \in 1 .. Len(cast)
    /\ \A k \in TrainKnobs : TrainKnob(ask[k], k) # Raised

CountsAddUp ==
    /\ step <= Steps
    /\ pending < Accumulation
    /\ updates * Accumulation + pending = step
    /\ checkpoints \subseteq 1 .. (Steps - 1)
    /\ bar <= Bar(slot, Len(cast), Steps, step)

SlotOpen == trainAt \in {"slot", "loop", "upload"} => Configured

Shape ==
    /\ cast \in Casts /\ ask \in Asked
    /\ trainAt \in {"config", "slot", "loop", "upload", "done", "failed"}
    /\ slot \in 1 .. Larger(1, Len(cast))
    /\ step \in Nat /\ pending \in Nat /\ updates \in Nat
    /\ whole = TRUE
    /\ uploaded \in Seq(Nat \ {0})
    /\ Len(uploaded) <= Len(cast)
    /\ bar \in Nat /\ bar <= 1000

Inv ==
    /\ Shape
    /\ SlotOpen
    /\ trainAt = "config" => slot = 1 /\ bar = 0
    /\ trainAt \in {"config", "slot", "loop", "upload"} => Len(uploaded) = slot - 1
    /\ trainAt = "slot" => bar <= ((slot - 1) * 1000) \div Len(cast)
    /\ trainAt \in {"loop", "upload"} => CountsAddUp
    /\ trainAt = "upload" => step = Steps

LEMMA KnobBounds ==
    ASSUME NEW v \in Value
    PROVE  /\ TrainKnob(v, "accumulation") # Raised
                => /\ TrainKnob(v, "accumulation") \in Nat \ {0}
                   /\ TrainKnob(v, "accumulation") <= 32
           /\ TrainKnob(v, "save_every") # Raised
                => TrainKnob(v, "save_every") \in Nat
           /\ TrainKnob(v, "max_steps") # Raised
                => TrainKnob(v, "max_steps") \in Nat \ {0}
<1>1. /\ TrainLimit["accumulation"] = <<1, 32>> /\ TrainDefault["accumulation"] = 1
      /\ TrainLimit["save_every"] = <<0, 5000>> /\ TrainDefault["save_every"] = 0
      /\ TrainLimit["max_steps"] = <<1, 5000>> /\ TrainDefault["max_steps"] = 1000
  BY DEF TrainLimit, TrainDefault
<1>2. CASE v \notin Int
  BY <1>1, <1>2 DEF TrainKnob, Value
<1>3. CASE v \in Int
  <2>1. v # NoNumber /\ v \notin NonFinite
    BY <1>3, KnobAssumption
  <2> QED
    BY <1>1, <1>3, <2>1 DEF TrainKnob, Clamp, Smaller, Larger
<1> QED
  BY <1>2, <1>3

LEMMA StepsFloor ==
    ASSUME NEW maxSteps \in Nat \ {0}, NEW refs \in Nat \ {0}
    PROVE  EffectiveSteps(maxSteps, refs) \in Nat /\ EffectiveSteps(maxSteps, refs) >= 50
<1>1. maxSteps * refs \in Int
  OBVIOUS
<1>2. (maxSteps * refs) \div 5 \in Int
  BY <1>1, QuotientBounds
<1> QED
  BY <1>2 DEF EffectiveSteps, Larger

\* What a configured slot knows of its numbers.
LEMMA SlotNumbers ==
    ASSUME Shape, Configured
    PROVE  /\ Accumulation \in Nat \ {0} /\ Accumulation <= 32
           /\ SaveEvery \in Nat
           /\ Steps \in Nat /\ Steps >= 50
           /\ Len(cast) \in Nat \ {0}
           /\ cast[slot] \in Nat \ {0}
<1>1. {"max_steps", "accumulation", "save_every"} \subseteq TrainKnobs
  BY DEF TrainKnobs, TrainLimit
<1>2. ask.max_steps \in Value /\ ask.accumulation \in Value /\ ask.save_every \in Value
  <2>1. ask \in [TrainKnobs -> Value]
    BY AskedAssumption DEF Shape
  <2> QED
    BY <1>1, <2>1
<1>3. /\ TrainKnob(ask.accumulation, "accumulation") # Raised
      /\ TrainKnob(ask.save_every, "save_every") # Raised
      /\ TrainKnob(ask.max_steps, "max_steps") # Raised
  BY <1>1 DEF Configured
<1>4. Accumulation \in Nat \ {0} /\ Accumulation <= 32
  BY <1>2, <1>3, KnobBounds DEF Accumulation
<1>5. SaveEvery \in Nat
  BY <1>2, <1>3, KnobBounds DEF SaveEvery
<1>6. MaxSteps \in Nat \ {0}
  BY <1>2, <1>3, KnobBounds DEF MaxSteps
<1>7. cast \in Seq(Nat \ {0}) /\ Len(cast) \in Nat \ {0} /\ cast[slot] \in Nat \ {0}
  BY CastAssumption DEF Shape, Configured
<1>8. Steps \in Nat /\ Steps >= 50
  BY <1>6, <1>7, StepsFloor DEF Steps
<1> QED
  BY <1>4, <1>5, <1>7, <1>8

LEMMA InvInit == TrainingInit => Inv
<1> SUFFICES ASSUME TrainingInit
             PROVE  Inv
  OBVIOUS
<1>1. cast \in Seq(Nat \ {0}) /\ Len(cast) \in Nat
  BY CastAssumption DEF TrainingInit
<1>2. <<>> \in Seq(Nat \ {0}) /\ Len(<<>>) = 0
  OBVIOUS
<1>3. Shape
  BY <1>1, <1>2 DEF TrainingInit, Shape, Larger
<1> QED
  BY <1>2, <1>3 DEF TrainingInit, Inv, SlotOpen

LEMMA ConfigureStep == Inv /\ Configure => Inv'
<1> SUFFICES ASSUME Inv, Configure
             PROVE  Inv'
  OBVIOUS
<1>1. /\ UNCHANGED <<cast, ask, slot, step, pending, whole, updates,
                     checkpoints, uploaded, bar>>
      /\ trainAt = "config" /\ slot = 1 /\ bar = 0
      /\ trainAt' \in {"slot", "failed"}
      /\ trainAt' = "slot" => /\ cast # <<>>
                         /\ \A k \in TrainKnobs : TrainKnob(ask[k], k) # Raised
  BY DEF Configure, Inv
<1>2. cast \in Seq(Nat \ {0})
  BY CastAssumption DEF Inv, Shape
<1>3. Shape'
  BY <1>1 DEF Inv, Shape
<1>4. SlotOpen'
  BY <1>1, <1>2 DEF SlotOpen, Configured
<1>5. trainAt' = "slot" => ((slot - 1) * 1000) \div Len(cast) = 0
  <2>1. CASE cast # <<>>
    <3>1. Len(cast) \in Nat \ {0}
      BY <1>2, <2>1
    <3>2. 0 \div Len(cast) = 0
      BY <3>1, QuotientUnique
    <3> QED
      BY <1>1, <3>2
  <2> QED
    BY <1>1, <2>1
<1> QED
  BY <1>1, <1>3, <1>4, <1>5 DEF Inv

LEMMA StartSlotStep == Inv /\ StartSlot => Inv'
<1> SUFFICES ASSUME Inv, StartSlot
             PROVE  Inv'
  OBVIOUS
<1>1. /\ UNCHANGED <<cast, ask, slot, whole, uploaded, bar>>
      /\ trainAt = "slot" /\ trainAt' = "loop"
      /\ step' = 0 /\ pending' = 0 /\ updates' = 0 /\ checkpoints' = {}
  BY DEF StartSlot
<1>2. Shape /\ Configured /\ Len(uploaded) = slot - 1
  BY <1>1 DEF Inv, SlotOpen
<1>3. /\ Accumulation \in Nat \ {0} /\ Steps \in Nat /\ Steps >= 50
      /\ Len(cast) \in Nat \ {0} /\ slot \in Nat \ {0}
  BY <1>2, SlotNumbers DEF Configured
<1>4. Shape' /\ Configured'
  BY <1>1, <1>2 DEF Shape, Configured
<1>5. /\ Accumulation' = Accumulation /\ Steps' = Steps
  BY <1>1 DEF Accumulation, Steps, MaxSteps
<1>6. bar <= Bar(slot, Len(cast), Steps, 0)
  <2>1. bar <= ((slot - 1) * 1000) \div Len(cast)
    BY <1>1 DEF Inv
  <2>2. Steps \in Nat \ {0}
    BY <1>3
  <2>3. Bar(slot, Len(cast), Steps, 0) = ((slot - 1) * 1000) \div Len(cast)
    BY <1>3, <2>2, BarStarts
  <2> QED
    BY <2>1, <2>3
<1>7. Bar(slot, Len(cast), Steps, step)' = Bar(slot, Len(cast), Steps, 0)
  BY <1>1, <1>5 DEF Bar
<1>8. CountsAddUp'
  BY <1>1, <1>3, <1>5, <1>6, <1>7 DEF CountsAddUp
<1> QED
  BY <1>1, <1>2, <1>4, <1>8 DEF Inv, SlotOpen

\* What one iteration reports lies between the bar so far and the bar of the
\* next iteration.
LEMMA ReportBetween ==
    ASSUME Inv, Iterate
    PROVE  /\ bar' \in Nat /\ bar' <= 1000
           /\ bar <= bar'
           /\ bar' <= Bar(slot, Len(cast), Steps, step + 1)
<1>1. /\ trainAt = "loop" /\ step < Steps /\ step \in Nat
      /\ Shape /\ Configured /\ CountsAddUp
  BY DEF Inv, SlotOpen, Iterate, Shape
<1>2. /\ Steps \in Nat \ {0} /\ Len(cast) \in Nat \ {0} /\ slot \in Nat \ {0}
      /\ slot <= Len(cast)
  BY <1>1, SlotNumbers DEF Configured
<1> DEFINE now == Bar(slot, Len(cast), Steps, step)
           next == Bar(slot, Len(cast), Steps, step + 1)
           full == Bar(slot, Len(cast), Steps, Steps)
<1>3. now <= next /\ now \in Int
  <2>1. step \in Nat /\ step + 1 \in Nat /\ step <= step + 1
    BY <1>1
  <2> QED
    BY <1>2, <2>1, BarGrows
<1>4. next <= full /\ next \in Int
  <2>1. step + 1 \in Nat /\ Steps \in Nat /\ step + 1 <= Steps
    BY <1>1, <1>2
  <2> QED
    BY <1>2, <2>1, BarGrows
<1>5. full \in Nat /\ full <= 1000
  <2>1. full = (slot * 1000) \div Len(cast)
    BY <1>2, BarStarts
  <2>2. (slot * 1000) \div Len(cast) \in Nat /\ (slot * 1000) \div Len(cast) <= 1000
    BY <1>2, BarOfSlots
  <2> QED
    BY <2>1, <2>2
<1>6. bar <= now /\ bar \in Nat /\ bar <= 1000
  BY <1>1 DEF CountsAddUp, Shape
<1>7. bar' = next \/ bar' = bar
  <2>1. Overall(step + 1) = next
    BY DEF Overall, Bar
  <2> QED
    BY <2>1 DEF Iterate, Report
<1> HIDE DEF now, next, full
<1>8. /\ bar' \in Nat /\ bar' <= 1000
      /\ bar <= bar' /\ bar' <= next
  BY <1>3, <1>4, <1>5, <1>6, <1>7
<1> QED
  BY <1>8 DEF next

LEMMA IterateStep == Inv /\ Iterate => Inv'
<1> SUFFICES ASSUME Inv, Iterate
             PROVE  Inv'
  OBVIOUS
<1>1. /\ UNCHANGED <<cast, ask, trainAt, slot, uploaded>>
      /\ trainAt = "loop" /\ step < Steps /\ step' = step + 1
  BY DEF Iterate
<1>2. Shape /\ Configured /\ CountsAddUp /\ Len(uploaded) = slot - 1
  BY <1>1 DEF Inv, SlotOpen
<1>3. /\ Accumulation \in Nat \ {0} /\ Steps \in Nat
      /\ step \in Nat /\ pending \in Nat /\ updates \in Nat /\ whole = TRUE
      /\ pending < Accumulation /\ updates * Accumulation + pending = step
  <2>1. Accumulation \in Nat \ {0} /\ Steps \in Nat
    BY <1>2, SlotNumbers
  <2>2. step \in Nat /\ pending \in Nat /\ updates \in Nat /\ whole = TRUE
    BY <1>2 DEF Shape
  <2>3. pending < Accumulation /\ updates * Accumulation + pending = step
    BY <1>2 DEF CountsAddUp
  <2> QED
    BY <2>1, <2>2, <2>3
<1>4. Accumulation' = Accumulation /\ Steps' = Steps
  BY <1>1 DEF Accumulation, Steps, MaxSteps
<1>5. (step + 1) % Accumulation = 0 <=> pending + 1 = Accumulation
  <2>1. pending \in 0 .. (Accumulation - 1)
    BY <1>3
  <2>2. (updates * Accumulation + pending + 1) % Accumulation = 0
          <=> pending + 1 = Accumulation
    BY <1>3, <2>1, UpdateDue
  <2> QED
    BY <1>3, <2>2
<1>6. /\ updates' \in Nat /\ pending' \in Nat /\ whole' = TRUE
      /\ pending' < Accumulation
      /\ updates' * Accumulation + pending' = step + 1
  <2>1. Update
    BY DEF Iterate
  <2>2. CASE (step + 1) % Accumulation = 0
    <3>1. updates' = updates + 1 /\ pending' = 0 /\ whole' = TRUE
      BY <1>3, <1>5, <2>1, <2>2 DEF Update
    <3>2. (updates + 1) * Accumulation + 0 = updates * Accumulation + Accumulation
      BY <1>3, SMTT(20)
    <3> QED
      BY <1>3, <1>5, <2>2, <3>1, <3>2
  <2>3. CASE (step + 1) % Accumulation # 0
    BY <1>3, <1>5, <2>1, <2>3 DEF Update
  <2> QED
    BY <2>2, <2>3
<1>7. checkpoints' \subseteq 1 .. (Steps - 1)
  BY <1>1, <1>2, <1>3 DEF CountsAddUp, Iterate, Checkpoint
<1>8. /\ bar' \in Nat /\ bar' <= 1000
      /\ bar' <= Bar(slot, Len(cast), Steps, step + 1)
  BY ReportBetween
<1>9. Bar(slot, Len(cast), Steps, step)' = Bar(slot, Len(cast), Steps, step + 1)
  BY <1>1, <1>4 DEF Bar
<1>10. CountsAddUp'
  <2>1. step' <= Steps'
    BY <1>1, <1>3, <1>4
  <2>2. pending' < Accumulation'
    BY <1>4, <1>6
  <2>3. updates' * Accumulation' + pending' = step'
    BY <1>1, <1>4, <1>6
  <2>4. checkpoints' \subseteq 1 .. (Steps' - 1)
    BY <1>4, <1>7
  <2>5. bar' <= Bar(slot, Len(cast), Steps, step)'
    BY <1>8, <1>9
  <2> QED
    BY <2>1, <2>2, <2>3, <2>4, <2>5 DEF CountsAddUp
<1>11. Shape' /\ Configured'
  BY <1>1, <1>2, <1>3, <1>6, <1>8 DEF Shape, Configured
<1> QED
  BY <1>1, <1>2, <1>10, <1>11 DEF Inv, SlotOpen

LEMMA SaveStep == Inv /\ Save => Inv'
<1> SUFFICES ASSUME Inv, Save
             PROVE  Inv'
  OBVIOUS
<1>1. /\ UNCHANGED <<cast, ask, slot, step, pending, whole, updates,
                     checkpoints, uploaded, bar>>
      /\ trainAt = "loop" /\ trainAt' = "upload" /\ step = Steps
  BY DEF Save
<1>2. /\ Accumulation' = Accumulation /\ SaveEvery' = SaveEvery /\ Steps' = Steps
      /\ Bar(slot, Len(cast), Steps, step)' = Bar(slot, Len(cast), Steps, step)
  BY <1>1 DEF Accumulation, SaveEvery, Steps, MaxSteps, Bar
<1>3. Shape' /\ SlotOpen' /\ CountsAddUp'
  BY <1>1, <1>2 DEF Inv, Shape, SlotOpen, Configured, CountsAddUp
<1> QED
  BY <1>1, <1>2, <1>3 DEF Inv

\* At the end of the loop the accumulation has been reached at least once.
LEMMA Trained ==
    ASSUME Inv, trainAt = "upload"
    PROVE  updates \in Nat \ {0}
<1>1. Shape /\ Configured /\ CountsAddUp /\ step = Steps
  BY DEF Inv, SlotOpen
<1>2. /\ Accumulation \in Nat /\ Accumulation <= 32 /\ Steps \in Nat /\ Steps >= 50
      /\ updates \in Nat /\ pending \in Nat
  BY <1>1, SlotNumbers DEF Shape
<1>3. updates * Accumulation + pending = Steps /\ pending < Accumulation
  BY <1>1 DEF CountsAddUp
<1>4. updates # 0
  <2> SUFFICES ASSUME updates = 0
               PROVE  FALSE
    OBVIOUS
  <2>1. updates * Accumulation = 0
    BY <1>2
  <2> QED
    BY <1>2, <1>3, <2>1
<1> QED
  BY <1>2, <1>4

LEMMA UploadStep == Inv /\ Upload => Inv'
<1> SUFFICES ASSUME Inv, Upload
             PROVE  Inv'
  OBVIOUS
<1>1. /\ UNCHANGED <<cast, ask, step, pending, whole, updates, checkpoints>>
      /\ trainAt = "upload"
      /\ uploaded' = Append(uploaded, updates)
      /\ bar' = (slot * 1000) \div Len(cast)
      /\ \/ slot < Len(cast) /\ slot' = slot + 1 /\ trainAt' = "slot"
         \/ trainAt' = "done" /\ slot' = slot
  BY DEF Upload
<1>2. Shape /\ Configured /\ Len(uploaded) = slot - 1
  BY <1>1 DEF Inv, SlotOpen
<1>3. Len(cast) \in Nat \ {0} /\ slot \in Nat \ {0} /\ slot <= Len(cast)
  BY <1>2, SlotNumbers DEF Configured
<1>4. /\ uploaded' \in Seq(Nat \ {0})
      /\ Len(uploaded') = slot
  BY <1>1, <1>2, <1>3, Trained DEF Shape
<1>5. bar' \in Nat /\ bar' <= 1000
  <2>1. (slot * 1000) \div Len(cast) \in Nat /\ (slot * 1000) \div Len(cast) <= 1000
    BY <1>3, BarOfSlots
  <2> QED
    BY <1>1, <2>1
<1>6. Shape'
  BY <1>1, <1>2, <1>3, <1>4, <1>5 DEF Shape, Larger
<1>7. SlotOpen'
  BY <1>1, <1>2, <1>3 DEF SlotOpen, Configured
<1>8. trainAt' = "slot" => bar' <= ((slot' - 1) * 1000) \div Len(cast')
  <2>1. trainAt' = "slot" => slot' = slot + 1 /\ slot' - 1 = slot
    BY <1>1, <1>3
  <2> QED
    BY <1>1, <1>5, <2>1
<1> QED
  BY <1>1, <1>3, <1>4, <1>6, <1>7, <1>8 DEF Inv

LEMMA FailStep == Inv /\ TrainingFails => Inv'
BY DEF TrainingFails, Inv, Shape, SlotOpen

LEMMA StutterStep == Inv /\ UNCHANGED trainVars => Inv'
<1> SUFFICES ASSUME Inv, UNCHANGED trainVars
             PROVE  Inv'
  OBVIOUS
<1>1. UNCHANGED <<cast, ask, trainAt, slot, step, pending, whole, updates,
                  checkpoints, uploaded, bar>>
  BY DEF trainVars
<1>2. /\ Accumulation' = Accumulation /\ Steps' = Steps
      /\ Bar(slot, Len(cast), Steps, step)' = Bar(slot, Len(cast), Steps, step)
  BY <1>1 DEF Accumulation, Steps, MaxSteps, Bar
<1> QED
  BY <1>1, <1>2 DEF Inv, Shape, SlotOpen, Configured, CountsAddUp

\* The inductive invariant holds in every reachable state.
THEOREM Invariance == TrainingSpec => []Inv
<1>1. Inv /\ [TrainingNext]_trainVars => Inv'
  BY ConfigureStep, StartSlotStep, IterateStep, SaveStep, UploadStep, FailStep,
     StutterStep
     DEF TrainingNext
<1> QED
  BY InvInit, <1>1, PTL DEF TrainingSpec

-----------------------------------------------------------------------------

\* Every variable keeps its type, for any bundle and any numbers asked.
THEOREM TypeCorrect == TrainingSpec => []TrainingTypeOK
<1>1. Inv => TrainingTypeOK
  <2> SUFFICES ASSUME Inv
               PROVE  TrainingTypeOK
    OBVIOUS
  <2>1. /\ Shape
        /\ trainAt \in {"loop", "upload"} =>
             step <= Steps /\ checkpoints \subseteq 1 .. (Steps - 1)
    BY DEF Inv, CountsAddUp
  <2>2. uploaded \in Seq(Nat)
    BY <2>1 DEF Shape
  <2>3. bar \in 0 .. 1000
    BY <2>1 DEF Shape
  <2> QED
    BY <2>1, <2>2, <2>3 DEF Shape, TrainingTypeOK
<1> QED
  BY <1>1, Invariance, PTL

\* No adapter is ever uploaded that the optimizer did not step: whatever
\* max_steps and gradient_accumulation_steps the caller asks for and however
\* many references a slot has.
THEOREM AdapterAlwaysTrained == TrainingSpec => []AdapterWasTrained
<1>1. Inv => AdapterWasTrained
  <2> SUFFICES ASSUME Inv
               PROVE  AdapterWasTrained
    OBVIOUS
  <2>1. trainAt = "upload" => updates > 0
    BY Trained
  <2>2. \A i \in 1 .. Len(uploaded) : uploaded[i] > 0
    <3>1. uploaded \in Seq(Nat \ {0})
      BY DEF Inv, Shape
    <3> QED
      BY <3>1
  <2> QED
    BY <2>1, <2>2 DEF AdapterWasTrained
<1> QED
  BY <1>1, Invariance, PTL

\* Every optimizer step is made of exactly one accumulation of iterations of
\* its own slot, for every accumulation and step count.
THEOREM UpdatesAlwaysWhole == TrainingSpec => []UpdatesAreWhole
<1>1. Inv => UpdatesAreWhole
  BY DEF Inv, Shape, CountsAddUp, UpdatesAreWhole
<1> QED
  BY <1>1, Invariance, PTL

\* The bar never goes back, over any number of slots, and ends full.
THEOREM BarAlwaysForward == TrainingSpec => BarGoesForward
<1>1. Inv /\ [TrainingNext]_trainVars
        => [bar' >= bar /\ (trainAt' = "done" => bar' = 1000)]_trainVars
  <2> SUFFICES ASSUME Inv, TrainingNext
               PROVE  bar' >= bar /\ (trainAt' = "done" => bar' = 1000)
    OBVIOUS
  <2>1. bar \in Nat /\ trainAt # "done"
    <3>1. bar \in Nat
      BY DEF Inv, Shape
    <3>2. trainAt \in {"config", "slot", "loop", "upload"}
      BY DEF TrainingNext, Configure, StartSlot, Iterate, Save, Upload, TrainingFails
    <3> QED
      BY <3>1, <3>2
  <2>2. CASE Iterate
    BY <2>1, <2>2, ReportBetween DEF Iterate
  <2>3. CASE Upload
    <3>1. /\ trainAt = "upload" /\ bar' = (slot * 1000) \div Len(cast)
          /\ trainAt' = "done" => ~(slot < Len(cast))
      BY <2>3 DEF Upload
    <3>2. Shape /\ Configured /\ CountsAddUp /\ step = Steps
      BY <3>1 DEF Inv, SlotOpen
    <3>3. /\ Steps \in Nat \ {0} /\ Len(cast) \in Nat \ {0}
          /\ slot \in Nat \ {0} /\ slot <= Len(cast)
      BY <3>2, SlotNumbers DEF Configured
    <3>4. Bar(slot, Len(cast), Steps, Steps) = (slot * 1000) \div Len(cast)
      BY <3>3, BarStarts
    <3>5. bar <= bar' /\ bar' \in Int
      <4>1. bar' \in Int
        BY <3>1, <3>3, QuotientBounds
      <4> QED
        BY <3>1, <3>2, <3>4, <4>1 DEF CountsAddUp
    <3>6. trainAt' = "done" => bar' = 1000
      <4> SUFFICES ASSUME trainAt' = "done"
                   PROVE  bar' = 1000
        OBVIOUS
      <4>1. slot = Len(cast)
        BY <3>1, <3>3
      <4>2. (slot * 1000) \div Len(cast) = 1000
        <5>1. /\ Len(cast) * 1000 <= slot * 1000
              /\ slot * 1000 < Len(cast) * 1000 + Len(cast)
          BY <3>3, <4>1
        <5> QED
          BY <3>3, <5>1, QuotientUnique
      <4> QED
        BY <3>1, <4>2
    <3> QED
      BY <2>1, <3>5, <3>6
  <2>4. CASE Configure \/ StartSlot \/ Save \/ TrainingFails
    BY <2>1, <2>4 DEF Configure, StartSlot, Save, TrainingFails
  <2> QED
    BY <2>2, <2>3, <2>4 DEF TrainingNext
<1> QED
  BY <1>1, Invariance, PTL DEF TrainingSpec, BarGoesForward

-----------------------------------------------------------------------------
(* What a job delivers, exactly.                                           *)

\* Every uploaded adapter had as many optimizer steps as its own slot's
\* iterations make whole accumulations, and a job that ends well uploaded one
\* for each slot of the bundle.
AdaptersExact ==
    /\ \A i \in 1 .. Len(uploaded) :
          uploaded[i] = EffectiveSteps(MaxSteps, cast[i]) \div Accumulation
    /\ trainAt = "done" => Len(uploaded) = Len(cast)

\* The intermediate checkpoints of a slot: each multiple of save_every that
\* was reached, none at the end, where the final adapter is saved.
CheckpointsExact ==
    trainAt \in {"loop", "upload"} =>
        checkpoints = {k \in 1 .. step : /\ SaveEvery # 0 /\ k % SaveEvery = 0
                                         /\ k < Steps}

LEMMA UploadedExactly ==
    ASSUME Inv, trainAt = "upload"
    PROVE  updates = Steps \div Accumulation
<1>1. Shape /\ Configured /\ CountsAddUp /\ step = Steps
  BY DEF Inv, SlotOpen
<1>2. PICK a \in Nat \ {0} : a = Accumulation
  BY <1>1, SlotNumbers
<1>3. PICK n \in Nat : n = Steps
  BY <1>1, SlotNumbers
<1>4. updates \in Nat /\ pending \in Nat /\ updates * a + pending = n /\ pending < a
  BY <1>1, <1>2, <1>3 DEF CountsAddUp, Shape
<1>5. a * updates <= n /\ n < a * updates + a
  <2>1. a * updates = updates * a
    BY <1>4
  <2>2. updates * a \in Nat
    BY <1>4
  <2> QED
    BY <1>4, <2>1, <2>2
<1> QED
  BY <1>2, <1>3, <1>4, <1>5, QuotientUnique

LEMMA AdaptersStep ==
    ASSUME Inv, AdaptersExact, [TrainingNext]_trainVars
    PROVE  AdaptersExact'
<1>1. CASE Upload
  <2>1. /\ UNCHANGED <<cast, ask>> /\ trainAt = "upload"
        /\ uploaded' = Append(uploaded, updates)
        /\ trainAt' = "done" => ~(slot < Len(cast))
    BY <1>1 DEF Upload
  <2>2. Shape /\ Configured /\ Len(uploaded) = slot - 1
    BY <2>1 DEF Inv, SlotOpen
  <2>3. Len(cast) \in Nat /\ slot \in 1 .. Len(cast)
    BY <2>2, SlotNumbers DEF Configured
  <2>4. uploaded \in Seq(Nat)
    BY <2>2 DEF Shape
  <2>5. updates = EffectiveSteps(MaxSteps, cast[slot]) \div Accumulation
    BY <2>1, UploadedExactly DEF Steps
  <2>6. MaxSteps' = MaxSteps /\ Accumulation' = Accumulation
    BY <2>1 DEF MaxSteps, Accumulation
  <2>7. /\ Len(uploaded') = slot
        /\ uploaded'[slot] = updates
        /\ \A i \in 1 .. (slot - 1) : uploaded'[i] = uploaded[i]
    <3>1. slot \in Nat /\ updates \in Nat
      BY <2>2, <2>3 DEF Shape
    <3> QED
      BY <2>1, <2>2, <2>4, <3>1
  <2>8. \A i \in 1 .. Len(uploaded') :
          uploaded'[i] = EffectiveSteps(MaxSteps, cast[i]) \div Accumulation
    <3>1. \A i \in 1 .. slot : i = slot \/ i \in 1 .. (slot - 1)
      BY <2>3
    <3> QED
      BY <3>1, <2>2, <2>5, <2>7 DEF AdaptersExact
  <2>9. trainAt' = "done" => Len(uploaded') = Len(cast')
    BY <2>1, <2>3, <2>7
  <2> QED
    BY <2>1, <2>6, <2>8, <2>9 DEF AdaptersExact
<1>2. CASE UNCHANGED <<cast, ask, uploaded>> /\ (trainAt' = "done" => trainAt = "done")
  <2>1. MaxSteps' = MaxSteps /\ Accumulation' = Accumulation
    BY <1>2 DEF MaxSteps, Accumulation
  <2> QED
    BY <1>2, <2>1 DEF AdaptersExact
<1>3. Configure \/ StartSlot \/ Iterate \/ Save \/ TrainingFails \/ UNCHANGED trainVars =>
        UNCHANGED <<cast, ask, uploaded>> /\ (trainAt' = "done" => trainAt = "done")
  BY DEF Configure, StartSlot, Iterate, Save, TrainingFails, trainVars
<1> QED
  BY <1>1, <1>2, <1>3 DEF TrainingNext

LEMMA CheckpointsStep ==
    ASSUME Inv, CheckpointsExact, [TrainingNext]_trainVars
    PROVE  CheckpointsExact'
<1>1. CASE StartSlot
  BY <1>1 DEF StartSlot, CheckpointsExact
<1>2. CASE Iterate
  <2>1. /\ trainAt = "loop" /\ UNCHANGED <<cast, ask, trainAt, slot>>
        /\ step' = step + 1 /\ Checkpoint
    BY <1>2 DEF Iterate
  <2>2. SaveEvery' = SaveEvery /\ Steps' = Steps
    BY <2>1 DEF SaveEvery, Steps, MaxSteps
  <2>3. step \in Nat
    BY DEF Inv, Shape
  <2>4. 1 .. (step + 1) = (1 .. step) \cup {step + 1}
    BY <2>3
  <2>5. checkpoints = {k \in 1 .. step : /\ SaveEvery # 0 /\ k % SaveEvery = 0
                                         /\ k < Steps}
    BY <2>1 DEF CheckpointsExact
  <2>6. checkpoints' = {k \in 1 .. (step + 1) : /\ SaveEvery # 0
                                                /\ k % SaveEvery = 0 /\ k < Steps}
    BY <2>1, <2>4, <2>5 DEF Checkpoint
  <2> QED
    BY <2>1, <2>2, <2>6 DEF CheckpointsExact
<1>3. CASE Save \/ UNCHANGED trainVars
  <2>1. /\ UNCHANGED <<cast, ask, slot, step, checkpoints>>
        /\ trainAt' \in {"loop", "upload"} => trainAt \in {"loop", "upload"}
    BY <1>3 DEF Save, trainVars
  <2>2. SaveEvery' = SaveEvery /\ Steps' = Steps
    BY <2>1 DEF SaveEvery, Steps, MaxSteps
  <2> QED
    BY <2>1, <2>2 DEF CheckpointsExact
<1>4. CASE Configure \/ Upload \/ TrainingFails
  BY <1>4 DEF Configure, Upload, TrainingFails, CheckpointsExact
<1> QED
  BY <1>1, <1>2, <1>3, <1>4 DEF TrainingNext

\* train_slot and run_train_lora deliver an adapter for every slot, each with
\* effective_steps \div gradient_accumulation_steps updates: the losses of a
\* last, incomplete accumulation are dropped, and nothing else is.
THEOREM AdaptersAlwaysExact == TrainingSpec => []AdaptersExact
<1>1. TrainingInit => AdaptersExact
  BY DEF TrainingInit, AdaptersExact
<1> QED
  BY <1>1, AdaptersStep, Invariance, PTL DEF TrainingSpec

\* lora_train.py's loop saves at every multiple of save_every and leaves the
\* end to the final save, whatever save_every the caller asks for, zero included.
THEOREM CheckpointsAlwaysExact == TrainingSpec => []CheckpointsExact
<1>1. TrainingInit => CheckpointsExact
  BY DEF TrainingInit, CheckpointsExact
<1> QED
  BY <1>1, CheckpointsStep, Invariance, PTL DEF TrainingSpec
=============================================================================
