------------------------- MODULE WorkerLimitsProofs -------------------------
(***************************************************************************)
(* What WorkerLimits states, for every number a caller may send, every cap *)
(* and every card.  The grids and the clamps are arithmetic: their         *)
(* theorems need no more of a state than the type of `asked`.  The cap is  *)
(* about a process: the invariant is that a serving worker holds the       *)
(* fraction of the operator's cap, and one that is not holds none.         *)
(***************************************************************************)
EXTENDS WorkerLimits, TLAPS

LEMMA SnapUpExact ==
    ASSUME NEW n \in Int
    PROVE  /\ SnapUp(n) \in n .. n + 3
           /\ OnGrid(SnapUp(n))
BY DEF SnapUp, OnGrid, TemporalStride

LEMMA SnapFramesExact ==
    ASSUME NEW n \in Int, NEW cap \in Nat \ {0}
    PROVE  FramesExactFor(n, cap)
<1> DEFINE k == Larger(1, n)
<1>1. k \in Int /\ k >= 1 /\ k >= n /\ (n >= 1 => k = n)
  BY DEF Larger
<1>2. SnapUp(k) \in k .. k + 3 /\ OnGrid(SnapUp(k))
  BY <1>1, SnapUpExact
<1>3. CASE SnapUp(k) <= cap
  BY <1>1, <1>2, <1>3 DEF SnapFrames, FramesExactFor, TemporalStride
<1>4. CASE SnapUp(k) > cap
  <2> DEFINE low == cap - ((cap - 1) % 4)
  <2>1. low \in 1 .. cap /\ low + 4 > cap /\ OnGrid(low)
    BY DEF OnGrid, TemporalStride
  <2>2. SnapFrames(n, cap) = low
    BY <1>1, <1>2, <1>4, <2>1 DEF SnapFrames, Larger, TemporalStride
  <2>3. low < n \/ (low >= n /\ low - 4 < Larger(1, n))
    BY <1>1, <1>2, <1>4, <2>1
  <2> QED
    BY <2>1, <2>2, <2>3, <1>1 DEF FramesExactFor, TemporalStride
<1> QED
  BY <1>1, <1>2, <1>3, <1>4

LEMMA SnapDimExact ==
    ASSUME NEW px \in Int
    PROVE  /\ SnapDim(px) \in Nat /\ SnapDim(px) >= 16
           /\ SnapDim(px) % 16 = 0
           /\ px >= 16 => SnapDim(px) \in px - 15 .. px
           /\ px < 16 => SnapDim(px) = 16
BY DEF SnapDim, SpatialMultiple, Larger

LEMMA DimExact ==
    ASSUME NEW n \in Int, NEW axis \in Axes
    PROVE  DimExactFor(n, axis)
<1> DEFINE want == IF n = 0 THEN Ceiling[axis] ELSE Smaller(n, Ceiling[axis])
<1>1. Ceiling[axis] \in {720, 480}
  BY DEF Axes, Ceiling
<1>2. want \in Int /\ want <= Ceiling[axis]
  BY <1>1 DEF Smaller
<1>3. n # NoNumber /\ n \notin NonFinite /\ n # Raised /\ want # Raised
  BY <1>2, KnobAssumption
<1>4. Axis(n, axis) = want
  <2>1. CoerceInt(n, Ceiling[axis]) = n
    BY <1>3 DEF CoerceInt, NonFinite
  <2> QED
    BY <1>1, <1>3, <2>1 DEF Axis, Smaller
<1>5. EngineDim(n, axis) = SnapDim(want)
  BY <1>3, <1>4 DEF EngineDim
<1>6. SnapDim(want) <= Ceiling[axis]
  BY <1>1, <1>2, SnapDimExact
<1> QED
  BY <1>1, <1>2, <1>5, <1>6, SnapDimExact DEF DimExactFor, SpatialMultiple

LEMMA ClampExact ==
    ASSUME NEW n \in Int, NEW limit \in Int \X Int, limit[1] <= limit[2]
    PROVE  KeptOrClamped(Clamp(n, limit), n, limit)
BY DEF KeptOrClamped, Clamp, Smaller, Larger

LEMMA PreviewKnobExact ==
    ASSUME NEW v \in Value, NEW k \in PreviewKnobs, NEW tier \in Tiers
    PROVE  /\ PreviewKnob(v, k, tier) \in PreviewLimit[k][1] .. PreviewLimit[k][2]
           /\ v \in Int => KeptOrClamped(PreviewKnob(v, k, tier), v, PreviewLimit[k])
<1>1. /\ PreviewLimit[k] \in Int \X Int
      /\ PreviewLimit[k][1] <= PreviewLimit[k][2]
  BY DEF PreviewKnobs, PreviewLimit
<1>2. TierBase[tier][k] \in PreviewLimit[k][1] .. PreviewLimit[k][2]
  BY DEF PreviewKnobs, PreviewLimit, Tiers, TierBase
<1>3. CASE v = NoNumber
  BY <1>2, <1>3, KnobAssumption DEF PreviewKnob
<1>4. CASE v \in NonFinite
  <2>1. PreviewKnob(v, k, tier) \in {PreviewLimit[k][1], PreviewLimit[k][2]}
    BY <1>4, KnobAssumption DEF PreviewKnob, NonFinite
  <2>2. v \notin Int
    BY <1>4, KnobAssumption
  <2> QED
    BY <1>1, <2>1, <2>2
<1>5. CASE v \in Int
  <2>1. v # NoNumber /\ v \notin NonFinite
    BY <1>5, KnobAssumption
  <2>2. PreviewKnob(v, k, tier) = Clamp(v, PreviewLimit[k])
    BY <2>1 DEF PreviewKnob, NonFinite
  <2> QED
    BY <1>1, <1>5, <2>2, ClampExact DEF KeptOrClamped
<1> QED
  BY <1>3, <1>4, <1>5 DEF Value

LEMMA TrainKnobExact ==
    ASSUME NEW v \in Value, NEW k \in TrainKnobs
    PROVE  /\ TrainKnob(v, k) = Raised <=> v \in NonFinite
           /\ v = NoNumber /\ k # "lora_alpha" =>
                TrainKnob(v, k) \in TrainLimit[k][1] .. TrainLimit[k][2]
           /\ v \in Int => KeptOrClamped(TrainKnob(v, k), v, TrainLimit[k])
<1>1. /\ TrainLimit[k] \in Int \X Int
      /\ TrainLimit[k][1] <= TrainLimit[k][2]
  BY DEF TrainKnobs, TrainLimit
<1>2. k = "lora_alpha" => TrainDefault[k] = NoNumber
  BY DEF TrainDefault
<1>3. k # "lora_alpha" =>
        TrainDefault[k] \in TrainLimit[k][1] .. TrainLimit[k][2]
  BY DEF TrainKnobs, TrainLimit, TrainDefault
<1>4. CASE v = NoNumber
  <2>1. TrainKnob(v, k) = TrainDefault[k] /\ v \notin NonFinite /\ v \notin Int
    BY <1>4, KnobAssumption DEF TrainKnob
  <2>2. TrainDefault[k] # Raised
    BY <1>1, <1>2, <1>3, KnobAssumption
  <2> QED
    BY <1>3, <2>1, <2>2
<1>5. CASE v \in NonFinite
  BY <1>5, KnobAssumption DEF TrainKnob
<1>6. CASE v \in Int
  <2>1. TrainKnob(v, k) = Clamp(v, TrainLimit[k]) /\ v \notin NonFinite /\ v # NoNumber
    BY <1>6, KnobAssumption DEF TrainKnob
  <2>2. KeptOrClamped(TrainKnob(v, k), v, TrainLimit[k])
    BY <1>1, <1>6, <2>1, ClampExact
  <2>3. TrainKnob(v, k) \in Int
    BY <1>1, <2>2 DEF KeptOrClamped
  <2> QED
    BY <1>6, <2>1, <2>2, <2>3, KnobAssumption
<1> QED
  BY <1>4, <1>5, <1>6 DEF Value

LEMMA EngineDimRaises ==
    ASSUME NEW v \in Value, NEW axis \in Axes
    PROVE  EngineDim(v, axis) = Raised <=> v \in {Infinite, MinusInfinite}
<1>1. Ceiling[axis] \in {720, 480}
  BY DEF Axes, Ceiling
<1>2. CASE v \in {Infinite, MinusInfinite}
  <2>1. v # NoNumber /\ v # NaN
    BY <1>2, KnobAssumption DEF NonFinite
  <2>2. Axis(v, axis) = Raised
    BY <1>2, <2>1 DEF Axis, CoerceInt
  <2> QED
    BY <1>2, <2>2 DEF EngineDim
<1>3. CASE v \notin {Infinite, MinusInfinite}
  <2>1. CoerceInt(v, Ceiling[axis]) \in Int
    BY <1>1, <1>3 DEF CoerceInt, Value, NonFinite
  <2>2. Axis(v, axis) \in Int
    BY <1>1, <2>1, KnobAssumption DEF Axis, Smaller
  <2>3. EngineDim(v, axis) \in Int
    BY <2>2, SnapDimExact, KnobAssumption DEF EngineDim
  <2> QED
    BY <1>3, <2>3, KnobAssumption
<1> QED
  BY <1>2, <1>3

-----------------------------------------------------------------------------

\* The frame count of a clip is one the VAE decodes, under any ceiling, and the
\* one /health advertises: snap_frames, for every number a caller may send.
THEOREM FramesAlwaysExact == LimitsSpec => []FramesExact
<1>1. FramesExact
  <2>1. asked \in Int => \A cap \in 1 .. MaxFrames : FramesExactFor(asked, cap)
    BY SnapFramesExact DEF MaxFrames
  <2>2. EngineFrames = GridFrames
    BY DEF EngineFrames, GridFrames, NativeFrames, MaxFrames, SnapFrames,
           SnapUp, Larger, TemporalStride
  <2> QED
    BY <2>1, <2>2 DEF FramesExact
<1> QED
  BY <1>1, PTL

\* The size given to the engine never widens the tier or the request and is on
\* the grid, for every number a caller may send.
THEOREM DimsNeverWidened == LimitsSpec => []DimsNeverWiden
<1>1. DimsNeverWiden
  BY DimExact DEF DimsNeverWiden
<1> QED
  BY <1>1, PTL

-----------------------------------------------------------------------------

CapApplied == fraction = IF up THEN Fraction(CapGB(env), total) ELSE NoNumber

WarnedWithCap == warned => fraction # NoNumber

\* The inductive invariant.
Inv == LimitsTypeOK /\ CapApplied /\ WarnedWithCap

LEMMA FractionType ==
    ASSUME NEW c \in Caps, NEW t \in Totals
    PROVE  Fraction(CapGB(c), t) \in Fractions
BY NumbersAssumption, MemoryAssumption, KnobAssumption
   DEF Fraction, CapGB, Fractions

LEMMA InvInit == LimitsInit => Inv
BY DEF LimitsInit, Inv, LimitsTypeOK, Fractions, CapApplied, WarnedWithCap

LEMMA InvNext == Inv /\ [LimitsNext]_limitVars => Inv'
<1> SUFFICES ASSUME Inv, [LimitsNext]_limitVars
             PROVE  Inv'
  OBVIOUS
<1>1. CASE Start
  <2>1. /\ fraction' = Fraction(CapGB(env), total)
        /\ warned' \in BOOLEAN
        /\ warned' => fraction' # NoNumber
    BY <1>1 DEF Start, ApplyCap, ApplyCapUnread
  <2>2. up' = TRUE /\ UNCHANGED <<env, total, asked>>
    BY <1>1 DEF Start
  <2>3. LimitsTypeOK'
    BY <2>1, <2>2, FractionType DEF Inv, LimitsTypeOK
  <2> QED
    BY <2>1, <2>2, <2>3 DEF Inv, CapApplied, WarnedWithCap
<1>2. CASE Serve
  BY <1>2 DEF Serve, Inv, LimitsTypeOK, CapApplied, WarnedWithCap
<1>3. CASE Stop
  BY <1>3 DEF Stop, Inv, LimitsTypeOK, Fractions, CapApplied, WarnedWithCap
<1>4. CASE UNCHANGED limitVars
  BY <1>4 DEF limitVars, Inv, LimitsTypeOK, CapApplied, WarnedWithCap
<1> QED
  BY <1>1, <1>2, <1>3, <1>4 DEF LimitsNext

\* The inductive invariant holds in every reachable state.
THEOREM Invariance == LimitsSpec => []Inv
BY InvInit, InvNext, PTL DEF LimitsSpec

\* Every variable keeps its type: torch is never given a fraction outside
\* (0, 1], whatever the operator wrote.
THEOREM TypeCorrect == LimitsSpec => []LimitsTypeOK
<1>1. Inv => LimitsTypeOK
  BY DEF Inv
<1> QED
  BY <1>1, Invariance, PTL

LEMMA FractionExact ==
    ASSUME NEW gb \in Int, NEW t \in Int, gb > 0, t > 0
    PROVE  /\ Fraction(gb, t) # NoNumber
           /\ Fraction(gb, t)[1] * t = Smaller(gb, t) * Fraction(gb, t)[2]
<1>1. gb # NoNumber
  BY KnobAssumption
<1>2. <<1, 1>> # NoNumber /\ <<gb, t>> # NoNumber
  <2>1. <<1, 1>> \in Int \X Int /\ <<gb, t>> \in Int \X Int
    OBVIOUS
  <2> QED
    BY <2>1, KnobAssumption
<1>3. CASE gb >= t
  <2>1. Fraction(gb, t) = <<1, 1>> /\ Smaller(gb, t) = t
    BY <1>1, <1>3 DEF Fraction, Smaller
  <2> QED
    BY <2>1, <1>2
<1>4. CASE gb < t
  <2>1. Fraction(gb, t) = <<gb, t>> /\ Smaller(gb, t) = gb
    BY <1>1, <1>4 DEF Fraction, Smaller
  <2> QED
    BY <2>1, <1>2
<1> QED
  BY <1>3, <1>4

\* Every worker process is bound by the operator's cap, whatever was free when
\* it started.
THEOREM CapAlwaysAbsolute == LimitsSpec => []CapIsAbsolute
<1>1. Inv => CapIsAbsolute
  <2> SUFFICES ASSUME Inv
               PROVE  CapIsAbsolute
    OBVIOUS
  <2>1. CASE up /\ CapGB(env) # NoNumber /\ total > 0
    <3>1. /\ CapGB(env) \in Int /\ CapGB(env) > 0 /\ total \in Int
          /\ fraction = Fraction(CapGB(env), total)
      BY <2>1, MemoryAssumption DEF Inv, LimitsTypeOK, CapApplied, CapGB
    <3> QED
      BY <2>1, <3>1, FractionExact DEF Inv, WarnedWithCap, CapIsAbsolute
  <2>2. CASE ~(up /\ CapGB(env) # NoNumber /\ total > 0)
    BY <2>2 DEF Inv, WarnedWithCap, CapIsAbsolute
  <2> QED
    BY <2>1, <2>2
<1> QED
  BY <1>1, Invariance, PTL

\* A finite number a caller sends for a preview or training knob is used as it
\* is or brought to the nearer limit, and what is no number gives a default
\* within them.
THEOREM KnobsAlwaysInLimits == LimitsSpec => []KnobsStayInLimits
<1>1. Inv => KnobsStayInLimits
  <2> SUFFICES ASSUME Inv
               PROVE  KnobsStayInLimits
    OBVIOUS
  <2>1. asked \in Value
    BY NumbersAssumption DEF Inv, LimitsTypeOK, Value
  <2> QED
    BY <2>1, PreviewKnobExact, TrainKnobExact DEF KnobsStayInLimits
<1> QED
  BY <1>1, Invariance, PTL

\* Where the conversion is not forgiving, exactly: a training job raises on
\* every number that is not finite, NaN included, and a clip job on the two
\* infinities alone, because _coerce_int catches the ValueError of int(NaN) and
\* not the OverflowError of int(inf).
RaisesExactly ==
    /\ \A k \in TrainKnobs : TrainKnob(asked, k) = Raised <=> asked \in NonFinite
    /\ \A axis \in Axes :
         EngineDim(asked, axis) = Raised <=> asked \in {Infinite, MinusInfinite}

\* lora_train.py:82 and config.py:212: the finding of KnobsAreForgiving is all
\* there is; a finite number never makes the conversion raise.
THEOREM OnlyNonFiniteRaises == LimitsSpec => []RaisesExactly
<1>1. Inv => RaisesExactly
  <2> SUFFICES ASSUME Inv
               PROVE  RaisesExactly
    OBVIOUS
  <2>1. asked \in Value
    BY NumbersAssumption DEF Inv, LimitsTypeOK, Value
  <2> QED
    BY <2>1, TrainKnobExact, EngineDimRaises DEF RaisesExactly
<1> QED
  BY <1>1, Invariance, PTL
=============================================================================
