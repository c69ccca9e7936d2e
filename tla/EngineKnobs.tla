----------------------------- MODULE EngineKnobs -----------------------------
(***************************************************************************)
(* The arithmetic between what a caller asks and what the engine is given: *)
(* the frame and size grids of CogVideoX (i2v_cogvideox.py), the tier      *)
(* ceilings (config.py), the clamps of a preview (preview_sdxl.py) and of  *)
(* a training (lora_train.py), and the VRAM fraction (core/vram.py).       *)
(*                                                                         *)
(* A value of a request is an integer, NoNumber (absent, a Boolean, a     *)
(* string that is no number), or one of the numbers json.loads accepts     *)
(* that are not finite: Infinite (1e999), MinusInfinite and NaN.  A        *)
(* fraction is cut to an integer by int() before or after a clamp with     *)
(* integer limits, which is the same, so no finite value is lost.          *)
(***************************************************************************)
EXTENDS Integers

CONSTANTS
    NoNumber,       \* a value int() is never applied to
    Infinite,       \* float("inf"): a number, and int() of it raises
    MinusInfinite,  \* float("-inf"), likewise
    NaN,            \* float("nan"): int() raises, and every comparison is false
    Raised          \* the outcome of a conversion that raises

NonFinite == {Infinite, MinusInfinite, NaN}

ASSUME KnobAssumption ==
    /\ NoNumber \notin Int /\ Raised \notin Int /\ NonFinite \cap Int = {}
    /\ NoNumber \notin NonFinite /\ Raised \notin NonFinite /\ NoNumber # Raised
    /\ Infinite # MinusInfinite /\ Infinite # NaN /\ MinusInfinite # NaN
    /\ NoNumber \notin Int \X Int

Value == Int \cup {NoNumber} \cup NonFinite

Smaller(a, b) == IF a <= b THEN a ELSE b
Larger(a, b) == IF a >= b THEN a ELSE b

-----------------------------------------------------------------------------
(* The grids of the video model. *)

TemporalStride == 4
SpatialMultiple == 16
MaxFrames == 49

SnapUp(n) ==
    LET rem == (n - 1) % TemporalStride
    IN  IF rem = 0 THEN n ELSE n + (TemporalStride - rem)

\* A clamp that forgets the grid when the ceiling applies.
SnapFramesThenCut(n, cap) == Smaller(SnapUp(Larger(1, n)), cap)

SnapFrames(n, cap) ==
    IF SnapUp(Larger(1, n)) <= cap
      THEN SnapUp(Larger(1, n))
      ELSE Larger(1, cap - ((cap - 1) % TemporalStride))

\* Rounding to the nearest multiple, up included.
SnapDimNearest(px) ==
    Larger(SpatialMultiple, ((px + 8) \div SpatialMultiple) * SpatialMultiple)

SnapDim(px) ==
    Larger(SpatialMultiple, (px \div SpatialMultiple) * SpatialMultiple)

-----------------------------------------------------------------------------
(* I2VConfig.from_request: the tier is a ceiling, zero and a non-number    *)
(* mean the ceiling, and the frame count of the request is not read.       *)

Axes == {"width", "height"}
Ceiling == [width |-> 720, height |-> 480]
NativeFrames == 49

\* _coerce_int catches what int(NaN) raises, and not what int(inf) raises.
CoerceInt(v, default) ==
    IF v \in {NoNumber, NaN} THEN default
    ELSE IF v \in {Infinite, MinusInfinite} THEN Raised ELSE v

Axis(v, axis) ==
    LET asked == CoerceInt(v, Ceiling[axis])
    IN  IF asked = Raised THEN Raised
        ELSE Smaller(Ceiling[axis], IF asked = 0 THEN Ceiling[axis] ELSE asked)

EngineDim(v, axis) ==
    IF Axis(v, axis) = Raised THEN Raised ELSE SnapDim(Axis(v, axis))

EngineFrames == SnapFrames(NativeFrames, MaxFrames)

\* What /health tells the planner to count on (door.DURATION_GRID).
GridFrames == NativeFrames

-----------------------------------------------------------------------------
(* Preview: a clamp on the float, then int().  Guidance is in tenths.      *)
(* max(low, NaN) is low.  The door refuses a number that is not finite     *)
(* before it gets here (contract.py:254).                                  *)

PreviewKnobs == {"width", "height", "steps", "guidance"}
PreviewLimit ==
    [width |-> <<256, 1344>>, height |-> <<256, 1344>>,
     steps |-> <<1, 50>>, guidance |-> <<0, 150>>]

Tiers == {"draft", "standard", "final"}
TierBase ==
    [draft    |-> [width |-> 1024, height |-> 576, steps |-> 4,  guidance |-> 10],
     standard |-> [width |-> 1344, height |-> 768, steps |-> 8,  guidance |-> 10],
     final    |-> [width |-> 1344, height |-> 768, steps |-> 30, guidance |-> 65]]

Clamp(v, limit) == Smaller(limit[2], Larger(limit[1], v))

PreviewKnob(v, knob, tier) ==
    IF v = NoNumber THEN TierBase[tier][knob]
    ELSE IF v = Infinite THEN PreviewLimit[knob][2]
    ELSE IF v \in {MinusInfinite, NaN} THEN PreviewLimit[knob][1]
    ELSE Clamp(v, PreviewLimit[knob])

-----------------------------------------------------------------------------
(* Training: int() first, then the clamp.  Without a lora_alpha the rank   *)
(* is used.  The learning rate is a float and never converted.             *)

TrainLimit ==
    [rank |-> <<1, 128>>, resolution |-> <<512, 1536>>, max_steps |-> <<1, 5000>>,
     batch_size |-> <<1, 8>>, accumulation |-> <<1, 32>>,
     seed |-> <<0, 2147483647>>, save_every |-> <<0, 5000>>,
     lora_alpha |-> <<1, 256>>]
TrainKnobs == DOMAIN TrainLimit
TrainDefault ==
    [rank |-> 16, resolution |-> 1024, max_steps |-> 1000, batch_size |-> 1,
     accumulation |-> 1, seed |-> 0, save_every |-> 0, lora_alpha |-> NoNumber]

\* Only the upper limit.
TrainKnobUpper(v, knob) ==
    IF v = NoNumber THEN TrainDefault[knob]
    ELSE IF v \in NonFinite THEN Raised
    ELSE Smaller(TrainLimit[knob][2], v)

TrainKnob(v, knob) ==
    IF v = NoNumber THEN TrainDefault[knob]
    ELSE IF v \in NonFinite THEN Raised
    ELSE Clamp(v, TrainLimit[knob])

\* The step count without its floor.
StepsNoFloor(maxSteps, refs) == (maxSteps * refs) \div 5

EffectiveSteps(maxSteps, refs) == Larger(50, (maxSteps * refs) \div 5)

-----------------------------------------------------------------------------
(* VIVIJURE_MAX_VRAM_GB.  A fraction is a pair <<numerator, denominator>>; *)
(* the cap, the total and the free memory are integers in one unit, as     *)
(* small as wanted.                                                        *)

\* A cap that shrinks to what is free.
Share(gb, total, free) ==
    IF gb = NoNumber \/ total <= 0 THEN NoNumber
    ELSE IF gb >= total THEN <<1, 1>>
    ELSE IF free \in 1 .. gb THEN <<free, total>> ELSE <<gb, total>>

CapGB(raw) == IF raw \in Int /\ raw > 0 THEN raw ELSE NoNumber

\* min(1.0, ...) forgotten: torch rejects a fraction above one.
FractionUnbounded(gb, total) ==
    IF gb = NoNumber \/ total <= 0 THEN NoNumber ELSE <<gb, total>>

Fraction(gb, total) ==
    IF gb = NoNumber \/ total <= 0 THEN NoNumber
    ELSE IF gb >= total THEN <<1, 1>> ELSE <<gb, total>>

Shortfall(gb, free) == gb # NoNumber /\ free > 0 /\ free < gb
=============================================================================
