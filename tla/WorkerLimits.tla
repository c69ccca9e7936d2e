---------------------------- MODULE WorkerLimits ----------------------------
(***************************************************************************)
(* What a render worker imposes on the card and on a request.  A worker    *)
(* process applies the VRAM cap when it starts (render_worker.main calls   *)
(* server.apply_vram_cap), again in every process that replaces it, with   *)
(* whatever memory is free then; each job it serves brings a number for a  *)
(* knob, and the arithmetic of EngineKnobs decides what the engine gets.   *)
(***************************************************************************)
EXTENDS WorkerInputs

VARIABLES
    env,        \* the cap as the operator wrote it, for the life of the door
    total,      \* the memory of the card; zero where torch or CUDA is missing
                \* too: apply_vram_cap then returns before it sets anything
    up,         \* a worker process is serving
    fraction,   \* what set_per_process_memory_fraction was given, or NoNumber
    warned,     \* this start printed the shortfall warning
    asked       \* the number of the job at hand

limitVars == <<env, total, up, fraction, warned, asked>>

LimitsInit ==
    /\ env \in Caps
    /\ total \in Totals
    /\ up = FALSE
    /\ fraction = NoNumber
    /\ warned = FALSE
    /\ asked = NoNumber

\* A cap that shrinks to the free remainder.
ApplyCapToFree(free) ==
    /\ fraction' = Share(CapGB(env), total, free)
    /\ warned' = (fraction' # NoNumber /\ Shortfall(CapGB(env), free))

\* apply_vram_cap, when mem_get_info answers.
ApplyCap(free) ==
    /\ fraction' = Fraction(CapGB(env), total)
    /\ warned' = (fraction' # NoNumber /\ Shortfall(CapGB(env), free))

\* apply_vram_cap, when it raises and the device properties give the total.
ApplyCapUnread ==
    /\ fraction' = Fraction(CapGB(env), total)
    /\ warned' = FALSE

Start ==
    /\ ~up
    /\ up' = TRUE
    /\ \/ \E free \in Frees : ApplyCap(free)
       \/ ApplyCapUnread
    /\ UNCHANGED <<env, total, asked>>

Serve ==
    /\ up
    /\ asked' \in Numbers
    /\ UNCHANGED <<env, total, up, fraction, warned>>

\* The process is killed or dies; the next one starts uncapped.
Stop ==
    /\ up
    /\ up' = FALSE
    /\ fraction' = NoNumber
    /\ warned' = FALSE
    /\ UNCHANGED <<env, total, asked>>

LimitsNext == Start \/ Serve \/ Stop

LimitsSpec == LimitsInit /\ [][LimitsNext]_limitVars

-----------------------------------------------------------------------------
(* Properties.                                                             *)

Fractions ==
    {NoNumber, <<1, 1>>}
      \cup {f \in Caps \X Totals : f[1] \in Int /\ 0 < f[1] /\ f[1] < f[2]}

\* Every variable has its type; in particular torch never gets a fraction
\* outside (0, 1].
LimitsTypeOK ==
    /\ env \in Caps
    /\ total \in Totals
    /\ up \in BOOLEAN
    /\ fraction \in Fractions
    /\ warned \in BOOLEAN
    /\ asked \in Numbers \cup {NoNumber}

\* The cap bounds every worker process alike (server.py:320): a serving one
\* holds exactly the smaller of the cap and the card, whatever was free when
\* it started, and the warning never comes without a cap.
CapIsAbsolute ==
    /\ up /\ CapGB(env) # NoNumber /\ total > 0
         => /\ fraction # NoNumber
            /\ fraction[1] * total = Smaller(CapGB(env), total) * fraction[2]
    /\ warned => fraction # NoNumber

OnGrid(n) == (n - 1) % TemporalStride = 0

FramesExactFor(n, cap) ==
    LET got == SnapFrames(n, cap)
    IN  /\ got \in 1 .. cap
        /\ OnGrid(got)
        /\ \/ got >= n /\ got - TemporalStride < Larger(1, n)
           \/ got < n /\ got + TemporalStride > cap

\* A frame count is one the temporal VAE decodes, under any ceiling: the
\* least not shorter than asked, or the largest the ceiling allows
\* (i2v_cogvideox.py:42).  The clip has the length /health advertises.
FramesExact ==
    /\ asked \in Int => \A cap \in 1 .. MaxFrames : FramesExactFor(asked, cap)
    /\ EngineFrames = GridFrames

DimExactFor(n, axis) ==
    LET got == EngineDim(n, axis)
        want == IF n = 0 THEN Ceiling[axis] ELSE Smaller(n, Ceiling[axis])
    IN  /\ got % SpatialMultiple = 0
        /\ got \in SpatialMultiple .. Ceiling[axis]
        /\ want >= SpatialMultiple => got \in want - SpatialMultiple + 1 .. want

\* A size never widens the tier nor, above the floor, what was asked, is a
\* multiple of 16 and wastes less than 16 pixels (config.py:184,
\* i2v_cogvideox.py:57).
DimsNeverWiden ==
    \A axis \in Axes : asked \in Int => DimExactFor(asked, axis)

KeptOrClamped(got, n, limit) ==
    /\ got \in limit[1] .. limit[2]
    /\ n \in limit[1] .. limit[2] => got = n
    /\ n < limit[1] => got = limit[1]
    /\ n > limit[2] => got = limit[2]

\* A finite number within the limits of a preview or training knob is used as
\* it is and one outside gives the nearer limit; what is no number gives a
\* default that is itself within them (preview_sdxl.py:103, lora_train.py:73).
\* A preview's clamp holds for numbers that are not finite as well, should the
\* contract ever let one through.
KnobsStayInLimits ==
    /\ \A k \in PreviewKnobs, tier \in Tiers :
         LET got == PreviewKnob(asked, k, tier)
         IN  /\ got \in PreviewLimit[k][1] .. PreviewLimit[k][2]
             /\ asked \in Int => KeptOrClamped(got, asked, PreviewLimit[k])
    /\ \A k \in TrainKnobs :
         LET got == TrainKnob(asked, k)
         IN  /\ asked = NoNumber /\ k # "lora_alpha" =>
                   got \in TrainLimit[k][1] .. TrainLimit[k][2]
             /\ asked \in Int => KeptOrClamped(got, asked, TrainLimit[k])

\* lora_train.py:74 "Parse render_overrides.lora into LoraTrainConfig
\* (forgiving + clamped)", docs/CONFIGURATION.md:147 "Any value is clamped to
\* what the chosen tier can honestly fit": no number a caller sends makes the
\* conversion raise and fails the job.
KnobsAreForgiving ==
    /\ \A k \in TrainKnobs : TrainKnob(asked, k) # Raised
    /\ \A axis \in Axes : EngineDim(asked, axis) # Raised
=============================================================================
