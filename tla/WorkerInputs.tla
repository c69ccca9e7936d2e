---------------------------- MODULE WorkerInputs ----------------------------
(* What reaches the arithmetic of a render worker: the bundle and the      *)
(* overrides of a training, the number of a knob, the operator's cap and   *)
(* the memory of the card.                                                 *)
EXTENDS EngineKnobs, Sequences

CONSTANTS
    Casts,      \* sequences: the number of references of each slot
    Asked,      \* what may stand under render_overrides.lora
    Numbers,    \* the values a caller sends for a knob
    Caps,       \* the values VIVIJURE_MAX_VRAM_GB may have
    Totals,     \* sizes of the card
    Frees       \* amounts of free memory a start may find

ASSUME CastAssumption == Casts \subseteq Seq(Nat \ {0})
ASSUME AskedAssumption == Asked \subseteq [TrainKnobs -> Value]
ASSUME NumbersAssumption == Numbers \subseteq Value
ASSUME MemoryAssumption ==
    /\ Caps \subseteq Int \cup {NoNumber}
    /\ Totals \subseteq Int
    /\ Frees \subseteq Int
=============================================================================
