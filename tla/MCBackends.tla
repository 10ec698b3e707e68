----------------------------- MODULE MCBackends -----------------------------
(* Instances of Backends for TLC. *)
EXTENDS Backends

CONSTANTS a, b, c   \* three constraints

(* The first backend is meant for formulas without c, the second for those *)
(* with a; nothing suits {c} and {b, c}.                                   *)
MCSuits == <<{F \in SUBSET {a, b, c} : c \notin F}, {F \in SUBSET {a, b, c} : a \in F}>>

(* The same conditions in the other order: removing c makes the second     *)
(* backend useful.                                                         *)
MCSuitsSwapped == <<MCSuits[2], MCSuits[1]>>
=============================================================================
