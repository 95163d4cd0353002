---------------------------- MODULE FlagRegister ----------------------------
(***************************************************************************)
(* What GPUFlags promises: a value per object, that kernels and resets     *)
(* change in the order in which the host issues them.  A kernel is a call  *)
(* here, not something that still runs.                                    *)
(***************************************************************************)
CONSTANTS Flags, Values, Zero

VARIABLES
    value,      \* value[f]: the flags
    got         \* got[f]: what the last readFlags() returned, Zero before

vars == <<value, got>>

Init == /\ value = [f \in Flags |-> Zero]
        /\ got = [f \in Flags |-> Zero]

Launch(f, v) == value' = [value EXCEPT ![f] = v] /\ UNCHANGED got
Reset(f, v) == value' = [value EXCEPT ![f] = v] /\ UNCHANGED got
Read(f) == got' = [got EXCEPT ![f] = value[f]] /\ UNCHANGED value
Exchange(f, g) ==
    /\ value' = [value EXCEPT ![f] = value[g], ![g] = value[f]]
    /\ UNCHANGED got

Next == \E f \in Flags :
    \/ \E v \in Values : Launch(f, v) \/ Reset(f, v)
    \/ Read(f)
    \/ \E g \in Flags : Exchange(f, g)

Spec == Init /\ [][Next]_vars
=============================================================================
