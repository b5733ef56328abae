--------------------------- MODULE MCLockedStorage ---------------------------
(* LockedStorage on two artifacts and two references: one always leads to a,    *)
(* the other moves between both.                                                *)
EXTENDS LockedStorage

CONSTANTS a, b, staying, moving

MCBinds == {<<staying, a>>, <<moving, a>>, <<moving, b>>}

==============================================================================
