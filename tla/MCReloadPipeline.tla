-------------------------- MODULE MCReloadPipeline --------------------------
(* Model checking of ReloadPipeline: a board is added, another deleted, and *)
(* probing is switched off and on again; the line busy is never probed.     *)
EXTENDS ReloadPipeline

CONSTANTS a, b, busy

MCBoards   == {a, b, busy}
MCVersions == 1..4
MCLines    == <<{a, busy}, {a, b}, {b, busy}, {b}>>
MCTargets  == <<{a}, {a, b}, {b}, {b}>>
MCEnabled  == {1, 2, 4}

=============================================================================
