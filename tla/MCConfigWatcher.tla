-------------------------- MODULE MCConfigWatcher --------------------------
(* Model checking of ConfigWatcher: three valid contents, a broken one and  *)
(* one torn prefix.                                                         *)
EXTENDS ConfigWatcher

CONSTANTS v1, v2, v3, broken, torn

MCGood   == {v1, v2, v3}
MCBroken == {broken}
MCTorn   == {torn}

=============================================================================
