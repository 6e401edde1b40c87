--------------------------- MODULE MCRateLimiter ---------------------------
(* Constants for TLC: two callers, one of whom a reload declares a trusted  *)
(* proxy and back; a table for one, so that they evict each other; three    *)
(* settings: the usual one (a block as long as the window), the limiter     *)
(* switched off, and a stricter one whose block is shorter than its window. *)
EXTENDS RateLimiter

CONSTANTS c1, c2

MCIps     == {c1, c2}
MCLimits  == {[enabled |-> TRUE, max |-> 2, window |-> 2, block |-> 2],
              [enabled |-> FALSE, max |-> 2, window |-> 2, block |-> 2],
              [enabled |-> TRUE, max |-> 1, window |-> 2, block |-> 1]}
MCTrusted == {{}, {c2}}

=============================================================================
