--------------------------- MODULE MCStateManager ---------------------------
(* StateManager for TLC. *)
EXTENDS StateManager

CONSTANTS a1, a2,   \* callers of SetServingType
          q1, q2    \* requests
=============================================================================
