-------------------------- MODULE MCMeteredSource --------------------------
(* A small instance of MeteredSource for TLC. *)
EXTENDS MeteredSource

\* Consumption or reverse generation, standby, forward generation.
MCPowers == {-2, 1, 2}

\* Automatic; reverse with whatever counter there is; the default of plug 1.
MCConfigured ==
    {[direction |-> "auto", field |-> "auto"],
     [direction |-> "negative", field |-> "auto"],
     [direction |-> "positive", field |-> "aenergy"]}
=============================================================================
