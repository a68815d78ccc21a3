------------------------------ MODULE MCUserStop ------------------------------
(* UserStop on a small instance. *)
EXTENDS UserStop

CONSTANTS a1, t1, t2, h1, h2

MCAgents == {a1}
MCTerminals == {t1, t2}
MCHandlers == {h1, h2}

==============================================================================
