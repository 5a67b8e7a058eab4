-------------------------- MODULE MCSessionOpening --------------------------
(* SessionOpening for TLC: which requests are sent together. *)
EXTENDS SessionOpening, TLC

CONSTANTS s1, s2, t1, t2, r1, r2, r3, q1, q2

MCSourceOf == q1 :> "life_period_gap" @@ q2 :> "universal_dimension"

\* Retried starts, rival turns, a wrap beside a turn and retried wraps.
MCLoads == {{s1, s2, t1}, {s1, t1, t2}, {s1, t1, r1}, {s1, r1, r2, r3}}
=============================================================================
