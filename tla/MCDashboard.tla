----------------------------- MODULE MCDashboard -----------------------------
(* Two server threads, the right token and a wrong one.                     *)
EXTENDS Dashboard

CONSTANTS t1, t2, secret, wrong, nothing

TwoThreads == {t1, t2}
TwoTokens == {secret, wrong}
TwoVerdicts == {"ALLOW", "BLOCK"}
=============================================================================
