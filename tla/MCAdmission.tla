----------------------------- MODULE MCAdmission -----------------------------
\* The admission control on two clients, a with three tasks and b with its own.
EXTENDS AdmissionControl

CONSTANTS a1, a2, a3, b1, b2, a, b

\* Which client each task calls for (the client_id the routes pass to slot()).
MCClient == [t \in Tasks |-> IF t \in {a1, a2, a3} THEN a ELSE b]

=============================================================================
