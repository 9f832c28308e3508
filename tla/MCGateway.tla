------------------------------- MODULE MCGateway -------------------------------
(* Constants of the model checking runs of Gateway.                        *)
EXTENDS Gateway, TLC

CONSTANTS a1, a2, b1, a, b

MCClient == (a1 :> a) @@ (a2 :> a) @@ (b1 :> b)

=============================================================================
