--------------------------------- MODULE MCRoute ---------------------------------
(* A request on its way: its conversion, and the call that sends it.  What *)
(* the call does depends on the response only, so one conversion is enough *)
(* to follow, in a streaming and in a whole call.                          *)
EXTENDS MCRequests, MCUpstream

Followed == {[Plain EXCEPT !.tools = <<Search>>, !.choice = "any", !.system = <<>>]}

RouteInit == Init /\ CallInit /\ (stream => request \in Followed)

Convert == Next /\ UNCHANGED callVars
Deliver == status = "sent" /\ request \in Followed /\ CallNext /\ UNCHANGED vars

RouteSpec == RouteInit /\ [][Convert \/ Deliver]_<<vars, callVars>>

=============================================================================
