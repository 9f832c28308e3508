------------------------------- MODULE MCUpstream -------------------------------
(* The responses of the model checking runs of UpstreamCall.               *)
EXTENDS UpstreamCall

Bodies == [shape : {"error", "detail"}, code : {0, 401, 429, 503}, hint : {0, 403, 429}]
    \union [shape : {"errorText", "detailText"}, code : {0}, hint : {0, 401, 403, 429}]
    \union [shape : {"codeMsg"}, code : {0, 400, 404, 429, 500}, hint : {0}]
    \union [shape : {"opaque", "chat", "object", "text"}, code : {0}, hint : {0}]

MCResponses ==
    {[status |-> s, shape |-> body.shape, code |-> body.code, hint |-> body.hint, framed |-> f] :
        s \in {200, 400, 401, 403, 404, 429, 500, 599, 600}, body \in Bodies, f \in BOOLEAN}

=============================================================================
