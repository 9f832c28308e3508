------------------------------ MODULE MCChatStream ------------------------------
(* The chunks of the model checking runs of ChatStream.                    *)
EXTENDS ChatStream

Pieces == {<<"x", Blank>> \o CallsOpen, <<"<fun">>, <<"calls>", Invoke>>,
           <<Invoke, Invoke, "</fun">>, <<Quoted>> \o CallsClose, CallsClose, <<"/calls>", "x">>}

MCChunks ==
    {Chunk(piece, FALSE, "none") : piece \in Pieces} \union
    {Chunk(<<>>, FALSE, f) : f \in {"stop", "length"}} \union
    {Chunk(<<>>, TRUE, "none"), Chunk(<<Invoke>> \o CallsClose, TRUE, "stop"), UsageChunk}

=============================================================================
