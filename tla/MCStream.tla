-------------------------------- MODULE MCStream --------------------------------
(* The chunks of the model checking runs of StreamConverter.               *)
EXTENDS StreamConverter

Pieces == {
    <<"x", "<th">>, <<"ink>", "t">>, ThinkClose, ThinkOpen \o <<"t">> \o ThinkClose,
    <<"x", Blank>> \o CallsOpen, <<"<fun">>, <<"calls>", Invoke>>, <<Escaped, "</fun">>,
    <<Invoke, "</fun">>, <<"/calls>">>}

ContentChunks == {Chunk(<<>>, piece, "none", "none") : piece \in Pieces}
ReasoningChunk == Chunk(<<"r">>, <<>>, "none", "none")
FinishChunks == {
    Chunk(<<>>, <<>>, "none", "length"), Chunk(<<>>, <<>>, "none", "tool_calls"),
    Chunk(<<"r">>, <<"x">>, "none", "content_filter"),
    Chunk(<<>>, <<Invoke>> \o CallsClose, "none", "stop")}
ToolChunks == {Chunk(<<>>, <<"x">>, "call", "none"), Chunk(<<>>, <<>>, "empty", "stop")}

MCChunks == ContentChunks \union {ReasoningChunk, UsageChunk} \union FinishChunks \union ToolChunks

=============================================================================
