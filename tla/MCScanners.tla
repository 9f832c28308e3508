------------------------------ MODULE MCScanners ------------------------------
\* Streams with thinking tags and streams with tool-call tags.
EXTENDS ScannerStreams

ThinkSymbols == {"x"} \union Range(ThinkOpen) \union Range(ThinkClose)
CallTags == Range(CallsOpen) \union Range(CallsClose)
CallSymbols == {Invoke} \union CallTags
MCAlphabets == {ThinkSymbols, CallSymbols}

(* Streams with other text around the calls. *)
ClaimAlphabets == {{"x"} \union CallSymbols}

=============================================================================
