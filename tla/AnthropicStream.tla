---------------------------- MODULE AnthropicStream ----------------------------
(***************************************************************************)
(* The Messages streaming contract, as a client that assembles a message   *)
(* from the events it receives.  Any event out of place puts the client    *)
(* in phase "illegal" for good.  stream.py:1-5 promises its events match   *)
(* this contract; the bodies of the events are stream.py:189-258, 313-321. *)
(***************************************************************************)
EXTENDS Integers, SequencesExt

MessageStart == [type |-> "message_start"]
BlockStart(index, block) ==
    [type |-> "content_block_start", index |-> index, block |-> block]
BlockDelta(index, block, text) ==
    [type |-> "content_block_delta", index |-> index, block |-> block, text |-> text]
BlockStop(index) == [type |-> "content_block_stop", index |-> index]
MessageDelta(stopReason, usage) ==
    [type |-> "message_delta", stop |-> stopReason, usage |-> usage]
MessageStop == [type |-> "message_stop"]
ErrorEvent == [type |-> "error"]

(* A client: phase is before, open, closing (after message_delta), stopped, *)
(* failed or illegal; block is the type of the open block; blocks the       *)
(* content assembled so far; stop the stop reason.                          *)
NewClient == [phase |-> "before", block |-> "none", blocks |-> <<>>, stop |-> "none"]

LastIndex(client) == Len(client.blocks) - 1

(* Is the event one the client may receive now? *)
Acceptable(client, event) ==
    CASE event.type = "message_start" -> client.phase = "before"
      [] event.type = "content_block_start" ->
            /\ client.phase = "open" /\ client.block = "none"
            /\ event.index = LastIndex(client) + 1
      [] event.type = "content_block_delta" ->
            /\ client.phase = "open" /\ client.block = event.block
            /\ event.index = LastIndex(client)
      [] event.type = "content_block_stop" ->
            /\ client.phase = "open" /\ client.block # "none"
            /\ event.index = LastIndex(client)
      [] event.type = "message_delta" -> client.phase = "open" /\ client.block = "none"
      [] event.type = "message_stop" -> client.phase = "closing"
      [] event.type = "error" -> client.phase \in {"before", "open"}

After(client, event) ==
    CASE event.type = "message_start" -> [client EXCEPT !.phase = "open"]
      [] event.type = "content_block_start" ->
            [client EXCEPT !.block = event.block,
                           !.blocks = Append(@, [kind |-> event.block, text |-> <<>>])]
      [] event.type = "content_block_delta" ->
            [client EXCEPT !.blocks[Len(client.blocks)].text = @ \o event.text]
      [] event.type = "content_block_stop" -> [client EXCEPT !.block = "none"]
      [] event.type = "message_delta" ->
            [client EXCEPT !.phase = "closing", !.stop = event.stop]
      [] event.type = "message_stop" -> [client EXCEPT !.phase = "stopped"]
      [] event.type = "error" -> [client EXCEPT !.phase = "failed"]

Accept(client, event) ==
    IF Acceptable(client, event) THEN After(client, event)
    ELSE [client EXCEPT !.phase = "illegal"]

Receive(client, events) == FoldLeft(Accept, client, events)

=============================================================================
