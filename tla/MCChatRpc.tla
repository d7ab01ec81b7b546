------------------------------- MODULE MCChatRpc -------------------------------
(* Instances of ChatRpc for TLC. *)
EXTENDS ChatRpc

(***************************************************************************)
(* ChatMessageBroker.service.ts:243 answers 'Failed to enqueue chat        *)
(* message (broker buffer full)': a request so answered is in no queue and *)
(* is not processed.                                                       *)
(***************************************************************************)
FullIsNotEnqueued ==
  \A q \in Requests : answer[q] = "full" => ~InSeq(q, queue) /\ q \notin tried
=============================================================================
