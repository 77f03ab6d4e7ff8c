---------------------------- MODULE MCSynthesizer ----------------------------
(***************************************************************************)
(* Two threads and one synthesizer: the thread of the conversation, whose  *)
(* calls are those of Utterance, and another, which speaks on the same     *)
(* loudspeaker as an acknowledgment does, or builds as a live one does.    *)
(***************************************************************************)
EXTENDS Synthesizer, TLC

CONSTANTS main, worker

MCDuties == main :> {"speak", "interruptible"} @@ worker :> {"interruptible", "build"}
==============================================================================
