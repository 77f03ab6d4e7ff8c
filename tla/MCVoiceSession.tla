---------------------------- MODULE MCVoiceSession ----------------------------
(***************************************************************************)
(* Instances of VoiceSession for TLC.  The response is a short sentence,   *)
(* which is joined with the next one, and two long ones: two deltas and    *)
(* one chunk at the end.                                                   *)
(***************************************************************************)
EXTENDS VoiceSession

MCSize == [sure |-> 4, opened |-> 12, closed |-> 11]
MCTexts == {<<"sure", "opened", "closed">>}
=============================================================================
