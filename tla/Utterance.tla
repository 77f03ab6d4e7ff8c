------------------------------ MODULE Utterance ------------------------------
(***************************************************************************)
(* What one caller of a speech synthesizer is promised: a call returns or  *)
(* raises; it reports success only when everything there was to say has    *)
(* been heard, and an interruption or a failure only with the loudspeaker  *)
(* silent, unless the call is excused.  An exception promises nothing of   *)
(* the sound.  What excuses a call is for who uses this module to say.     *)
(***************************************************************************)
VARIABLES
    busy,    \* a call is under way
    owed,    \* it has something to say
    excused, \* it need not have been heard to the end
    sound,   \* what has been heard of it: "nothing", "sounding", "cut", "all"
    told     \* what the last call that ended reported

vars == <<busy, owed, excused, sound, told>>

Init == busy = FALSE /\ owed = FALSE /\ excused = FALSE /\ sound = "nothing" /\ told = "nothing"

Begin ==
    /\ ~busy /\ busy' = TRUE
    /\ owed' \in BOOLEAN
    /\ excused' = FALSE /\ sound' = "nothing"
    /\ UNCHANGED told

Excuse ==
    /\ busy /\ ~excused /\ excused' = TRUE
    /\ sound' \in {sound, IF sound = "sounding" THEN "cut" ELSE sound}
    /\ UNCHANGED <<busy, owed, told>>

Starts ==
    /\ busy /\ owed /\ sound # "all" /\ sound' = "sounding"
    /\ UNCHANGED <<busy, owed, excused, told>>

Stops ==
    /\ sound = "sounding" /\ sound' \in {"cut", "all"}
    /\ UNCHANGED <<busy, owed, excused, told>>

Succeeds ==
    /\ busy /\ busy' = FALSE /\ told' = "success"
    /\ excused' \in {excused, TRUE}
    /\ excused' \/ (sound # "sounding" /\ (owed => sound = "all"))
    /\ UNCHANGED <<owed, sound>>

(* Interrupted, or failed: the caller is told. *)
GivesUp ==
    /\ busy /\ busy' = FALSE /\ told' \in {"interrupted", "failed"}
    /\ sound' = (IF sound = "sounding" THEN "cut" ELSE sound)
    /\ UNCHANGED <<owed, excused>>

(* The caller gets an exception; what sounds may sound on. *)
Raises ==
    /\ busy /\ busy' = FALSE /\ told' = "raised"
    /\ excused' \in {excused, TRUE}
    /\ UNCHANGED <<owed, sound>>

Next == Begin \/ Excuse \/ Starts \/ Stops \/ Succeeds \/ GivesUp \/ Raises

Spec == Init /\ [][Next]_vars /\ WF_vars(Succeeds \/ GivesUp \/ Raises)
=============================================================================
