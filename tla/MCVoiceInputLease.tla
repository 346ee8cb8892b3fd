------------------------- MODULE MCVoiceInputLease -------------------------
(* Small instances of VoiceInputLease for TLC. *)
EXTENDS VoiceInputLease

CONSTANTS l1, l2
============================================================================
