---------------------------- MODULE MCSqlEntries ----------------------------
(***************************************************************************)
(* Instances of SqlEntries for TLC.                                        *)
(***************************************************************************)
EXTENDS SqlEntries

CONSTANTS key_1, key_2, session_1, session_2

MCKeys == {key_1, key_2}
MCSessions == {session_1, session_2}
MCNumbers == 0..2 * MaxCalls
=============================================================================
