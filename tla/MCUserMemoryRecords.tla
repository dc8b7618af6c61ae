------------------------ MODULE MCUserMemoryRecords ------------------------
(* Small instances of UserMemoryRecords for TLC.                           *)
EXTENDS UserMemoryRecords
=============================================================================
