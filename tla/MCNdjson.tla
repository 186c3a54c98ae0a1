------------------------------ MODULE MCNdjson ------------------------------
(* Small instances of Ndjson for TLC.                                        *)
EXTENDS Ndjson
=============================================================================
