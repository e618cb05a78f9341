-------------------------- MODULE MCTriePrefetcher --------------------------
(* Instances of TriePrefetcher for TLC.                                    *)
EXTENDS TriePrefetcher

CONSTANTS x, y

\* Two keys at a time.
MCBatch == {<<x, y>>}
=============================================================================
