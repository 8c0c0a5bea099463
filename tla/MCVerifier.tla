----------------------------- MODULE MCVerifier -----------------------------
(* Small instances of Verifier.  A transaction list is its length.  What can *)
(* happen in a directory without an index, or without errors, can happen     *)
(* with errors too.                                                          *)
EXTENDS Verifier

MCOneList      == {<<1>>}
MCEnvironments == {{}, {"io_errors"}, {"fresh_dir", "io_errors"}}
MCFreshDir     == {{"fresh_dir"}}
=============================================================================
