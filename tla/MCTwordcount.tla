---------------------------- MODULE MCTwordcount -----------------------------
(***************************************************************************)
(* The files of the run.                                                   *)
(***************************************************************************)
EXTENDS Twordcount

\* Everything up to three characters, where at most one word ends, and the
\* shortest file in which two do.
MCFiles ==
  UNION {[1 .. n -> BOOLEAN] : n \in 0 .. 3} \cup {<<TRUE, FALSE, TRUE, FALSE>>}
=============================================================================
