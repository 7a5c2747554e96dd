-------------------------- MODULE MCLicenseServer1 ---------------------------
(* The version 1 license server for TLC: its clients are interchangeable. *)
EXTENDS LicenseServer1, TLC

\* What is typed by hand: a request the server does not know, HELO without a
\* pid, and tickets that are right, nobody's, and none.
MCTexts ==
  {[type |-> "OTHER", pid |-> TICKET_AVAIL, slot |-> NoSlot],
   [type |-> "HELO", pid |-> TICKET_AVAIL, slot |-> NoSlot],
   [type |-> "GBYE", pid |-> TICKET_AVAIL, slot |-> 0],
   [type |-> "GBYE", pid |-> 1, slot |-> 0],
   [type |-> "GBYE", pid |-> 1, slot |-> NoSlot],
   [type |-> "VALD", pid |-> 1, slot |-> 0]}

ClientSymmetry == Permutations(Clients)
=============================================================================
