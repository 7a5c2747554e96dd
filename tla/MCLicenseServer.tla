--------------------------- MODULE MCLicenseServer ---------------------------
(* The license server for TLC: its clients are interchangeable. *)
EXTENDS LicenseServer, TLC

\* What is typed by hand: a request the server does not know, and with the
\* words it knows, HELO without a pid and tickets that are right, nobody's,
\* and none.
MCTexts ==
  {[type |-> "OTHER", pid |-> TICKET_AVAIL, slot |-> NoSlot],
   [type |-> "HELO", pid |-> TICKET_AVAIL, slot |-> NoSlot],
   [type |-> "GBYE", pid |-> TICKET_AVAIL, slot |-> 0],
   [type |-> "GBYE", pid |-> 1, slot |-> 0],
   [type |-> "VALD", pid |-> 1, slot |-> NoSlot]}

ClientSymmetry == Permutations(Clients)
=============================================================================
