----------------------------- MODULE LicensePool -----------------------------
(***************************************************************************)
(* What the license server promises, whatever its program looks like: a   *)
(* pool of MAXUSERS slots, each lent to at most one process at a time, and *)
(* a ticket that somebody works with stays lent until he stops.            *)
(***************************************************************************)
EXTENDS Integers, FiniteSets

CONSTANTS
  Names,    \* what a ticket may be issued to (pids)
  Slots     \* the slots of the pool

VARIABLES
  issued,   \* tickets <<name, slot>> on the server's books
  working   \* tickets a living process works with

poolvars == <<issued, working>>

AllTickets == Names \X Slots

PoolInit ==
  /\ issued = {}
  /\ working = {}

\* A free slot is lent.
Issue(n, s) ==
  /\ \A t \in issued : t[2] # s
  /\ issued' = issued \cup {<<n, s>>}
  /\ UNCHANGED working

\* The process it was lent to starts to work.
Begin(t) ==
  /\ t \in issued \ working
  /\ working' = working \cup {t}
  /\ UNCHANGED issued

\* It stops: it asks to return the ticket, or it is gone.
Stop(t) ==
  /\ t \in working
  /\ working' = working \ {t}
  /\ UNCHANGED issued

\* A ticket nobody works with comes back to the pool.
Retire(t) ==
  /\ t \in issued \ working
  /\ issued' = issued \ {t}
  /\ UNCHANGED working

\* The server dies and all its books with it: the tickets people still work
\* with are no tickets of the next server.
Forget ==
  /\ issued' = {}
  /\ working' = {}

PoolNext ==
  \/ \E n \in Names, s \in Slots : Issue(n, s)
  \/ \E t \in AllTickets : Begin(t) \/ Stop(t) \/ Retire(t)
  \/ Forget

PoolSpec == PoolInit /\ [][PoolNext]_poolvars

-----------------------------------------------------------------------------
\* What the server has on its books are tickets: a name and a slot.
PoolTypeOK ==
  /\ issued \subseteq AllTickets
  /\ working \subseteq AllTickets

\* No slot is lent twice, and who works has his ticket on the books: never
\* more than MAXUSERS at work (do_hello's test against MAXUSERS).
PoolSafe ==
  /\ working \subseteq issued
  /\ \A t, u \in issued : t[2] = u[2] => t = u
=============================================================================
