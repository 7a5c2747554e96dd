---------------------------- MODULE LicenseTable ----------------------------
(***************************************************************************)
(* What both versions of the license server keep (lserv_funcs1.c,          *)
(* lserv_funcs2.c): the table of tickets, their number, and the datagram   *)
(* main is busy with.                                                      *)
(***************************************************************************)
EXTENDS LicenseClient

VARIABLES
  ticket_array,     \* slot -> pid of its holder, or TICKET_AVAIL
  num_tickets_out,  \* the count do_hello tests
  buf               \* the datagram main has received and not answered yet,
                    \* or NoRequest

tablevars == <<ticket_array, num_tickets_out>>

NoRequest == [type |-> "NONE"]

Taken == {s \in Slots : ticket_array[s] # TICKET_AVAIL}
FreeTable == [s \in Slots |-> TICKET_AVAIL]

\* do_goodbye and do_validate: sscanf finds pid and slot in buf, and the slot
\* holds that pid.  A free slot holds pid 0.
TicketInBuf == buf.slot # NoSlot /\ ticket_array[buf.slot] = buf.pid

-----------------------------------------------------------------------------
\* A living process that works with a ticket of the running server still has
\* its slot: neither the reclaimer nor a GBYE left over from a dead process
\* that had the same pid takes it away, unless HELO or GBYE is typed by hand.
HolderKeepsTicket ==
  ~byhand =>
    \A c \in AtWork : Current(c) => ticket_array[ticket[c].slot] = pid[c]

\* The tickets on the server's books.
Issued == {<<ticket_array[s], s>> : s \in Taken}

\* As long as nobody types a HELO or a GBYE by hand, every step of the server,
\* the handler and the clients is a step of the pool or changes nothing there.
\* A GBYE that is still under way when its sender is dead and the pid belongs to
\* a new process frees the dead one's slot, never the new one's.
Pool == INSTANCE LicensePool WITH Names <- Pids, issued <- Issued,
                                  working <- Working

ImplementsPool ==
  /\ Pool!PoolInit
  /\ [][~byhand' => Pool!PoolNext]_(Pool!poolvars)
=============================================================================
