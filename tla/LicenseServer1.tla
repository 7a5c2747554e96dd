--------------------------- MODULE LicenseServer1 ----------------------------
(***************************************************************************)
(* The license server, version 1 (lserv1.c, lserv_funcs1.c): the request   *)
(* loop alone.  Nothing interrupts handle_request, so one action handles   *)
(* a request and sends its answer.  A ticket comes back with GBYE or not   *)
(* at all.                                                                 *)
(***************************************************************************)
EXTENDS LicenseTable

vars == <<netvars, clientvars, tablevars, buf>>

Init ==
  /\ ClientInit
  /\ ticket_array = FreeTable
  /\ num_tickets_out = 0
  /\ buf = NoRequest

\* setup binds the port and frees all tickets.
StartServer ==
  /\ ~up
  /\ starts < MaxStarts
  /\ up' = TRUE
  /\ starts' = starts + 1
  /\ ticket_array' = FreeTable
  /\ UNCHANGED <<queue, inbox, clientvars, num_tickets_out, buf>>

\* The server dies, and its memory and its socket with it.
Crash ==
  /\ up
  /\ up' = FALSE
  /\ queue' = <<>>
  /\ ticket_array' = FreeTable
  /\ num_tickets_out' = 0
  /\ buf' = NoRequest
  /\ UNCHANGED <<starts, inbox, clientvars>>

Recvfrom ==
  /\ up /\ buf = NoRequest
  /\ queue # <<>>
  /\ buf' = Head(queue)
  /\ queue' = Tail(queue)
  /\ UNCHANGED <<up, starts, inbox, clientvars, tablevars>>

\* The end of handle_request: the answer goes to the sender of buf.
Reply(type, p, s) ==
  /\ Deliver(buf.from, [type |-> type, pid |-> p, slot |-> s, ep |-> starts])
  /\ buf' = NoRequest
  /\ UNCHANGED <<up, starts, queue, clientvars>>

Handles(type) == up /\ buf.type = type

\* do_hello: no tickets available, or the table and the count disagree
HelloFail ==
  /\ Handles("HELO")
  /\ num_tickets_out >= MAXUSERS \/ Taken = Slots
  /\ Reply("FAIL", TICKET_AVAIL, 0)
  /\ UNCHANGED tablevars

\* Wrong on purpose: the last slot, free or not.
HelloTickLast ==
  /\ Handles("HELO")
  /\ num_tickets_out < MAXUSERS
  /\ ticket_array' = [ticket_array EXCEPT ![MAXUSERS - 1] = buf.pid]
  /\ Reply("TICK", buf.pid, MAXUSERS - 1)
  /\ num_tickets_out' = num_tickets_out + 1

\* do_hello: the first free slot goes to the pid in the message
HelloTick ==
  /\ Handles("HELO")
  /\ num_tickets_out < MAXUSERS
  /\ \E x \in Slots \ Taken :
       /\ \A s \in Slots \ Taken : x <= s
       /\ ticket_array' = [ticket_array EXCEPT ![x] = buf.pid]
       /\ Reply("TICK", buf.pid, x)
  /\ num_tickets_out' = num_tickets_out + 1

\* do_goodbye: bogus ticket
GoodbyeFail ==
  /\ Handles("GBYE")
  /\ ~TicketInBuf
  /\ Reply("FAIL", TICKET_AVAIL, 0)
  /\ UNCHANGED tablevars

\* Wrong on purpose: the pid in the ticket is not compared.
GoodbyeThnxAny ==
  /\ Handles("GBYE")
  /\ buf.slot # NoSlot
  /\ ticket_array' = [ticket_array EXCEPT ![buf.slot] = TICKET_AVAIL]
  /\ num_tickets_out' = num_tickets_out - 1
  /\ Reply("THNX", TICKET_AVAIL, 0)

GoodbyeThnx ==
  /\ Handles("GBYE")
  /\ TicketInBuf
  /\ ticket_array' = [ticket_array EXCEPT ![buf.slot] = TICKET_AVAIL]
  /\ num_tickets_out' = num_tickets_out - 1
  /\ Reply("THNX", TICKET_AVAIL, 0)

\* Version 1 does not know VALD.
InvalidRequest ==
  /\ Handles("VALD") \/ Handles("OTHER")
  /\ Reply("FAIL", TICKET_AVAIL, 0)
  /\ UNCHANGED tablevars

HandleRequest ==
  HelloFail \/ HelloTick \/ GoodbyeFail \/ GoodbyeThnx \/ InvalidRequest

ServerNext == StartServer \/ Crash \/ Recvfrom \/ HandleRequest

Next ==
  \/ ServerNext
  \/ \E c \in Clients : ClientNext(c) /\ UNCHANGED <<tablevars, buf>>

Spec == Init /\ [][Next]_vars

-----------------------------------------------------------------------------
TypeOK ==
  /\ ClientTypeOK
  /\ ticket_array \in [Slots -> Pids \cup {TICKET_AVAIL}]
  /\ num_tickets_out \in Int
  /\ ~byhand => num_tickets_out \in 0 .. MAXUSERS
  /\ buf \in Requests \cup {NoRequest}

\* The count do_hello tests is the number of slots taken, so that the "sanity
\* check" of its slot search never fails.  A HELO without a pid counts a ticket
\* and takes no slot, and "GBYE 0 . 0" gives a free slot back: both are what
\* the code does with texts no client sends.
CountMatchesTable == ~byhand => num_tickets_out = Cardinality(Taken)
=============================================================================
