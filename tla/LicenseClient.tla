---------------------------- MODULE LicenseClient ----------------------------
(***************************************************************************)
(* The licensed program (lclnt1.c, lclnt_funcs1.c) and the datagram        *)
(* sockets that join its processes to the license server on the same host. *)
(*                                                                         *)
(* A client process is born with a free pid, asks for a ticket with HELO,  *)
(* works, gives the ticket back with GBYE and exits; it may be killed at   *)
(* any moment.  Its pid is free again as soon as it is gone.  The server's *)
(* socket is a bounded FIFO: a datagram that finds it full, or finds no    *)
(* server, is lost without the sender being told.                          *)
(*                                                                         *)
(* Anybody can send the server a text of his own with dgsend.  The server  *)
(* cannot tell it from a client's request, and does what it says.          *)
(***************************************************************************)
EXTENDS Integers, Sequences, FiniteSets

CONSTANTS
  Clients,      \* the client processes that ever run
  Pids,         \* the process ids they may be given
  MAXUSERS,     \* slots in the server's ticket array
  Texts,        \* what dgsend is told to send
  QueueCap,     \* datagrams the server's socket buffer holds
  MaxStarts     \* bound: how often the server is started

TICKET_AVAIL == 0
NoPid == -1
NoSlot == -1

Slots == 0 .. MAXUSERS - 1

\* What the server reads in a datagram: the word it begins with, the pid
\* (atoi makes 0 of what is no number), and the slot, or NoSlot when sscanf
\* does not find two numbers.
RequestTypes == {"HELO", "GBYE", "VALD", "OTHER"}
Requested == [type : RequestTypes, pid : Pids \cup {TICKET_AVAIL},
              slot : Slots \cup {NoSlot}]

\* A text names a slot of the array or none: beyond its bounds the server reads
\* whatever memory is there.
ASSUME ClientAssumption ==
  /\ Pids \subseteq Nat \ {0}
  /\ MAXUSERS \in Nat \ {0}
  /\ Texts \subseteq Requested
  /\ QueueCap \in Nat \ {0}
  /\ MaxStarts \in Nat

VARIABLES
  up,       \* TRUE while a server process has the port bound
  starts,   \* how many server processes there have been
  queue,    \* datagrams in the server's socket
  inbox,    \* datagrams in each client's socket
  cstate,   \* where each client process is
  pid,      \* its process id
  ticket,   \* its ticket_buf
  byhand    \* history: has dgsend been told to send a HELO or a GBYE?

netvars == <<up, starts, queue, inbox>>
clientvars == <<cstate, pid, ticket, byhand>>

\* A ticket is the pair "pid . slot".  Field ep is a history variable: the
\* server process that printed it.  No guard of the client or the server
\* reads it.
Tickets == [pid : Pids \cup {TICKET_AVAIL}, slot : Slots, ep : 0 .. MaxStarts]
NoTicket == [pid |-> NoPid, slot |-> NoPid, ep |-> 0]

\* A datagram, with the socket its answer goes to.
Requests == [type : RequestTypes, from : Clients,
             pid : Pids \cup {TICKET_AVAIL}, slot : Slots \cup {NoSlot}]

ReplyTypes == {"TICK", "THNX", "GOOD", "FAIL"}
Replies == [type : ReplyTypes, pid : Pids \cup {TICKET_AVAIL}, slot : Slots,
            ep : 0 .. MaxStarts]

ClientStates == {"idle", "hello", "work", "vald", "bye", "gone"}

ClientTypeOK ==
  /\ up \in BOOLEAN
  /\ starts \in 0 .. MaxStarts
  /\ queue \in Seq(Requests)
  /\ inbox \in [Clients -> Seq(Replies)]
  /\ cstate \in [Clients -> ClientStates]
  /\ pid \in [Clients -> Pids \cup {NoPid}]
  /\ ticket \in [Clients -> Tickets \cup {NoTicket}]
  /\ byhand \in BOOLEAN

Live(c) == cstate[c] \notin {"idle", "gone"}

\* What kill(p, 0) can tell: the pids of the processes that exist.
LivePids == {pid[c] : c \in {d \in Clients : Live(d)}}

ClientInit ==
  /\ up = FALSE
  /\ starts = 0
  /\ queue = <<>>
  /\ inbox = [c \in Clients |-> <<>>]
  /\ cstate = [c \in Clients |-> "idle"]
  /\ pid = [c \in Clients |-> NoPid]
  /\ ticket = [c \in Clients |-> NoTicket]
  /\ byhand = FALSE

-----------------------------------------------------------------------------
(* The sockets *)

\* do_transaction's sendto: it reports success whatever happens to the datagram.
SendRequest(m) ==
  queue' = IF up /\ Len(queue) < QueueCap THEN Append(queue, m) ELSE queue

\* The server's sendto: a client that is gone has no socket to receive it.
Deliver(c, r) ==
  inbox' = IF Live(c) THEN [inbox EXCEPT ![c] = Append(@, r)] ELSE inbox

\* do_transaction's recvfrom returns the first datagram; it blocks for ever
\* when none comes, as no timer is set and nothing is sent again.
Receive(c) ==
  /\ inbox[c] # <<>>
  /\ inbox' = [inbox EXCEPT ![c] = Tail(@)]

Answer(c) == Head(inbox[c])

\* The process ends: exit, return from main, or a signal.
Gone(c) ==
  /\ cstate' = [cstate EXCEPT ![c] = "gone"]
  /\ pid' = [pid EXCEPT ![c] = NoPid]
  /\ ticket' = [ticket EXCEPT ![c] = NoTicket]
  /\ inbox' = [inbox EXCEPT ![c] = <<>>]

-----------------------------------------------------------------------------
(* The client program *)

\* main calls setup and get_ticket, which sends HELO as have_ticket is 0.
GetTicket(c, p) ==
  /\ cstate[c] = "idle"
  /\ p \notin LivePids
  /\ cstate' = [cstate EXCEPT ![c] = "hello"]
  /\ pid' = [pid EXCEPT ![c] = p]
  /\ SendRequest([type |-> "HELO", from |-> c, pid |-> p, slot |-> 0])
  /\ UNCHANGED <<up, starts, inbox, ticket, byhand>>

\* TICK: copy the ticket into ticket_buf, go to do_regular_work.
GotTicket(c) ==
  /\ cstate[c] = "hello"
  /\ Receive(c)
  /\ Answer(c).type = "TICK"
  /\ ticket' = [ticket EXCEPT ![c] = [pid  |-> Answer(c).pid,
                                      slot |-> Answer(c).slot,
                                      ep   |-> Answer(c).ep]]
  /\ cstate' = [cstate EXCEPT ![c] = "work"]
  /\ UNCHANGED <<up, starts, queue, pid, byhand>>

\* Any other reply: get_ticket returns -1 and main exits.
NoTicketForMe(c) ==
  /\ cstate[c] = "hello"
  /\ inbox[c] # <<>>
  /\ Answer(c).type # "TICK"
  /\ Gone(c)
  /\ UNCHANGED <<up, starts, queue, byhand>>

\* The work is done; release_ticket sends GBYE with the text of ticket_buf.
ReleaseTicket(c) ==
  /\ cstate[c] = "work"
  /\ cstate' = [cstate EXCEPT ![c] = "bye"]
  /\ SendRequest([type |-> "GBYE", from |-> c,
                  pid |-> ticket[c].pid, slot |-> ticket[c].slot])
  /\ UNCHANGED <<up, starts, inbox, pid, ticket, byhand>>

\* Whatever the answer says, main closes the socket and returns.
ReleaseReply(c) ==
  /\ cstate[c] = "bye"
  /\ inbox[c] # <<>>
  /\ Gone(c)
  /\ UNCHANGED <<up, starts, queue, byhand>>

\* The version 2 client is not in the repository: while it works it asks the
\* server whether its ticket still stands, and may give up when it does not.
Validate(c) ==
  /\ cstate[c] = "work"
  /\ cstate' = [cstate EXCEPT ![c] = "vald"]
  /\ SendRequest([type |-> "VALD", from |-> c,
                  pid |-> ticket[c].pid, slot |-> ticket[c].slot])
  /\ UNCHANGED <<up, starts, inbox, pid, ticket, byhand>>

ValidateReply(c) ==
  /\ cstate[c] = "vald"
  /\ Receive(c)
  /\ cstate' = [cstate EXCEPT ![c] = "work"]
  /\ UNCHANGED <<up, starts, queue, pid, ticket, byhand>>

ValidateGiveUp(c) ==
  /\ cstate[c] = "vald"
  /\ inbox[c] # <<>>
  /\ Answer(c).type = "FAIL"
  /\ Gone(c)
  /\ UNCHANGED <<up, starts, queue, byhand>>

\* The requests that change the server's table.
ChangesTable(m) == m.type \in {"HELO", "GBYE"}

\* dgsend sends the text of its last argument to the port and exits.
Dgsend(c) ==
  /\ cstate[c] = "idle"
  /\ cstate' = [cstate EXCEPT ![c] = "gone"]
  /\ \E t \in Texts :
       /\ SendRequest([type |-> t.type, from |-> c, pid |-> t.pid, slot |-> t.slot])
       /\ byhand' = (byhand \/ ChangesTable(t))
  /\ UNCHANGED <<up, starts, inbox, pid, ticket>>

\* The user kills the process, or it crashes.
Killed(c) ==
  /\ Live(c)
  /\ Gone(c)
  /\ UNCHANGED <<up, starts, queue, byhand>>

\* lclnt1, dgsend, and the death of either.
ClientNext(c) ==
  \/ \E p \in Pids : GetTicket(c, p)
  \/ GotTicket(c)
  \/ NoTicketForMe(c)
  \/ ReleaseTicket(c)
  \/ ReleaseReply(c)
  \/ Dgsend(c)
  \/ Killed(c)

\* What the version 2 client does besides.
ValidateNext(c) ==
  \/ Validate(c)
  \/ ValidateReply(c)
  \/ ValidateGiveUp(c)

-----------------------------------------------------------------------------
\* The processes that work with a ticket, and those whose ticket was printed
\* by the server process that runs now.
AtWork == {c \in Clients : cstate[c] \in {"work", "vald"}}
Current(c) == up /\ ticket[c].ep = starts

Working == {<<ticket[c].pid, ticket[c].slot>> : c \in {d \in AtWork : Current(d)}}

\* Each server process lets at most MAXUSERS programs run; a server that is
\* started again knows nothing of the tickets of its predecessors.  A GBYE
\* typed by hand may free the slot of a program that works.
WithinLicense == ~byhand => Cardinality(AtWork) <= MAXUSERS * starts

\* VALD and GBYE tell the truth: the server process that printed the ticket
\* accepts it, a later one does not, unless HELO or GBYE is typed by hand.
AnswersTrue ==
  ~byhand => \A c \in Clients :
    cstate[c] \in {"vald", "bye"} /\ inbox[c] # <<>> =>
      Answer(c).type = (IF Answer(c).ep # ticket[c].ep THEN "FAIL"
                        ELSE IF cstate[c] = "vald" THEN "GOOD" ELSE "THNX")
=============================================================================
