------------------------- MODULE LicenseClientProofs -------------------------
(***************************************************************************)
(* What the clients and the sockets preserve, whichever server they talk   *)
(* to, what a server must do for a ticket to keep its meaning, and what    *)
(* follows from that for the table of tickets.  Both servers' proofs build *)
(* on it.                                                                  *)
(***************************************************************************)
EXTENDS LicenseTable, FiniteSetTheorems, SequenceTheorems, TLAPS

USE DEF TICKET_AVAIL, NoPid

\* The type of the clients' state, with what it says more where they live.
ClientInv ==
  /\ ClientTypeOK
  /\ \A c \in Clients : Live(c) => pid[c] \in Pids
  /\ \A c \in Clients :
       cstate[c] \in {"work", "vald", "bye"} => ticket[c] \in Tickets

\* Slot 0 exists, so that a message without a ticket can name it.
LEMMA ZeroSlot == 0 \in Slots /\ Slots \subseteq Nat
  BY ClientAssumption DEF Slots, ClientAssumption

\* The clients and the sockets start within their types.
LEMMA ClientInitInv == ClientInit => ClientInv
<1> SUFFICES ASSUME ClientInit  PROVE ClientInv
  OBVIOUS
<1>1. queue \in Seq(Requests) /\ inbox \in [Clients -> Seq(Replies)]
  BY DEF ClientInit
<1>2. starts \in 0 .. MaxStarts
  BY ClientAssumption DEF ClientInit, ClientAssumption
<1>3. /\ cstate \in [Clients -> ClientStates]
      /\ pid \in [Clients -> Pids \cup {NoPid}]
      /\ ticket \in [Clients -> Tickets \cup {NoTicket}]
  BY DEF ClientInit, ClientStates
<1> QED
  BY <1>1, <1>2, <1>3 DEF ClientInit, ClientInv, ClientTypeOK, Live

\* A sent datagram is queued or lost; either way the queue keeps its type.
LEMMA SendType ==
  ASSUME queue \in Seq(Requests), NEW m \in Requests, SendRequest(m)
  PROVE  queue' \in Seq(Requests)
  BY DEF SendRequest

\* The death of a process forgets all that is its own.
LEMMA GoneInv ==
  ASSUME ClientInv, NEW c \in Clients, Gone(c), UNCHANGED <<up, starts, queue, byhand>>
  PROVE  ClientInv'
  BY DEF ClientInv, ClientTypeOK, ClientStates, Gone, Live

\* What dgsend sends is a datagram like any other.  As long as no HELO or GBYE
\* was typed by hand it leaves the server's table alone.
LEMMA DgsendRequest ==
  ASSUME ClientInv, NEW c \in Clients, Dgsend(c)
  PROVE  \E m \in Requests :
           /\ SendRequest(m)
           /\ m.from = c
           /\ ~byhand' => ~ChangesTable(m)
<1>1. PICK t \in Texts :
        /\ SendRequest([type |-> t.type, from |-> c, pid |-> t.pid, slot |-> t.slot])
        /\ byhand' = (byhand \/ ChangesTable(t))
  BY DEF Dgsend
<1> DEFINE m == [type |-> t.type, from |-> c, pid |-> t.pid, slot |-> t.slot]
<1>2. t \in Requested
  BY <1>1, ClientAssumption DEF ClientAssumption
<1>3. m \in Requests /\ m.from = c
  BY <1>2 DEF Requested, Requests
<1>4. ~byhand' => ~ChangesTable(m)
  BY <1>1 DEF ChangesTable
<1> QED  BY <1>1, <1>3, <1>4

\* What was typed by hand stays typed.
LEMMA ByHandStays ==
  ASSUME ClientInv, NEW c \in Clients, ClientNext(c) \/ ValidateNext(c), ~byhand'
  PROVE  ~byhand
<1>1. CASE Dgsend(c)
  BY <1>1 DEF Dgsend
<1>2. CASE ~Dgsend(c)
  BY <1>2 DEF ClientNext, ValidateNext, GetTicket, GotTicket, NoTicketForMe,
              ReleaseTicket, ReleaseReply, Validate, ValidateReply,
              ValidateGiveUp, Killed
<1> QED  BY <1>1, <1>2

\* No client starts or stops the server.
LEMMA ClientLeavesServer ==
  ASSUME NEW c \in Clients, ClientNext(c) \/ ValidateNext(c)
  PROVE  up' = up /\ starts' = starts
  BY DEF ClientNext, ValidateNext, GetTicket, GotTicket, NoTicketForMe,
         ReleaseTicket, ReleaseReply, Dgsend, Validate, ValidateReply,
         ValidateGiveUp, Killed

\* No step of a client program leaves the types.
LEMMA ClientStepInv ==
  ASSUME ClientInv, NEW c \in Clients, ClientNext(c) \/ ValidateNext(c)
  PROVE  ClientInv'
<1> USE DEF ClientInv, ClientTypeOK, ClientStates, Live
<1>1. ASSUME NEW p \in Pids, GetTicket(c, p)  PROVE ClientInv'
  <2>1. [type |-> "HELO", from |-> c, pid |-> p, slot |-> 0] \in Requests
    BY ZeroSlot DEF Requests, RequestTypes
  <2>2. queue' \in Seq(Requests)
    BY <1>1, <2>1, SendType DEF GetTicket
  <2> QED  BY <1>1, <2>2 DEF GetTicket
<1>2. CASE GotTicket(c)
  <2>1. /\ inbox[c] \in Seq(Replies) /\ inbox[c] # <<>>
        /\ inbox' = [inbox EXCEPT ![c] = Tail(@)]
    BY <1>2 DEF GotTicket, Receive
  <2>2. Answer(c) \in Replies /\ inbox' \in [Clients -> Seq(Replies)]
    BY <2>1 DEF Answer
  <2>3. [pid |-> Answer(c).pid, slot |-> Answer(c).slot, ep |-> Answer(c).ep]
          \in Tickets
    BY <2>2 DEF Replies, Tickets
  <2> QED  BY <1>2, <2>2, <2>3 DEF GotTicket
<1>3. CASE NoTicketForMe(c)  BY <1>3, GoneInv DEF NoTicketForMe
<1>4. ASSUME NEW type \in RequestTypes, ticket[c] \in Tickets,
             SendRequest([type |-> type, from |-> c,
                          pid |-> ticket[c].pid, slot |-> ticket[c].slot])
      PROVE  queue' \in Seq(Requests)
  <2>1. [type |-> type, from |-> c, pid |-> ticket[c].pid,
         slot |-> ticket[c].slot] \in Requests
    BY <1>4 DEF Requests, Tickets
  <2> QED  BY <1>4, <2>1, SendType
<1>5. CASE ReleaseTicket(c)
  <2>1. ticket[c] \in Tickets  BY <1>5 DEF ReleaseTicket
  <2>2. queue' \in Seq(Requests)
    BY <1>4, <1>5, <2>1 DEF ReleaseTicket, RequestTypes
  <2> QED  BY <1>5, <2>1, <2>2 DEF ReleaseTicket
<1>6. CASE ReleaseReply(c)  BY <1>6, GoneInv DEF ReleaseReply
<1>7. CASE Dgsend(c)
  <2>1. queue' \in Seq(Requests)
    BY <1>7, DgsendRequest, SendType
  <2>2. byhand' \in BOOLEAN
    BY <1>7 DEF Dgsend, ChangesTable
  <2> QED  BY <1>7, <2>1, <2>2 DEF Dgsend
<1>8. CASE Killed(c)  BY <1>8, GoneInv DEF Killed
<1>9. CASE Validate(c)
  <2>1. ticket[c] \in Tickets  BY <1>9 DEF Validate
  <2>2. queue' \in Seq(Requests)
    BY <1>4, <1>9, <2>1 DEF Validate, RequestTypes
  <2> QED  BY <1>9, <2>1, <2>2 DEF Validate
<1>10. CASE ValidateReply(c)
  <2>1. inbox' \in [Clients -> Seq(Replies)]
    BY <1>10 DEF ValidateReply, Receive
  <2> QED  BY <1>10, <2>1 DEF ValidateReply
<1>11. CASE ValidateGiveUp(c)  BY <1>11, GoneInv DEF ValidateGiveUp
<1> QED
  BY <1>1, <1>2, <1>3, <1>5, <1>6, <1>7, <1>8, <1>9, <1>10, <1>11
  DEF ClientNext, ValidateNext

\* Nor does the server's sendto, when what it sends is a reply.
LEMMA DeliverType ==
  ASSUME ClientInv, NEW c \in Clients, NEW r \in Replies, Deliver(c, r)
  PROVE  inbox' \in [Clients -> Seq(Replies)]
  BY DEF ClientInv, ClientTypeOK, Deliver

-----------------------------------------------------------------------------
(* Tickets name processes.  A request or a ticket with pid 0 would match a  *)
(* free slot in do_goodbye and be "returned" although nobody holds it: only *)
(* somebody who types it by hand can send one.                              *)

RealRequests == {m \in Requests : ChangesTable(m) => m.pid \in Pids}
RealReplies == {r \in Replies : r.type = "TICK" => r.pid \in Pids}
RealTickets == {t \in Tickets : t.pid \in Pids}

RealNames ==
  /\ queue \in Seq(RealRequests)
  /\ inbox \in [Clients -> Seq(RealReplies)]
  /\ \A c \in Clients :
       cstate[c] \in {"work", "vald", "bye"} => ticket[c] \in RealTickets

\* At the start no message names a pid or a slot yet.
LEMMA ClientInitReal == ClientInit => RealNames
<1> SUFFICES ASSUME ClientInit  PROVE RealNames
  OBVIOUS
<1>1. queue \in Seq(RealRequests) /\ inbox \in [Clients -> Seq(RealReplies)]
  BY DEF ClientInit
<1> QED  BY <1>1 DEF ClientInit, RealNames

\* A datagram with real names is queued or lost like any other.
LEMMA SendReal ==
  ASSUME queue \in Seq(RealRequests), NEW m \in RealRequests, SendRequest(m)
  PROVE  queue' \in Seq(RealRequests)
  BY DEF SendRequest

\* The death of a process leaves the names in the others' messages alone.
LEMMA GoneReal ==
  ASSUME ClientInv, RealNames, NEW c \in Clients, Gone(c), queue' = queue
  PROVE  RealNames'
  BY DEF ClientInv, ClientTypeOK, RealNames, Gone

\* A client asks with its own pid and gives back the ticket it was given.
LEMMA ClientStepReal ==
  ASSUME ClientInv, RealNames, ~byhand', NEW c \in Clients,
         ClientNext(c) \/ ValidateNext(c)
  PROVE  RealNames'
<1> USE DEF RealNames, ClientInv, ClientTypeOK, ClientStates
<1>1. ASSUME NEW p \in Pids, GetTicket(c, p)  PROVE RealNames'
  <2>1. [type |-> "HELO", from |-> c, pid |-> p, slot |-> 0] \in RealRequests
    BY ZeroSlot DEF Requests, RequestTypes, RealRequests
  <2>2. queue' \in Seq(RealRequests)
    BY <1>1, <2>1, SendReal DEF GetTicket
  <2> QED  BY <1>1, <2>2 DEF GetTicket
<1>2. CASE GotTicket(c)
  <2>1. /\ inbox[c] \in Seq(RealReplies) /\ inbox[c] # <<>>
        /\ inbox' = [inbox EXCEPT ![c] = Tail(@)]
    BY <1>2 DEF GotTicket, Receive
  <2>2. Answer(c) \in RealReplies /\ inbox' \in [Clients -> Seq(RealReplies)]
    BY <2>1 DEF Answer
  <2>3. [pid |-> Answer(c).pid, slot |-> Answer(c).slot, ep |-> Answer(c).ep]
          \in RealTickets
    BY <1>2, <2>2 DEF GotTicket, RealReplies, Replies, Tickets, RealTickets
  <2> QED  BY <1>2, <2>2, <2>3 DEF GotTicket
<1>3. CASE NoTicketForMe(c)  BY <1>3, GoneReal DEF NoTicketForMe
<1>4. ASSUME NEW type \in RequestTypes, ticket[c] \in RealTickets,
             SendRequest([type |-> type, from |-> c,
                          pid |-> ticket[c].pid, slot |-> ticket[c].slot])
      PROVE  queue' \in Seq(RealRequests)
  <2>1. [type |-> type, from |-> c, pid |-> ticket[c].pid,
         slot |-> ticket[c].slot] \in RealRequests
    BY <1>4 DEF Requests, Tickets, RealTickets, RealRequests
  <2> QED  BY <1>4, <2>1, SendReal
<1>5. CASE ReleaseTicket(c)
  <2>1. ticket[c] \in RealTickets  BY <1>5 DEF ReleaseTicket
  <2>2. queue' \in Seq(RealRequests)
    BY <1>4, <1>5, <2>1 DEF ReleaseTicket, RequestTypes
  <2> QED  BY <1>5, <2>1, <2>2 DEF ReleaseTicket
<1>6. CASE ReleaseReply(c)  BY <1>6, GoneReal DEF ReleaseReply
<1>7. CASE Dgsend(c)
  <2>1. PICK m \in RealRequests : SendRequest(m)
    BY <1>7, DgsendRequest DEF RealRequests
  <2>2. queue' \in Seq(RealRequests)
    BY <2>1, SendReal
  <2> QED  BY <1>7, <2>2 DEF Dgsend
<1>8. CASE Killed(c)  BY <1>8, GoneReal DEF Killed
<1>9. CASE Validate(c)
  <2>1. ticket[c] \in RealTickets  BY <1>9 DEF Validate
  <2>2. queue' \in Seq(RealRequests)
    BY <1>4, <1>9, <2>1 DEF Validate, RequestTypes
  <2> QED  BY <1>9, <2>1, <2>2 DEF Validate
<1>10. CASE ValidateReply(c)
  <2>1. inbox' \in [Clients -> Seq(RealReplies)]
    BY <1>10 DEF ValidateReply, Receive
  <2> QED  BY <1>10, <2>1 DEF ValidateReply
<1>11. CASE ValidateGiveUp(c)  BY <1>11, GoneReal DEF ValidateGiveUp
<1> QED
  BY <1>1, <1>2, <1>3, <1>5, <1>6, <1>7, <1>8, <1>9, <1>10, <1>11
  DEF ClientNext, ValidateNext

\* An answer with real names leaves every socket with such answers only.
LEMMA DeliverReal ==
  ASSUME RealNames, NEW c \in Clients, NEW r \in RealReplies, Deliver(c, r)
  PROVE  inbox' \in [Clients -> Seq(RealReplies)]
  BY DEF RealNames, Deliver

-----------------------------------------------------------------------------
(* The line from a client to the server and back.                           *)
(*                                                                          *)
(* Pids are used again, so a request can be older than the process that has *)
(* its pid now.  What saves the new process is the order of the line: who   *)
(* has been answered knows that nothing of his predecessors is left in it.  *)

BufOK == buf \in Requests \cup {NoRequest}

\* The server is busy with a request of c.
InHand(c) == buf # NoRequest /\ buf.from = c

\* c has asked for a ticket and has no answer.
Waiting(c) == cstate[c] = "hello" /\ inbox[c] = <<>>

\* A client has at most one request under way, ...
OneAtATime ==
  /\ \A i, j \in 1 .. Len(queue) : queue[i].from = queue[j].from => i = j
  /\ \A i \in 1 .. Len(queue) : ~InHand(queue[i].from)

\* ... which is the one its state says, and no answer to it yet.
OwnRequest(m) ==
  /\ cstate[m.from] \notin {"idle", "work"}
  /\ inbox[m.from] = <<>>
  /\ cstate[m.from] = "hello" => m.type = "HELO" /\ m.pid = pid[m.from]
  /\ cstate[m.from] \in {"vald", "bye"} =>
       /\ m.type = (IF cstate[m.from] = "bye" THEN "GBYE" ELSE "VALD")
       /\ m.pid = pid[m.from]
       /\ m.slot = ticket[m.from].slot

OwnRequests ==
  /\ buf # NoRequest => OwnRequest(buf)
  /\ \A i \in 1 .. Len(queue) : OwnRequest(queue[i])

OneAnswer ==
  \A c \in Clients :
    /\ Len(inbox[c]) <= 1
    /\ cstate[c] \in {"idle", "work", "gone"} => inbox[c] = <<>>

DistinctPids ==
  \A c, d \in Clients : Live(c) /\ Live(d) /\ pid[c] = pid[d] => c = d

\* m would change the table for the process that has the pid of c.
Concerns(m, c) == ChangesTable(m) /\ m.pid = pid[c]

\* The requests of dead processes with the pid of c come before its HELO, or
\* its HELO was lost and nobody will answer c.
OldRequests ==
  \A c \in Clients : Live(c) =>
    /\ buf # NoRequest /\ Concerns(buf, c) => InHand(c) \/ Waiting(c)
    /\ \A i \in 1 .. Len(queue) :
         Concerns(queue[i], c) /\ queue[i].from # c =>
           /\ Waiting(c) /\ ~InHand(c)
           /\ \A j \in 1 .. i : queue[j].from # c

LineInv == OneAtATime /\ OwnRequests /\ OneAnswer /\ DistinctPids /\ OldRequests

\* c has a ticket, read or not.
Granted(c) ==
  \/ cstate[c] \in {"work", "vald", "bye"}
  \/ cstate[c] = "hello" /\ inbox[c] # <<>> /\ Answer(c).type = "TICK"
Given(c) == IF cstate[c] = "hello" THEN Answer(c) ELSE ticket[c]

\* The server has begun to handle its GBYE.
GivenBack(c) == cstate[c] = "bye" /\ (inbox[c] # <<>> \/ InHand(c))

\* A ticket of the running server process is in its table.  For a ticket of
\* an earlier one the table has no slot that could be mistaken for it.
OnTheBooks(c) ==
  IF up /\ Given(c).ep = starts
  THEN ticket_array[Given(c).slot] = pid[c]
  ELSE \A s \in Slots : ticket_array[s] # pid[c]

TicketInv ==
  \A c \in Clients : Granted(c) =>
    /\ Given(c).pid = pid[c]
    /\ Given(c).slot \in Slots
    /\ Given(c).ep \in 1 .. starts
    /\ ~GivenBack(c) => OnTheBooks(c)

\* No server process has printed the same slot on the tickets of two clients
\* that have not given them back.
Holder(c) == Granted(c) /\ cstate[c] # "bye"
OneHolder ==
  \A c, d \in Clients :
    /\ Holder(c) /\ Holder(d)
    /\ Given(c).slot = Given(d).slot /\ Given(c).ep = Given(d).ep
    => c = d

\* The first server process is number 1; without one there is no table.
LifeInv == IF up THEN starts >= 1 ELSE ticket_array = FreeTable

\* All of it, for the lemmas below.
ServiceInv ==
  /\ ClientInv /\ RealNames /\ BufOK /\ LifeInv
  /\ LineInv /\ TicketInv /\ OneHolder /\ AnswersTrue

\* At the start there are no processes and nothing is under way.
LEMMA ServiceInit ==
  ASSUME ClientInit, buf = NoRequest, ticket_array = FreeTable
  PROVE  ServiceInv
<1>1. ClientInv /\ RealNames /\ BufOK /\ LifeInv
  BY ClientInitInv, ClientInitReal DEF BufOK, LifeInv, ClientInit
<1>2. LineInv
  BY DEF ClientInit, LineInv, OneAtATime, OwnRequests, OneAnswer, DistinctPids,
         OldRequests, Live
<1>3. TicketInv /\ OneHolder /\ AnswersTrue
  BY DEF ClientInit, TicketInv, OneHolder, Holder, Granted, AnswersTrue
<1> QED  BY <1>1, <1>2, <1>3 DEF ServiceInv

\* What SendRequest does to the line: nothing before the new datagram changes.
LEMMA SendPlaces ==
  ASSUME queue \in Seq(Requests), NEW m \in Requests, SendRequest(m)
  PROVE  /\ queue' \in Seq(Requests)
         /\ Len(queue) \in Nat /\ Len(queue') \in Nat
         /\ Len(queue') <= Len(queue) + 1
         /\ \A i \in 1 .. Len(queue') :
              \/ i \in 1 .. Len(queue) /\ queue'[i] = queue[i]
              \/ i = Len(queue) + 1 /\ queue'[i] = m
  BY DEF SendRequest

\* A client that sends has nothing under way, and names its own pid.
LEMMA SendLine ==
  ASSUME ServiceInv, ~byhand', NEW c \in Clients, buf' = buf,
         \/ \E p \in Pids : GetTicket(c, p)
         \/ ReleaseTicket(c) \/ Validate(c) \/ Dgsend(c)
  PROVE  LineInv'
<1> USE DEF ServiceInv, ClientInv, ClientTypeOK, ClientStates, Live
<1>1. PICK m \in Requests :
        /\ SendRequest(m)
        /\ m.from = c
        /\ ChangesTable(m) => m.pid = pid'[c] /\ Live(c)'
        /\ OwnRequest(m)'
        /\ m.type = "HELO" <=> cstate'[c] = "hello"
  <2>1. ASSUME NEW p \in Pids, GetTicket(c, p)
        PROVE  LET m == [type |-> "HELO", from |-> c, pid |-> p, slot |-> 0]
               IN  m \in Requests /\ m.pid = pid'[c] /\ OwnRequest(m)'
    <3>1. inbox[c] = <<>>  BY <2>1 DEF GetTicket, LineInv, OneAnswer
    <3> QED
      BY <2>1, <3>1, ZeroSlot
      DEF GetTicket, OwnRequest, Requests, RequestTypes
  <2>2. ASSUME NEW t \in {"GBYE", "VALD"}, cstate[c] = "work",
               cstate' = [cstate EXCEPT
                            ![c] = IF t = "GBYE" THEN "bye" ELSE "vald"],
               UNCHANGED <<inbox, pid, ticket>>
        PROVE  LET m == [type |-> t, from |-> c,
                         pid |-> ticket[c].pid, slot |-> ticket[c].slot]
               IN  m \in Requests /\ m.pid = pid'[c] /\ OwnRequest(m)'
    <3>1. inbox[c] = <<>>  BY <2>2 DEF LineInv, OneAnswer
    <3>2. ticket[c].pid = pid[c] /\ ticket[c] \in Tickets
      BY <2>2 DEF TicketInv, Granted, Given
    <3> QED
      BY <2>2, <3>1, <3>2
      DEF OwnRequest, Requests, RequestTypes, Tickets
  <2>3. ASSUME Dgsend(c), NEW m \in Requests, m.from = c
        PROVE  OwnRequest(m)' /\ cstate'[c] = "gone"
    <3>1. inbox[c] = <<>>  BY <2>3 DEF Dgsend, LineInv, OneAnswer
    <3> QED  BY <2>3, <3>1 DEF Dgsend, OwnRequest
  <2>4. CASE \E p \in Pids : GetTicket(c, p)
    BY ZenonT(30), <2>1, <2>4 DEF GetTicket
  <2>5. CASE ReleaseTicket(c)
    BY <2>2, <2>5 DEF ReleaseTicket
  <2>6. CASE Validate(c)
    BY <2>2, <2>6 DEF Validate
  <2>7. CASE Dgsend(c)
    <3>1. PICK m \in Requests : SendRequest(m) /\ m.from = c /\ ~ChangesTable(m)
      BY <2>7, DgsendRequest
    <3>2. OwnRequest(m)' /\ cstate'[c] = "gone" /\ m.type # "HELO"
      BY <2>3, <2>7, <3>1 DEF ChangesTable
    <3> QED  BY <3>1, <3>2
  <2> QED  BY <2>4, <2>5, <2>6, <2>7
<1>2. /\ inbox' = inbox
      /\ cstate[c] \in {"idle", "work"} /\ cstate'[c] \notin {"idle", "work"}
      /\ \A d \in Clients \ {c} :
           cstate'[d] = cstate[d] /\ pid'[d] = pid[d] /\ ticket'[d] = ticket[d]
      /\ \A d \in Clients \ {c} : Live(c)' /\ Live(d) => pid'[c] # pid[d]
      /\ cstate[c] = "work" => cstate'[c] \in {"vald", "bye"} /\ pid'[c] = pid[c]
      /\ cstate[c] = "idle" => cstate'[c] \in {"hello", "gone"}
  <2>1. CASE \E p \in Pids : GetTicket(c, p)
    BY <2>1 DEF GetTicket, LivePids
  <2>2. CASE ReleaseTicket(c) \/ Validate(c)
    <3>1. Live(c) /\ pid' = pid
      BY <2>2 DEF ReleaseTicket, Validate, Live
    <3>2. \A d \in Clients \ {c} : Live(d) => pid'[c] # pid[d]
      BY <3>1 DEF LineInv, DistinctPids
    <3> QED  BY <2>2, <3>2 DEF ReleaseTicket, Validate
  <2>3. CASE Dgsend(c)
    BY <2>3 DEF Dgsend, Live
  <2> QED  BY <2>1, <2>2, <2>3
<1> DEFINE L == Len(queue)
<1>3. /\ queue' \in Seq(Requests) /\ L \in Nat /\ Len(queue') \in Nat
      /\ Len(queue') <= L + 1
      /\ \A i \in 1 .. Len(queue') :
           \/ i \in 1 .. L /\ queue'[i] = queue[i]
           \/ i = L + 1 /\ queue'[i] = m
  BY <1>1, SendPlaces
<1>4. \A r \in Requests : r.from = c => ~OwnRequest(r)
  BY <1>2 DEF OwnRequest
<1>5. /\ buf # NoRequest => buf.from # c
      /\ \A i \in 1 .. L : queue[i].from # c
  BY <1>4 DEF LineInv, OwnRequests, BufOK
<1>6. OneAtATime'
  BY <1>1, <1>3, <1>5 DEF LineInv, OneAtATime, InHand
<1>7. OwnRequests'
  <2>1. ASSUME NEW r \in Requests, OwnRequest(r), r.from # c
        PROVE  OwnRequest(r)'
    <3>1. r.from \in Clients \ {c}  BY <2>1 DEF Requests
    <3> QED  BY <1>2, <2>1, <3>1 DEF OwnRequest
  <2>2. buf' # NoRequest => OwnRequest(buf)'
    BY <1>5, <2>1 DEF LineInv, OwnRequests, BufOK, OwnRequest
  <2>3. ASSUME NEW i \in 1 .. Len(queue')
        PROVE  OwnRequest(queue[i])'
    <3>1. CASE i \in 1 .. L /\ queue'[i] = queue[i]
      <4>1. queue[i] \in Requests /\ queue'[i] = queue[i] /\ queue[i].from # c
        BY <1>3, <1>5, <3>1
      <4>2. OwnRequest(queue[i])
        BY <1>3, <3>1 DEF LineInv, OwnRequests
      <4> QED  BY <2>1, <4>1, <4>2 DEF OwnRequest
    <3>2. CASE i = L + 1 /\ queue'[i] = m
      BY <1>1, <1>3, <3>2 DEF OwnRequest
    <3> QED  BY <1>3, <3>1, <3>2
  <2> QED  BY <2>2, <2>3 DEF OwnRequests
<1>8. OneAnswer'
  BY <1>2 DEF LineInv, OneAnswer
<1>9. DistinctPids'
  BY ZenonT(30), <1>2 DEF LineInv, DistinctPids
<1>10. OldRequests'
  <2> SUFFICES ASSUME NEW d \in Clients, Live(d)'
               PROVE  /\ buf # NoRequest /\ ChangesTable(buf) /\ buf.pid = pid'[d] =>
                           InHand(d) \/ Waiting(d)'
                      /\ \A i \in 1 .. Len(queue') :
                           /\ ChangesTable(queue'[i]) /\ queue'[i].pid = pid'[d]
                           /\ queue'[i].from # d
                           => /\ Waiting(d)' /\ ~InHand(d)
                              /\ \A j \in 1 .. i : queue'[j].from # d
    BY DEF OldRequests, InHand, Concerns, ChangesTable
  <2>1. CASE d # c
    <3>1. Live(d) /\ pid'[d] = pid[d] /\ (Waiting(d) => Waiting(d)')
      BY <1>2, <2>1 DEF Waiting
    <3>2. pid[d] \in Pids
      BY <3>1
    <3>3. ~(ChangesTable(m) /\ m.pid = pid[d])
      BY <1>1, <1>2, <2>1, <3>1
    <3>4. /\ buf # NoRequest /\ Concerns(buf, d) => InHand(d) \/ Waiting(d)
          /\ \A i \in 1 .. L :
               Concerns(queue[i], d) /\ queue[i].from # d =>
                 /\ Waiting(d) /\ ~InHand(d)
                 /\ \A j \in 1 .. i : queue[j].from # d
      BY <3>1 DEF LineInv, OldRequests
    <3>5. ASSUME NEW i \in 1 .. Len(queue'), ChangesTable(queue'[i]),
                 queue'[i].pid = pid[d], queue'[i].from # d
          PROVE  i \in 1 .. L /\ \A j \in 1 .. i : queue'[j] = queue[j]
      <4>1. queue'[i] # m  BY <3>3, <3>5
      <4>2. i \in 1 .. L  BY <1>3, <4>1
      <4>3. \A j \in 1 .. i : j \in 1 .. Len(queue') /\ j # L + 1
        BY <1>3, <4>2
      <4> QED  BY <1>3, <4>2, <4>3
    <3>6. ASSUME NEW i \in 1 .. Len(queue'), ChangesTable(queue'[i]),
                 queue'[i].pid = pid[d], queue'[i].from # d
          PROVE  /\ Waiting(d)' /\ ~InHand(d)
                 /\ \A j \in 1 .. i : queue'[j].from # d
      <4>1. i \in 1 .. L /\ \A j \in 1 .. i : queue'[j] = queue[j]
        BY <3>5, <3>6
      <4>2. Concerns(queue[i], d) /\ queue[i].from # d
        BY <3>6, <4>1 DEF Concerns
      <4> QED  BY <3>1, <3>4, <4>1, <4>2
    <3> QED  BY <3>1, <3>4, <3>6 DEF Concerns
  <2>2. CASE d = c /\ cstate[c] = "work"
    <3>1. Live(c) /\ pid'[c] = pid[c] /\ ~Waiting(c)
      BY <1>2, <2>2 DEF Waiting
    <3>2. /\ buf # NoRequest /\ ChangesTable(buf) /\ buf.pid = pid[c] => InHand(c)
          /\ \A i \in 1 .. L :
               ChangesTable(queue[i]) /\ queue[i].pid = pid[c] => queue[i].from = c
      BY <3>1 DEF LineInv, OldRequests, Concerns
    <3>3. \A i \in 1 .. Len(queue') :
            ChangesTable(queue'[i]) /\ queue'[i].pid = pid[c] => queue'[i].from = c
      BY <1>1, <1>3, <3>2
    <3> QED  BY <2>2, <3>1, <3>2, <3>3
  <2>3. CASE d = c /\ cstate[c] = "idle"
    <3>1. Waiting(c)'
      BY <1>2, <2>3 DEF Waiting, LineInv, OneAnswer
    <3>2. ~InHand(c)
      BY <1>5 DEF InHand
    <3>3. ASSUME NEW i \in 1 .. Len(queue'), queue'[i].from # c
          PROVE  \A j \in 1 .. i : queue'[j].from # c
      <4>1. m.from = c  BY <1>1
      <4>2. i \in 1 .. L  BY <1>3, <3>3, <4>1
      <4>3. \A j \in 1 .. i : j \in 1 .. L /\ j \in 1 .. Len(queue') /\ j # L + 1
        BY <1>3, <4>2
      <4> QED  BY <1>3, <1>5, <4>3
    <3> QED  BY <2>3, <3>1, <3>2, <3>3
  <2> QED  BY <1>2, <2>1, <2>2, <2>3
<1> QED  BY <1>6, <1>7, <1>8, <1>9, <1>10 DEF LineInv

\* Who has an answer has no request under way.
LEMMA AnsweredLine ==
  ASSUME ServiceInv, NEW c \in Clients, inbox[c] # <<>>
  PROVE  /\ Tail(inbox[c]) = <<>>
         /\ ~InHand(c)
         /\ \A i \in 1 .. Len(queue) : queue[i].from # c
<1>1. inbox[c] \in Seq(Replies) /\ Len(inbox[c]) <= 1
  BY DEF ServiceInv, ClientInv, ClientTypeOK, LineInv, OneAnswer
<1>2. Tail(inbox[c]) = <<>>
  <2>1. Len(inbox[c]) \in Nat \ {0}
    BY <1>1, EmptySeq
  <2>2. Tail(inbox[c]) \in Seq(Replies) /\ Len(Tail(inbox[c])) = Len(inbox[c]) - 1
    BY <1>1, HeadTailProperties
  <2> QED  BY <1>1, <2>1, <2>2, EmptySeq
<1> QED
  BY <1>2 DEF ServiceInv, LineInv, OwnRequests, OwnRequest, InHand

\* A client that reads its answer and goes on to work.
LEMMA ReceiveLine ==
  ASSUME ServiceInv, NEW c \in Clients, buf' = buf,
         GotTicket(c) \/ ValidateReply(c)
  PROVE  LineInv'
<1> USE DEF ServiceInv, ClientInv, ClientTypeOK, ClientStates, Live
<1>1. /\ inbox[c] # <<>> /\ inbox' = [inbox EXCEPT ![c] = Tail(@)]
      /\ cstate[c] \in {"hello", "vald"}
      /\ cstate' = [cstate EXCEPT ![c] = "work"]
      /\ queue' = queue /\ pid' = pid
      /\ \A d \in Clients \ {c} : ticket'[d] = ticket[d]
  BY DEF GotTicket, ValidateReply, Receive
<1>2. /\ inbox'[c] = <<>> /\ ~InHand(c) /\ ~Waiting(c)
      /\ \A i \in 1 .. Len(queue) : queue[i].from # c
  BY <1>1, AnsweredLine DEF Waiting
<1>3. OneAtATime' /\ DistinctPids'
  BY <1>1 DEF LineInv, OneAtATime, DistinctPids, InHand
<1>4. OwnRequests'
  <2>1. ASSUME NEW r \in Requests, OwnRequest(r), r.from # c
        PROVE  OwnRequest(r)'
    BY <1>1, <2>1 DEF OwnRequest, Requests
  <2>2. buf # NoRequest => OwnRequest(buf)'
    BY <1>2, <2>1 DEF LineInv, OwnRequests, BufOK, OwnRequest, InHand
  <2>3. ASSUME NEW i \in 1 .. Len(queue)  PROVE OwnRequest(queue[i])'
    <3>1. queue[i] \in Requests /\ queue[i].from # c /\ OwnRequest(queue[i])
      BY <1>2 DEF LineInv, OwnRequests
    <3> QED  BY <1>1, <2>1, <3>1 DEF OwnRequest
  <2> QED  BY <1>1, <2>2, <2>3 DEF OwnRequests
<1>5. OneAnswer'
  BY <1>1, <1>2 DEF LineInv, OneAnswer
<1>6. OldRequests'
  <2>1. \A d \in Clients : Live(d)' => Live(d)
    BY <1>1
  <2>2. \A d \in Clients : Waiting(d) => Waiting(d)'
    BY <1>1, <1>2 DEF Waiting
  <2> QED  BY <1>1, <2>1, <2>2 DEF LineInv, OldRequests, InHand, Concerns
<1> QED  BY <1>3, <1>4, <1>5, <1>6 DEF LineInv

\* A process that ends leaves its request behind, which now is an old one.
LEMMA GoneLine ==
  ASSUME ServiceInv, NEW c \in Clients, Gone(c), UNCHANGED <<queue, buf>>
  PROVE  LineInv'
<1> USE DEF ServiceInv, ClientInv, ClientTypeOK, ClientStates, Live, Gone
<1>1. OneAtATime' /\ DistinctPids' /\ OneAnswer'
  BY DEF LineInv, OneAtATime, DistinctPids, OneAnswer, InHand
<1>2. OwnRequests'
  <2>1. ASSUME NEW r \in Requests, OwnRequest(r)
        PROVE  OwnRequest(r)'
    BY <2>1 DEF OwnRequest, Requests
  <2>2. buf # NoRequest => OwnRequest(buf)'
    BY <2>1 DEF LineInv, OwnRequests, BufOK, OwnRequest
  <2>3. ASSUME NEW i \in 1 .. Len(queue)  PROVE OwnRequest(queue[i])'
    <3>1. queue[i] \in Requests /\ OwnRequest(queue[i])
      BY DEF LineInv, OwnRequests
    <3> QED  BY <2>1, <3>1 DEF OwnRequest
  <2> QED  BY <2>2, <2>3 DEF OwnRequests
<1>3. OldRequests'
  <2>1. \A d \in Clients : Live(d)' => Live(d) /\ d # c /\ pid'[d] = pid[d]
    OBVIOUS
  <2>2. \A d \in Clients \ {c} : Waiting(d) => Waiting(d)'
    BY DEF Waiting
  <2> QED  BY <2>1, <2>2 DEF LineInv, OldRequests, InHand, Concerns
<1> QED  BY <1>1, <1>2, <1>3 DEF LineInv

\* The steps of a client, by what they do to the line.
LEMMA ClientKinds ==
  ASSUME NEW c \in Clients, ClientNext(c) \/ ValidateNext(c)
  PROVE  \/ \/ \E p \in Pids : GetTicket(c, p)
            \/ ReleaseTicket(c) \/ Validate(c) \/ Dgsend(c)
         \/ GotTicket(c) \/ ValidateReply(c)
         \/ Gone(c) /\ UNCHANGED <<up, starts, queue>>
  BY DEF ClientNext, ValidateNext, NoTicketForMe, ReleaseReply, ValidateGiveUp,
         Killed

\* Every step of a client keeps the line in order.
LEMMA ClientLine ==
  ASSUME ServiceInv, ~byhand', NEW c \in Clients, buf' = buf,
         ClientNext(c) \/ ValidateNext(c)
  PROVE  LineInv'
  BY ClientKinds, SendLine, ReceiveLine, GoneLine

\* The tickets of the clients and the table they do not touch.
LEMMA ClientTickets ==
  ASSUME ServiceInv, ~byhand', NEW c \in Clients, UNCHANGED <<buf, ticket_array>>,
         ClientNext(c) \/ ValidateNext(c)
  PROVE  TicketInv' /\ OneHolder' /\ AnswersTrue'
<1> USE DEF ServiceInv, ClientInv, ClientTypeOK, ClientStates, Live
<1>1. /\ up' = up /\ starts' = starts
      /\ \A d \in Clients \ {c} :
           /\ cstate'[d] = cstate[d] /\ pid'[d] = pid[d]
           /\ ticket'[d] = ticket[d] /\ inbox'[d] = inbox[d]
  <2>1. CASE \E p \in Pids : GetTicket(c, p)
    BY <2>1 DEF GetTicket
  <2>2. CASE ReleaseTicket(c) \/ Validate(c) \/ Dgsend(c)
    BY <2>2 DEF ReleaseTicket, Validate, Dgsend
  <2>3. CASE GotTicket(c) \/ ValidateReply(c)
    BY <2>3 DEF GotTicket, ValidateReply, Receive
  <2>4. CASE Gone(c) /\ UNCHANGED <<up, starts, queue>>
    BY <2>4 DEF Gone
  <2> QED  BY <2>1, <2>2, <2>3, <2>4, ClientKinds
<1>2. \A d \in Clients \ {c} :
        /\ Granted(d)' = Granted(d) /\ Given(d)' = Given(d)
        /\ GivenBack(d)' = GivenBack(d) /\ OnTheBooks(d)' = OnTheBooks(d)
        /\ Holder(d)' = Holder(d)
  BY ZenonT(30), <1>1 DEF Granted, Given, GivenBack, OnTheBooks, Holder, Answer, InHand
<1>3. /\ Granted(c)' =>
           /\ Granted(c) /\ cstate[c] # "bye" /\ pid'[c] = pid[c]
           /\ Given(c)'.pid = Given(c).pid
           /\ Given(c)'.slot = Given(c).slot
           /\ Given(c)'.ep = Given(c).ep
      /\ cstate'[c] \in {"vald", "bye"} => inbox'[c] = <<>>
  <2>1. CASE \E p \in Pids : GetTicket(c, p)
    BY <2>1 DEF GetTicket, Granted, LineInv, OneAnswer
  <2>2. CASE ReleaseTicket(c) \/ Validate(c)
    BY <2>2 DEF ReleaseTicket, Validate, Granted, Given, LineInv, OneAnswer
  <2>3. CASE Dgsend(c)
    BY <2>3 DEF Dgsend, Granted
  <2>4. CASE GotTicket(c)
    BY <2>4 DEF GotTicket, Granted, Given, Receive, Answer
  <2>5. CASE ValidateReply(c)
    BY <2>5 DEF ValidateReply, Granted, Given
  <2>6. CASE Gone(c)
    BY <2>6 DEF Gone, Granted
  <2> QED  BY <2>1, <2>2, <2>3, <2>4, <2>5, <2>6, ClientKinds
<1>4. Granted(c)' => (OnTheBooks(c) => OnTheBooks(c)') /\ ~GivenBack(c)
  BY <1>1, <1>3 DEF OnTheBooks, GivenBack
<1>5. TicketInv'
  BY ZenonT(30), <1>1, <1>2, <1>3, <1>4 DEF TicketInv
<1>6. OneHolder'
  <2>1. \A d \in Clients : Holder(d)' =>
          /\ Holder(d)
          /\ Given(d)'.slot = Given(d).slot /\ Given(d)'.ep = Given(d).ep
    <3>1. Holder(c)' => Holder(c)  BY <1>3 DEF Holder
    <3> QED  BY <1>2, <1>3, <3>1 DEF Holder
  <2> QED  BY <2>1 DEF OneHolder
<1>7. AnswersTrue'
  <2>1. ~byhand
    BY ByHandStays
  <2> QED  BY <1>1, <1>3, <2>1 DEF AnswersTrue, Answer
<1> QED  BY <1>5, <1>6, <1>7

\* While the server is busy with a request of a client, that does nothing: it
\* waits for the answer, or it is killed.
LEMMA AskerWaits ==
  ASSUME ServiceInv, NEW c \in Clients, ClientNext(c) \/ ValidateNext(c)
  PROVE  /\ up' = up /\ starts' = starts
         /\ \A d \in Clients : InHand(d) /\ Live(d)' =>
              /\ Live(d)
              /\ cstate'[d] = cstate[d] /\ pid'[d] = pid[d]
              /\ ticket'[d] = ticket[d] /\ inbox'[d] = inbox[d]
<1> USE DEF ServiceInv, ClientInv, ClientTypeOK
<1>1. InHand(c) => cstate[c] \notin {"idle", "work"} /\ inbox[c] = <<>>
  BY DEF InHand, LineInv, OwnRequests, OwnRequest
<1>2. CASE \E p \in Pids : GetTicket(c, p)
  BY <1>1, <1>2 DEF GetTicket, Live
<1>3. CASE ReleaseTicket(c) \/ Validate(c) \/ Dgsend(c)
  BY <1>1, <1>3 DEF ReleaseTicket, Validate, Dgsend, Live
<1>4. CASE GotTicket(c) \/ ValidateReply(c)
  BY <1>1, <1>4 DEF GotTicket, ValidateReply, Receive, Live
<1>5. CASE Gone(c) /\ UNCHANGED <<up, starts, queue>>
  BY <1>5 DEF Gone, Live
<1> QED  BY <1>2, <1>3, <1>4, <1>5, ClientKinds

-----------------------------------------------------------------------------
(* What a step of the server does to the line.                              *)

\* Nothing of it changes.
LEMMA ServiceStutter ==
  ASSUME ServiceInv, UNCHANGED <<netvars, clientvars, ticket_array, buf>>
  PROVE  ServiceInv'
<1> USE DEF ServiceInv, netvars, clientvars
<1>1. ClientInv' /\ RealNames' /\ BufOK' /\ LifeInv'
  BY DEF ClientInv, ClientTypeOK, Live, RealNames, BufOK, LifeInv
<1>2. LineInv'
  BY DEF LineInv, OneAtATime, OwnRequests, OwnRequest, OneAnswer,
         DistinctPids, OldRequests, InHand, Waiting, Live, Concerns
<1>3. TicketInv' /\ OneHolder' /\ AnswersTrue'
  BY DEF TicketInv, OneHolder, AnswersTrue, Granted, Given, GivenBack,
         OnTheBooks, Holder, Answer, InHand
<1> QED  BY <1>1, <1>2, <1>3

\* The next datagram is taken out of the socket.
LEMMA ServiceReceive ==
  ASSUME ServiceInv, buf = NoRequest, queue # <<>>,
         buf' = Head(queue), queue' = Tail(queue),
         UNCHANGED <<up, starts, inbox, clientvars, ticket_array>>
  PROVE  ServiceInv'
<1> USE DEF ServiceInv, clientvars
<1>1. /\ buf' \in RealRequests /\ queue' \in Seq(RealRequests)
      /\ Len(queue) \in Nat \ {0} /\ Len(queue') = Len(queue) - 1
      /\ buf' = queue[1]
      /\ \A i \in 1 .. Len(queue') : queue'[i] = queue[i + 1]
                                     /\ i + 1 \in 1 .. Len(queue)
  BY EmptySeq, HeadTailProperties DEF RealNames
<1>2. RealRequests \subseteq Requests /\ NoRequest \notin Requests
  BY DEF RealRequests, Requests, NoRequest
<1>3. ClientInv' /\ RealNames' /\ BufOK' /\ LifeInv'
  BY <1>1, <1>2
  DEF ClientInv, ClientTypeOK, Live, RealNames, BufOK, LifeInv
<1>4. OneAtATime'
  BY <1>1 DEF LineInv, OneAtATime, InHand
<1>5. OwnRequests'
  BY <1>1 DEF LineInv, OwnRequests, OwnRequest
<1>6. OneAnswer' /\ DistinctPids'
  BY DEF LineInv, OneAnswer, DistinctPids, Live
<1>7. OldRequests'
  <2> SUFFICES ASSUME NEW d \in Clients, Live(d)
               PROVE  /\ Concerns(buf', d) => InHand(d)' \/ Waiting(d)
                      /\ \A i \in 1 .. Len(queue') :
                           Concerns(queue'[i], d) /\ queue'[i].from # d =>
                             /\ Waiting(d) /\ ~InHand(d)'
                             /\ \A j \in 1 .. i : queue'[j].from # d
    BY DEF OldRequests, Live, Waiting, Concerns
  <2>1. \A i \in 1 .. Len(queue) :
          Concerns(queue[i], d) /\ queue[i].from # d =>
            /\ Waiting(d) /\ \A j \in 1 .. i : queue[j].from # d
    BY DEF LineInv, OldRequests
  <2>2. InHand(d)' <=> queue[1].from = d
    BY <1>1, <1>2 DEF InHand
  <2>3. ASSUME NEW i \in 1 .. Len(queue'),
               Concerns(queue'[i], d), queue'[i].from # d
        PROVE  /\ Waiting(d) /\ ~InHand(d)'
               /\ \A j \in 1 .. i : queue'[j].from # d
    <3>1. /\ i + 1 \in 1 .. Len(queue)
          /\ Concerns(queue[i + 1], d) /\ queue[i + 1].from # d
      BY <1>1, <2>3
    <3>2. Waiting(d) /\ \A j \in 1 .. i + 1 : queue[j].from # d
      BY <2>1, <3>1
    <3> QED  BY <1>1, <2>2, <3>2
  <2> QED  BY <1>1, <2>1, <2>2, <2>3
<1>8. LineInv'
  BY <1>4, <1>5, <1>6, <1>7 DEF LineInv
<1>9. TicketInv' /\ OneHolder' /\ AnswersTrue'
  BY DEF TicketInv, OneHolder, AnswersTrue, Granted, Given, GivenBack,
         OnTheBooks, Holder, Answer, InHand
<1> QED  BY <1>3, <1>8, <1>9

\* A step keeps the books if it leaves in the table what is there for tickets
\* in use, and puts nothing there that an older ticket could be mistaken for.
KeepsBooks ==
  \A d \in Clients : Granted(d) /\ ~GivenBack(d) =>
    IF Given(d).ep = starts
    THEN ticket_array'[Given(d).slot] = pid[d]
    ELSE \A s \in Slots : ticket_array'[s] # pid[d]

\* A step in which the table stays as it is keeps the books.
LEMMA KeepsSame ==
  ASSUME ServiceInv, up, ticket_array' = ticket_array
  PROVE  KeepsBooks
  BY DEF ServiceInv, TicketInv, OnTheBooks, KeepsBooks

\* So does one that gives a free slot to the client whose HELO is at hand.
LEMMA KeepsTake ==
  ASSUME ServiceInv, up, ticket_array \in [Slots -> Pids \cup {TICKET_AVAIL}],
         NEW s \in Slots, ticket_array[s] = TICKET_AVAIL,
         buf \in RealRequests, buf.type = "HELO",
         ticket_array' = [ticket_array EXCEPT ![s] = buf.pid]
  PROVE  KeepsBooks
<1> SUFFICES ASSUME NEW d \in Clients, Granted(d), ~GivenBack(d)
             PROVE  IF Given(d).ep = starts
                    THEN ticket_array'[Given(d).slot] = pid[d]
                    ELSE \A t \in Slots : ticket_array'[t] # pid[d]
  BY DEF KeepsBooks
<1>1. Live(d) /\ pid[d] \in Pids /\ ~Waiting(d)
  BY DEF Granted, Live, Waiting, ServiceInv, ClientInv
<1>2. Given(d).slot \in Slots /\ OnTheBooks(d)
  BY DEF ServiceInv, TicketInv
<1>3. buf # NoRequest /\ OwnRequest(buf)
  BY DEF ServiceInv, LineInv, OwnRequests, RealRequests, Requests, NoRequest
<1>4. buf.pid # pid[d]
  <2>1. ASSUME buf.pid = pid[d]  PROVE FALSE
    <3>1. buf.from = d
      BY <1>1, <1>3, <2>1
      DEF ServiceInv, LineInv, OldRequests, InHand, Concerns, ChangesTable
    <3>2. inbox[d] = <<>> /\ cstate[d] \notin {"work", "vald", "bye"}
      BY <1>3, <3>1 DEF OwnRequest
    <3> QED  BY <3>2 DEF Granted
  <2> QED  BY <2>1
<1>5. pid[d] # TICKET_AVAIL
  BY <1>1, ClientAssumption DEF ClientAssumption
<1> QED  BY <1>2, <1>4, <1>5 DEF OnTheBooks

\* And one that frees a slot no living process in need of it has.
LEMMA KeepsFree ==
  ASSUME ServiceInv, up, ticket_array \in [Slots -> Pids \cup {TICKET_AVAIL}],
         NEW s \in Slots,
         ticket_array' = [ticket_array EXCEPT ![s] = TICKET_AVAIL],
         \A d \in Clients : Granted(d) /\ ~GivenBack(d) => ticket_array[s] # pid[d]
  PROVE  KeepsBooks
<1> SUFFICES ASSUME NEW d \in Clients, Granted(d), ~GivenBack(d)
             PROVE  IF Given(d).ep = starts
                    THEN ticket_array'[Given(d).slot] = pid[d]
                    ELSE \A t \in Slots : ticket_array'[t] # pid[d]
  BY DEF KeepsBooks
<1>1. pid[d] \in Pids
  BY DEF Granted, Live, ServiceInv, ClientInv
<1>2. Given(d).slot \in Slots /\ OnTheBooks(d)
  BY DEF ServiceInv, TicketInv
<1>3. pid[d] # TICKET_AVAIL
  BY <1>1, ClientAssumption DEF ClientAssumption
<1> QED  BY <1>2, <1>3 DEF OnTheBooks

\* A GBYE names nobody who still needs his ticket: its sender does not, and
\* nobody else has the pid it names.
LEMMA AskerOnly ==
  ASSUME ServiceInv, buf # NoRequest, buf.type = "GBYE",
         NEW d \in Clients, Granted(d), ~GivenBack(d)
  PROVE  buf.pid # pid[d]
<1> SUFFICES ASSUME buf.pid = pid[d]  PROVE FALSE
  OBVIOUS
<1>1. Live(d) /\ ~Waiting(d)
  BY DEF Granted, Live, Waiting
<1>2. InHand(d) /\ OwnRequest(buf)
  BY <1>1
  DEF ServiceInv, LineInv, OldRequests, OwnRequests, Concerns, ChangesTable
<1> QED  BY <1>2 DEF InHand, OwnRequest, Granted, GivenBack

\* A step of the server that changes only the table, and keeps the books.
LEMMA ServiceTable ==
  ASSUME ServiceInv, up, KeepsBooks, UNCHANGED <<netvars, clientvars, buf>>
  PROVE  ServiceInv'
<1> USE DEF ServiceInv, netvars, clientvars
<1>1. ClientInv' /\ RealNames' /\ BufOK' /\ LifeInv'
  BY DEF ClientInv, ClientTypeOK, Live, RealNames, BufOK, LifeInv
<1>2. LineInv'
  BY DEF LineInv, OneAtATime, OwnRequests, OwnRequest, OneAnswer,
         DistinctPids, OldRequests, InHand, Waiting, Live, Concerns
<1>3. TicketInv'
  BY DEF TicketInv, KeepsBooks, Granted, Given, GivenBack, OnTheBooks, Answer,
         InHand
<1>4. OneHolder' /\ AnswersTrue'
  BY DEF OneHolder, AnswersTrue, Granted, Given, Holder, Answer
<1> QED  BY <1>1, <1>2, <1>3, <1>4

\* The answer that is due to c, if it still lives, once the request is handled.
DueReply(c, r) ==
  Live(c) =>
    /\ r \in RealReplies /\ r.ep = starts
    /\ cstate[c] = "hello" /\ r.type = "TICK" =>
         r.pid = pid[c] /\ ticket_array'[r.slot] = pid[c]
    /\ cstate[c] \in {"vald", "bye"} =>
         r.type = (IF ticket[c].ep # starts THEN "FAIL"
                   ELSE IF cstate[c] = "vald" THEN "GOOD" ELSE "THNX")

\* The answer is sent.
LEMMA ServiceReply ==
  ASSUME ServiceInv, up, KeepsBooks, buf # NoRequest, NEW r,
         Deliver(buf.from, r), DueReply(buf.from, r), buf' = NoRequest,
         UNCHANGED <<up, starts, queue, clientvars>>
  PROVE  ServiceInv'
<1> USE DEF ServiceInv, ClientInv, ClientTypeOK, clientvars
<1>0. PICK c \in Clients : c = buf.from
  BY DEF BufOK, Requests
<1>1. /\ OwnRequest(buf) /\ InHand(c)
      /\ \A d \in Clients \ {c} : ~InHand(d)
      /\ \A i \in 1 .. Len(queue) : queue[i].from # c
  BY <1>0 DEF BufOK, Requests, LineInv, OwnRequests, OneAtATime, InHand
<1>2. /\ inbox' \in [Clients -> Seq(RealReplies)]
      /\ inbox' \in [Clients -> Seq(Replies)]
      /\ \A d \in Clients \ {c} : inbox'[d] = inbox[d]
      /\ ~Live(c) => inbox'[c] = inbox[c]
      /\ Live(c) => inbox'[c] = <<r>> /\ inbox'[c] # <<>> /\ Head(inbox'[c]) = r
  <2>1. CASE Live(c)
    <3>1. inbox[c] = <<>> /\ inbox' = [inbox EXCEPT ![c] = Append(@, r)]
      BY <1>0, <1>1, <2>1 DEF OwnRequest, Deliver
    <3>2. r \in RealReplies /\ r \in Replies
      BY <1>0, <2>1 DEF DueReply, RealReplies
    <3> QED  BY <1>1, <2>1, <3>1, <3>2 DEF RealNames
  <2>2. CASE ~Live(c)
    BY <1>0, <2>2 DEF Deliver, RealNames
  <2> QED  BY <2>1, <2>2
<1>3. ClientInv' /\ RealNames' /\ BufOK' /\ LifeInv'
  BY <1>2 DEF Live, RealNames, BufOK, LifeInv
<1>4. LineInv'
  <2>1. OneAtATime' /\ DistinctPids'
    BY DEF LineInv, OneAtATime, DistinctPids, InHand, Live
  <2>2. OwnRequests'
    <3>1. ASSUME NEW i \in 1 .. Len(queue)  PROVE OwnRequest(queue[i])'
      <4>0. queue[i] \in Requests
        OBVIOUS
      <4>1. queue[i] \in Requests /\ queue[i].from \in Clients \ {c}
        BY <1>1, <4>0 DEF Requests
      <4>2. OwnRequest(queue[i])
        BY DEF LineInv, OwnRequests
      <4> QED  BY <1>2, <4>1, <4>2 DEF OwnRequest
    <3> QED  BY <3>1 DEF OwnRequests
  <2>3. OneAnswer'
    <3> SUFFICES ASSUME NEW d \in Clients
                 PROVE  /\ Len(inbox'[d]) <= 1
                        /\ cstate[d] \in {"idle", "work", "gone"} =>
                             inbox'[d] = <<>>
      BY DEF OneAnswer
    <3>1. CASE d = c /\ Live(c)
      <4>1. inbox'[d] = <<r>> /\ cstate[d] \notin {"idle", "work", "gone"}
        BY <1>0, <1>1, <1>2, <3>1 DEF OwnRequest, Live
      <4> QED  BY <4>1
    <3>2. CASE ~(d = c /\ Live(c))
      <4>1. inbox'[d] = inbox[d]  BY <1>2, <3>2
      <4> QED  BY <4>1 DEF LineInv, OneAnswer
    <3> QED  BY <3>1, <3>2
  <2>4. OldRequests'
    BY <1>1, <1>2 DEF LineInv, OldRequests, InHand, Waiting, Live, Concerns
  <2> QED  BY <2>1, <2>2, <2>3, <2>4 DEF LineInv
<1>5. \A d \in Clients \ {c} :
        /\ Granted(d)' = Granted(d) /\ Given(d)' = Given(d)
        /\ GivenBack(d)' = GivenBack(d) /\ Holder(d)' = Holder(d)
  BY <1>1, <1>2 DEF Granted, Given, GivenBack, Holder, Answer, InHand
<1>6. TicketInv'
  <2> SUFFICES ASSUME NEW d \in Clients, Granted(d)'
               PROVE  /\ Given(d)'.pid = pid[d] /\ Given(d)'.slot \in Slots
                      /\ Given(d)'.ep \in 1 .. starts
                      /\ ~GivenBack(d)' => OnTheBooks(d)'
    BY DEF TicketInv
  <2>1. CASE d # c
    BY <1>5, <2>1 DEF TicketInv, KeepsBooks, OnTheBooks
  <2>2. CASE d = c /\ cstate[c] # "hello"
    <3>1. Live(c) /\ cstate[c] \in {"vald", "bye"} /\ Given(d)' = Given(d)
      BY <1>0, <1>1, <2>2 DEF Granted, Given, Live, OwnRequest
    <3>2. Granted(d) /\ (cstate[c] = "bye" => GivenBack(d)')
      BY <1>2, <2>2, <3>1 DEF Granted, GivenBack
    <3>3. cstate[c] # "bye" => ~GivenBack(d)
      BY <2>2 DEF GivenBack
    <3> QED
      BY <2>2, <3>1, <3>2, <3>3 DEF TicketInv, KeepsBooks, OnTheBooks
  <2>3. CASE d = c /\ cstate[c] = "hello"
    <3>1. Live(c)  BY <2>3 DEF Live
    <3>2. Given(d)' = r /\ r.type = "TICK"
      BY <1>2, <2>3, <3>1 DEF Granted, Given, Answer
    <3>3. /\ r \in Replies /\ r.ep = starts /\ r.pid = pid[c]
          /\ ticket_array'[r.slot] = pid[c]
      BY <1>0, <2>3, <3>1, <3>2 DEF DueReply, RealReplies
    <3>4. starts \in 1 .. starts
      BY DEF LifeInv
    <3> QED  BY <2>3, <3>2, <3>3, <3>4 DEF OnTheBooks, Replies
  <2> QED  BY <2>1, <2>2, <2>3
<1>7. OneHolder'
  <2>0. OneHolder /\ DistinctPids /\ cstate' = cstate /\ pid' = pid
    BY DEF LineInv
  <2> HIDE DEF ServiceInv, ClientInv, ClientTypeOK
  <2>1. \A d \in Clients : Holder(d)' =>
          /\ Live(d)
          /\ Given(d)'.ep = starts => ticket_array'[Given(d)'.slot] = pid[d]
    BY <1>6, <2>0 DEF TicketInv, Holder, GivenBack, OnTheBooks, Granted, Live
  <2>2. Holder(c)' => \/ Holder(c) /\ Given(c)' = Given(c)
                      \/ Given(c)'.ep = starts
    <3>1. CASE cstate[c] = "hello" /\ Live(c)
      BY <1>0, <1>2, <2>0, <3>1 DEF Holder, Granted, Given, Answer, DueReply
    <3>2. CASE ~(cstate[c] = "hello" /\ Live(c))
      BY <1>2, <2>0, <3>2 DEF Holder, Granted, Given, Live
    <3> QED  BY <3>1, <3>2
  <2>3. ASSUME NEW d \in Clients, NEW e \in Clients,
               Holder(d)', Holder(e)',
               Given(d)'.slot = Given(e)'.slot, Given(d)'.ep = Given(e)'.ep
        PROVE  d = e
    <3>1. CASE Given(d)'.ep = starts
      <4>1. Live(d) /\ ticket_array'[Given(d)'.slot] = pid[d]
        BY <2>1, <2>3, <3>1
      <4>2. Live(e) /\ ticket_array'[Given(e)'.slot] = pid[e]
        BY <2>1, <2>3, <3>1
      <4> QED  BY <2>0, <2>3, <4>1, <4>2 DEF DistinctPids
    <3>2. CASE Given(d)'.ep # starts
      <4>1. /\ Holder(d) /\ Given(d)' = Given(d)
            /\ Holder(e) /\ Given(e)' = Given(e)
        BY <1>5, <2>2, <2>3, <3>2
      <4> QED  BY <2>0, <2>3, <4>1 DEF OneHolder
    <3> QED  BY <3>1, <3>2
  <2> QED  BY <2>3 DEF OneHolder
<1>8. AnswersTrue'
  <2> SUFFICES ASSUME ~byhand, NEW d \in Clients,
                      cstate[d] \in {"vald", "bye"}, inbox'[d] # <<>>
               PROVE  Answer(d)'.type =
                        (IF Answer(d)'.ep # ticket[d].ep THEN "FAIL"
                         ELSE IF cstate[d] = "vald" THEN "GOOD" ELSE "THNX")
    BY DEF AnswersTrue
  <2>1. CASE d # c
    BY <1>2, <2>1 DEF AnswersTrue, Answer
  <2>2. CASE d = c
    <3>1. Live(c) /\ Answer(d)' = r  BY <1>2, <2>2 DEF Live, Answer
    <3> QED  BY <1>0, <2>2, <3>1 DEF DueReply
  <2> QED  BY <2>1, <2>2
<1> QED  BY <1>3, <1>4, <1>6, <1>7, <1>8

\* The server process comes.  What was printed before is older than it.
LEMMA ServiceStart ==
  ASSUME ServiceInv, ~up, starts < MaxStarts, up' = TRUE, starts' = starts + 1,
         ticket_array' = FreeTable,
         UNCHANGED <<queue, inbox, clientvars, buf>>
  PROVE  ServiceInv'
<1> USE DEF ServiceInv, clientvars
<1>1. starts \in 0 .. MaxStarts /\ starts' \in 1 .. MaxStarts
  BY ClientAssumption DEF ClientInv, ClientTypeOK, ClientAssumption
<1>2. ClientInv' /\ RealNames' /\ BufOK' /\ LifeInv'
  BY <1>1 DEF ClientInv, ClientTypeOK, Live, RealNames, BufOK, LifeInv
<1>3. LineInv'
  BY DEF LineInv, OneAtATime, OwnRequests, OwnRequest, OneAnswer,
         DistinctPids, OldRequests, InHand, Waiting, Live, Concerns
<1>4. TicketInv'
  <2> SUFFICES ASSUME NEW d \in Clients, Granted(d)
               PROVE  /\ Given(d).pid = pid[d] /\ Given(d).slot \in Slots
                      /\ Given(d).ep \in 1 .. starts'
                      /\ OnTheBooks(d)'
    BY DEF TicketInv, Granted, Given, Answer
  <2>1. Given(d).pid = pid[d] /\ Given(d).slot \in Slots /\ Given(d).ep \in 1 .. starts
    BY DEF TicketInv
  <2>2. pid[d] # TICKET_AVAIL
    BY ClientAssumption DEF Granted, Live, ClientInv, ClientAssumption
  <2> QED  BY <1>1, <2>1, <2>2 DEF OnTheBooks, FreeTable, Given, Answer
<1>5. OneHolder' /\ AnswersTrue'
  BY DEF OneHolder, AnswersTrue, Granted, Given, Holder, Answer
<1> QED  BY <1>2, <1>3, <1>4, <1>5

\* The server process goes, with its table and all requests.
LEMMA ServiceCrash ==
  ASSUME ServiceInv, up' = FALSE, queue' = <<>>, ticket_array' = FreeTable,
         buf' = NoRequest, UNCHANGED <<starts, inbox, clientvars>>
  PROVE  ServiceInv'
<1> USE DEF ServiceInv, clientvars
<1>0. queue' \in Seq(Requests) /\ queue' \in Seq(RealRequests) /\ Len(queue') = 0
  OBVIOUS
<1>1. ClientInv' /\ RealNames' /\ BufOK' /\ LifeInv'
  BY <1>0 DEF ClientInv, ClientTypeOK, Live, RealNames, BufOK, LifeInv
<1>2. LineInv'
  BY <1>0 DEF LineInv, OneAtATime, OwnRequests, OneAnswer, DistinctPids,
              OldRequests, Live
<1>3. TicketInv'
  <2>1. \A d \in Clients : Granted(d) => pid[d] # TICKET_AVAIL
    BY ClientAssumption DEF Granted, Live, ClientInv, ClientAssumption
  <2> QED
    BY <2>1 DEF TicketInv, Granted, Given, Answer, OnTheBooks, FreeTable
<1>4. OneHolder' /\ AnswersTrue'
  BY DEF OneHolder, AnswersTrue, Granted, Given, Holder, Answer
<1> QED  BY <1>1, <1>2, <1>3, <1>4

\* And the steps of the clients.
LEMMA ServiceClient ==
  ASSUME ServiceInv, ~byhand', NEW c \in Clients, UNCHANGED <<ticket_array, buf>>,
         ClientNext(c) \/ ValidateNext(c)
  PROVE  ServiceInv'
<1>1. ClientInv' /\ RealNames' /\ BufOK'
  BY ClientStepInv, ClientStepReal DEF ServiceInv, BufOK
<1>2. up' = up /\ starts' = starts
  BY AskerWaits
<1>3. LifeInv'
  BY <1>2 DEF ServiceInv, LifeInv
<1> QED  BY <1>1, <1>3, ClientLine, ClientTickets DEF ServiceInv

-----------------------------------------------------------------------------
(* The table of tickets: what follows when a server keeps its part of       *)
(* ServiceInv, namely the count of taken slots, the licenses in use, and    *)
(* the pool a client sees.                                                  *)

TableOK == ticket_array \in [Slots -> Pids \cup {TICKET_AVAIL}]

-----------------------------------------------------------------------------
(* Counting slots                                                           *)

\* There are MAXUSERS slots.
LEMMA SlotsFinite ==
  /\ IsFiniteSet(Slots)
  /\ Cardinality(Slots) = MAXUSERS
<1>1. 0 \in Int /\ MAXUSERS - 1 \in Int
  BY ClientAssumption DEF ClientAssumption
<1>2. IsFiniteSet(0 .. MAXUSERS - 1)
  BY <1>1, FS_Interval
<1>3. Cardinality(0 .. MAXUSERS - 1) = MAXUSERS
  BY <1>1, FS_Interval, ClientAssumption DEF ClientAssumption
<1> QED  BY <1>2, <1>3 DEF Slots

\* The taken slots can be counted, and all of them are all the slots.
LEMMA TakenFinite ==
  /\ IsFiniteSet(Taken)
  /\ Cardinality(Taken) \in 0 .. MAXUSERS
  /\ Taken # Slots => Cardinality(Taken) < MAXUSERS
<1>1. Taken \subseteq Slots  BY DEF Taken
<1>2. IsFiniteSet(Taken) /\ Cardinality(Taken) \in Nat
  BY <1>1, SlotsFinite, FS_Subset, FS_CardinalityType
<1>3. /\ Cardinality(Taken) <= Cardinality(Slots)
      /\ Cardinality(Taken) = Cardinality(Slots) => Taken = Slots
  BY <1>1, SlotsFinite, FS_Subset
<1> QED
  BY <1>2, <1>3, SlotsFinite, ClientAssumption DEF ClientAssumption

\* A free slot that is taken adds one, a taken slot that is freed takes one away.
LEMMA TakeSlot ==
  ASSUME TableOK, NEW s \in Slots, ticket_array[s] = TICKET_AVAIL,
         NEW p \in Pids, ticket_array' = [ticket_array EXCEPT ![s] = p]
  PROVE  Cardinality(Taken') = Cardinality(Taken) + 1
<1>1. Taken' = Taken \cup {s} /\ s \notin Taken
  BY ClientAssumption DEF Taken, TableOK, ClientAssumption
<1> QED  BY <1>1, TakenFinite, FS_AddElement

\* A taken slot that do_goodbye or the reclaimer frees is one less.
LEMMA FreeSlot ==
  ASSUME TableOK, NEW s \in Slots, ticket_array[s] # TICKET_AVAIL,
         ticket_array' = [ticket_array EXCEPT ![s] = TICKET_AVAIL]
  PROVE  Cardinality(Taken') = Cardinality(Taken) - 1
<1>1. Taken' = Taken \ {s} /\ s \in Taken
  BY DEF Taken, TableOK
<1> QED  BY <1>1, TakenFinite, FS_RemoveElement

\* An empty table has no slot taken.
LEMMA BlankCount ==
  ASSUME ticket_array = FreeTable
  PROVE  Cardinality(Taken) = 0
<1>1. Taken = {}  BY DEF Taken, FreeTable
<1> QED  BY <1>1, FS_EmptySet

-----------------------------------------------------------------------------
(* Tickets in use                                                           *)

\* Who works with a ticket of the running server process is on the books.
LEMMA HolderKeeps == ServiceInv => HolderKeepsTicket
<1> SUFFICES ASSUME ServiceInv, NEW c \in AtWork, Current(c)
             PROVE  ticket_array[ticket[c].slot] = pid[c]
  BY DEF HolderKeepsTicket
<1>1. c \in Clients /\ Granted(c) /\ ~GivenBack(c) /\ Given(c) = ticket[c]
  BY DEF AtWork, Granted, GivenBack, Given
<1> QED
  BY <1>1 DEF ServiceInv, TicketInv, OnTheBooks, Current

\* The slot and the server process printed on a ticket tell its holder, so
\* that there are no more holders than slots, times server processes.
LEMMA License == ServiceInv => WithinLicense
<1> SUFFICES ASSUME ServiceInv  PROVE Cardinality(AtWork) <= MAXUSERS * starts
  BY DEF WithinLicense
<1> DEFINE Prints == Slots \X (1 .. starts)
           print == [c \in AtWork |-> <<ticket[c].slot, ticket[c].ep>>]
<1>1. ASSUME NEW c \in AtWork
      PROVE  /\ c \in Clients /\ Holder(c) /\ Given(c) = ticket[c]
             /\ ticket[c].slot \in Slots /\ ticket[c].ep \in 1 .. starts
  <2>1. c \in Clients /\ Granted(c) /\ Holder(c) /\ Given(c) = ticket[c]
    BY DEF AtWork, Granted, Holder, Given
  <2> QED  BY <2>1 DEF ServiceInv, TicketInv
<1>2. print \in [AtWork -> Prints]
  BY <1>1
<1>3. ASSUME NEW c \in AtWork, NEW d \in AtWork, print[c] = print[d]
      PROVE  c = d
  <2>1. ticket[c].slot = ticket[d].slot /\ ticket[c].ep = ticket[d].ep
    BY <1>3
  <2> QED  BY <1>1, <2>1 DEF ServiceInv, OneHolder
<1>4. print \in Injection(AtWork, Prints)
  <2> HIDE DEF print, Prints
  <2> QED  BY <1>2, <1>3 DEF Injection, IsInjective
<1>5. starts \in Nat
  BY ClientAssumption
  DEF ServiceInv, ClientInv, ClientTypeOK, ClientAssumption
<1>6. IsFiniteSet(1 .. starts) /\ Cardinality(1 .. starts) = starts
  <2>1. 1 \in Int /\ starts \in Int
    BY <1>5
  <2>2. /\ IsFiniteSet(1 .. starts)
        /\ Cardinality(1 .. starts) = IF 1 > starts THEN 0 ELSE starts - 1 + 1
    BY <2>1, FS_Interval
  <2> QED  BY <1>5, <2>2
<1>7. IsFiniteSet(Prints) /\ Cardinality(Prints) = MAXUSERS * starts
  BY <1>6, SlotsFinite, FS_Product
<1> QED
  <2> HIDE DEF print, Prints
  <2> QED  BY <1>4, <1>7, FS_Injection

-----------------------------------------------------------------------------
(* The pool                                                                 *)
(*                                                                          *)
(* What the server knows is in its table, what it lends is known by pid.    *)
(* The lemmas say which step of the pool each kind of step of the system    *)
(* is; the steps of a server are one of these kinds.                        *)

\* c works with a ticket of the running server.
UsesTicket(c) == c \in AtWork /\ Current(c)
TicketOf(c) == <<ticket[c].pid, ticket[c].slot>>

\* A ticket in use is on the books, in the name of its holder and of no other.
BooksKept ==
  /\ \A c \in Clients : UsesTicket(c) =>
       /\ TicketOf(c) \in Issued
       /\ TicketOf(c) \in Pids \X Slots
       /\ TicketOf(c) = <<pid[c], ticket[c].slot>>
  /\ \A c, d \in Clients :
       UsesTicket(c) /\ UsesTicket(d) /\ TicketOf(c) = TicketOf(d) => c = d

\* The invariant of the service is what keeps the books.
LEMMA ServiceKeepsBooks == ServiceInv => BooksKept
<1> SUFFICES ASSUME ServiceInv  PROVE BooksKept
  OBVIOUS
<1>1. ASSUME NEW c \in Clients, UsesTicket(c)
      PROVE  /\ Live(c) /\ pid[c] \in Pids
             /\ ticket[c].pid = pid[c] /\ ticket[c].slot \in Slots
             /\ ticket_array[ticket[c].slot] = pid[c]
             /\ TicketOf(c) \in Issued
  <2>1. /\ Live(c) /\ Granted(c) /\ ~GivenBack(c) /\ Given(c) = ticket[c]
        /\ Current(c)
    BY <1>1 DEF UsesTicket, AtWork, Live, Granted, GivenBack, Given
  <2>2. pid[c] \in Pids
    BY <2>1 DEF ServiceInv, ClientInv
  <2>3. /\ ticket[c].pid = pid[c] /\ ticket[c].slot \in Slots
        /\ ticket_array[ticket[c].slot] = pid[c]
    BY <2>1 DEF ServiceInv, TicketInv, OnTheBooks, Current
  <2>4. pid[c] # TICKET_AVAIL
    BY <2>2, ClientAssumption DEF ClientAssumption
  <2> QED  BY <2>1, <2>2, <2>3, <2>4 DEF TicketOf, Issued, Taken
<1> QED
  BY <1>1 DEF BooksKept, TicketOf, ServiceInv, LineInv, DistinctPids

\* The tickets in use, told by their holders.
LEMMA WorkingUses == Working = {TicketOf(c) : c \in {d \in Clients : UsesTicket(d)}}
  BY DEF Working, TicketOf, UsesTicket, AtWork

\* The same after a step.
LEMMA WorkingUsesNext ==
  Working' = {TicketOf(c)' : c \in {d \in Clients : UsesTicket(d)'}}
  BY DEF Working, TicketOf, UsesTicket, AtWork

\* At the start nothing is lent.
LEMMA PoolStarts ==
  ASSUME ClientInit, ticket_array = FreeTable
  PROVE  Pool!PoolInit
  BY DEF ClientInit, FreeTable, Pool!PoolInit, Issued, Taken, Working, AtWork

\* Steps that change neither table nor tickets.
LEMMA PoolStutter ==
  ASSUME UNCHANGED <<up, starts, clientvars, ticket_array>>
  PROVE  UNCHANGED Pool!poolvars
  BY DEF clientvars, Pool!poolvars, Issued, Taken, Working, AtWork, Current

\* A client begins or stops to work, or does something else.
LEMMA PoolClient ==
  ASSUME ServiceInv, ServiceInv', NEW c \in Clients, ticket_array' = ticket_array,
         ClientNext(c) \/ ValidateNext(c)
  PROVE  [Pool!PoolNext]_(Pool!poolvars)
<1>1. BooksKept /\ BooksKept'
  BY ServiceKeepsBooks, PTL
<1>2. /\ up' = up /\ starts' = starts /\ Issued' = Issued
      /\ \A d \in Clients \ {c} : cstate'[d] = cstate[d] /\ ticket'[d] = ticket[d]
      /\ UsesTicket(c) /\ UsesTicket(c)' => ticket'[c] = ticket[c]
  <2>0. cstate \in [Clients -> ClientStates] /\ DOMAIN ticket = Clients
    BY DEF ServiceInv, ClientInv, ClientTypeOK
  <2>1. CASE \E p \in Pids : GetTicket(c, p)
    BY <2>0, <2>1 DEF GetTicket, Issued, Taken
  <2>2. CASE ReleaseTicket(c) \/ Validate(c) \/ Dgsend(c)
    BY <2>0, <2>2 DEF ReleaseTicket, Validate, Dgsend, Issued, Taken
  <2>3. CASE GotTicket(c) \/ ValidateReply(c)
    BY <2>0, <2>3
    DEF GotTicket, ValidateReply, Issued, Taken, UsesTicket, AtWork
  <2>4. CASE Gone(c) /\ UNCHANGED <<up, starts, queue>>
    BY <2>0, <2>4 DEF Gone, Issued, Taken, UsesTicket, AtWork
  <2> QED  BY <2>1, <2>2, <2>3, <2>4, ClientKinds
<1>3. \A d \in Clients \ {c} :
        UsesTicket(d)' = UsesTicket(d) /\ TicketOf(d)' = TicketOf(d)
  BY <1>2 DEF UsesTicket, TicketOf, AtWork, Current
<1>4. CASE UsesTicket(c) <=> UsesTicket(c)'
  <2>1. UsesTicket(c) => TicketOf(c)' = TicketOf(c)
    BY <1>2, <1>4 DEF TicketOf
  <2>2. Working' = Working
    BY <1>3, <1>4, <2>1, WorkingUses, WorkingUsesNext
  <2> QED  BY <1>2, <2>2 DEF Pool!poolvars
<1>5. CASE ~UsesTicket(c) /\ UsesTicket(c)'
  <2> DEFINE t == TicketOf(c)'
  <2>1. t \in Issued /\ t \in Pids \X Slots
    BY <1>1, <1>2, <1>5 DEF BooksKept
  <2>2. t \notin Working
    <3>1. ASSUME NEW d \in Clients, UsesTicket(d), TicketOf(d) = t  PROVE FALSE
      <4>1. d # c /\ UsesTicket(d)' /\ TicketOf(d)' = t
        BY <1>3, <1>5, <3>1
      <4> QED  BY <1>1, <1>5, <4>1 DEF BooksKept
    <3> QED  BY <3>1, WorkingUses
  <2>3. Working' = Working \cup {t}
    BY <1>3, <1>5, WorkingUses, WorkingUsesNext
  <2>4. Pool!Begin(t)
    BY <1>2, <2>1, <2>2, <2>3 DEF Pool!Begin
  <2> QED  BY <2>1, <2>4 DEF Pool!PoolNext, Pool!AllTickets
<1>6. CASE UsesTicket(c) /\ ~UsesTicket(c)'
  <2> DEFINE t == TicketOf(c)
  <2>1. t \in Working /\ t \in Pids \X Slots
    BY <1>1, <1>6, WorkingUses DEF BooksKept
  <2>2. \A d \in Clients \ {c} : UsesTicket(d) => TicketOf(d) # t
    BY <1>1, <1>6 DEF BooksKept
  <2>3. Working' = Working \ {t}
    BY <1>3, <1>6, <2>2, WorkingUses, WorkingUsesNext
  <2>4. Pool!Stop(t)
    BY <1>2, <2>1, <2>3 DEF Pool!Stop
  <2> QED  BY <2>1, <2>4 DEF Pool!PoolNext, Pool!AllTickets
<1> QED  BY <1>4, <1>5, <1>6

\* do_hello lends a free slot.
LEMMA PoolTake ==
  ASSUME TableOK, NEW s \in Slots, ticket_array[s] = TICKET_AVAIL,
         NEW p \in Pids, ticket_array' = [ticket_array EXCEPT ![s] = p],
         UNCHANGED <<up, starts, clientvars>>
  PROVE  Pool!PoolNext
<1>1. Issued' = Issued \cup {<<p, s>>}
  BY ClientAssumption DEF Issued, Taken, TableOK, ClientAssumption
<1>2. \A t \in Issued : t[2] # s
  BY DEF Issued, Taken
<1>3. Working' = Working
  BY DEF Working, AtWork, Current, clientvars
<1>4. Pool!Issue(p, s)
  BY <1>1, <1>2, <1>3 DEF Pool!Issue
<1> QED  BY <1>4 DEF Pool!PoolNext

\* do_goodbye and the reclaimer take a slot back, which is in nobody's use.
LEMMA PoolFree ==
  ASSUME ServiceInv, TableOK, NEW s \in Slots, ticket_array[s] # TICKET_AVAIL,
         ticket_array' = [ticket_array EXCEPT ![s] = TICKET_AVAIL],
         \A d \in Clients : Granted(d) /\ ~GivenBack(d) => ticket_array[s] # pid[d],
         UNCHANGED <<up, starts, clientvars>>
  PROVE  Pool!PoolNext
<1> DEFINE t == <<ticket_array[s], s>>
<1>1. t \in Issued /\ t \in Pids \X Slots
  BY DEF Issued, Taken, TableOK
<1>2. t \notin Working
  <2>1. ASSUME NEW c \in Clients, UsesTicket(c)  PROVE TicketOf(c) # t
    <3>1. Granted(c) /\ ~GivenBack(c)
      BY <2>1 DEF UsesTicket, AtWork, Granted, GivenBack
    <3>2. TicketOf(c) = <<pid[c], ticket[c].slot>>
      BY <2>1, ServiceKeepsBooks DEF BooksKept
    <3> QED  BY <3>1, <3>2
  <2> QED  BY <2>1, WorkingUses
<1>3. Issued' = Issued \ {t}
  BY DEF Issued, Taken, TableOK
<1>4. Working' = Working
  BY DEF Working, AtWork, Current, clientvars
<1>5. Pool!Retire(t)
  BY <1>1, <1>2, <1>3, <1>4 DEF Pool!Retire
<1> QED  BY <1>1, <1>5 DEF Pool!PoolNext, Pool!AllTickets

\* The server process that goes forgets its books.
LEMMA PoolCrash ==
  ASSUME up' = FALSE, ticket_array' = FreeTable
  PROVE  Pool!PoolNext
<1>1. Issued' = {} /\ Working' = {}
  BY DEF Issued, Taken, FreeTable, Working, Current
<1> QED  BY <1>1 DEF Pool!PoolNext, Pool!Forget

\* The next one begins with empty books; it printed no ticket yet.
LEMMA PoolStart ==
  ASSUME ServiceInv, ~up, starts' = starts + 1, ticket_array' = FreeTable,
         clientvars' = clientvars
  PROVE  UNCHANGED Pool!poolvars
<1>1. Issued = {} /\ Issued' = {}
  BY DEF ServiceInv, LifeInv, FreeTable, Issued, Taken
<1>2. Working = {}
  BY DEF Working, Current
<1>3. starts \in Nat
  BY ClientAssumption
  DEF ServiceInv, ClientInv, ClientTypeOK, ClientAssumption
<1>4. \A c \in AtWork : ticket[c].ep # starts + 1
  <2>1. \A c \in AtWork : ticket[c].ep \in 1 .. starts
    BY DEF ServiceInv, TicketInv, AtWork, Granted, Given
  <2> QED  BY <1>3, <2>1
<1>5. Working' = {}
  BY <1>4 DEF Working, Current, AtWork, clientvars
<1> QED  BY <1>1, <1>2, <1>5 DEF Pool!poolvars

-----------------------------------------------------------------------------
(* What follows from the promise of the pool alone.  That both servers keep *)
(* it is proved in LicenseServer1Proofs and LicenseServerProofs             *)
(* (PoolRefinement).                                                        *)

\* The pool lends slots of its own and nobody works without a slot lent; no
\* slot is lent twice, so never more processes work than do_hello has slots
\* for, whatever order tickets are issued, used, given back and forgotten in,
\* until somebody types a HELO or a GBYE by hand (which stays typed).
THEOREM PoolTheorem ==
  ImplementsPool /\ [][byhand']_byhand =>
    [](~byhand => Pool!PoolTypeOK /\ Pool!PoolSafe)
<1>. DEFINE Inv == Pool!PoolTypeOK /\ Pool!PoolSafe
<1>1. Pool!PoolInit => Inv
  BY DEF Pool!PoolInit, Pool!PoolTypeOK, Pool!PoolSafe
<1>2. Inv /\ [Pool!PoolNext]_(Pool!poolvars) => Inv'
  <2>. SUFFICES ASSUME Inv, [Pool!PoolNext]_(Pool!poolvars)
                PROVE  Inv'
    OBVIOUS
  <2>. USE DEF Pool!PoolTypeOK, Pool!PoolSafe
  <2>1. ASSUME NEW n \in Pids, NEW s \in Slots, Pool!Issue(n, s)
        PROVE  Inv'
    <3>1. /\ Issued' = Issued \cup {<<n, s>>} /\ Working' = Working
          /\ \A t \in Issued : t[2] # s
      BY <2>1 DEF Pool!Issue
    <3>2. <<n, s>> \in Pool!AllTickets /\ <<n, s>>[2] = s
      BY DEF Pool!AllTickets
    <3>3. \A t, u \in Issued' : t[2] = u[2] => t = u
      BY <3>1, <3>2
    <3>. QED  BY <3>1, <3>2, <3>3
  <2>2. ASSUME NEW t \in Pool!AllTickets, Pool!Begin(t)
        PROVE  Inv'
    BY <2>2 DEF Pool!Begin
  <2>3. ASSUME NEW t \in Pool!AllTickets, Pool!Stop(t)
        PROVE  Inv'
    BY <2>3 DEF Pool!Stop
  <2>4. ASSUME NEW t \in Pool!AllTickets, Pool!Retire(t)
        PROVE  Inv'
    BY <2>4 DEF Pool!Retire
  <2>5. CASE Pool!Forget
    BY <2>5 DEF Pool!Forget
  <2>6. CASE UNCHANGED Pool!poolvars
    BY <2>6 DEF Pool!poolvars
  <2>. QED  BY <2>1, <2>2, <2>3, <2>4, <2>5, <2>6 DEF Pool!PoolNext
<1>3. /\ (~byhand => Inv)
      /\ [~byhand' => Pool!PoolNext]_(Pool!poolvars) /\ [byhand']_byhand
      => (~byhand => Inv)'
  BY <1>2
<1>. QED  BY <1>1, <1>3, PTL DEF ImplementsPool
=============================================================================
