------------------------ MODULE LicenseServer1Proofs ------------------------
(***************************************************************************)
(* Theorems about the version 1 license server, for every number of        *)
(* clients, pids, slots, queue places and restarts.                        *)
(***************************************************************************)
EXTENDS LicenseServer1, LicenseClientProofs

USE DEF TICKET_AVAIL, NoPid

-----------------------------------------------------------------------------
(* Types, whatever is typed by hand.                                        *)

TypeInv ==
  /\ ClientInv
  /\ TableOK
  /\ num_tickets_out \in Int
  /\ buf \in Requests \cup {NoRequest}

\* They hold before the first server process.
LEMMA InitTypeInv == Init => TypeInv
  BY ClientInitInv DEF Init, TypeInv, TableOK, FreeTable

\* handle_request keeps them: any request that is at hand is a datagram, and
\* any answer a reply.
LEMMA HandleTypeInv ==
  ASSUME TypeInv, HandleRequest
  PROVE  TypeInv'
<1> USE DEF TypeInv, TableOK
<1>1. buf \in Requests /\ buf.from \in Clients /\ buf.pid \in Pids \cup {TICKET_AVAIL}
  <2>1. buf.type \in RequestTypes
    BY DEF HandleRequest, HelloFail, HelloTick, GoodbyeFail, GoodbyeThnx,
           InvalidRequest, Handles, RequestTypes
  <2>2. buf # NoRequest
    BY <2>1 DEF NoRequest, RequestTypes
  <2> QED  BY <2>2 DEF Requests
<1>2. PICK type \in ReplyTypes, p \in Pids \cup {TICKET_AVAIL}, s \in Slots :
        Reply(type, p, s)
  BY <1>1, ZeroSlot
  DEF HandleRequest, HelloFail, HelloTick, GoodbyeFail, GoodbyeThnx,
      InvalidRequest, ReplyTypes
<1>3. ClientInv'
  <2>1. [type |-> type, pid |-> p, slot |-> s, ep |-> starts] \in Replies
    BY DEF ClientInv, ClientTypeOK, Replies
  <2>2. inbox' \in [Clients -> Seq(Replies)]
    BY <1>1, <1>2, <2>1, DeliverType DEF Reply
  <2> QED  BY <1>2, <2>2 DEF Reply, ClientInv, ClientTypeOK, Live, clientvars
<1>4. TableOK' /\ num_tickets_out' \in Int
  BY <1>1
  DEF HandleRequest, HelloFail, HelloTick, GoodbyeFail, GoodbyeThnx,
      InvalidRequest, tablevars
<1> QED  BY <1>2, <1>3, <1>4 DEF Reply

\* So do all other steps.
LEMMA TypeInvStep ==
  ASSUME TypeInv, [Next]_vars
  PROVE  TypeInv'
<1> USE DEF TypeInv, TableOK
<1>1. CASE StartServer
  <2>1. ClientInv'
    BY <1>1, ClientAssumption
    DEF StartServer, ClientInv, ClientTypeOK, Live, clientvars, ClientAssumption
  <2> QED  BY <1>1, <2>1 DEF StartServer, FreeTable
<1>2. CASE Crash
  <2>1. queue' \in Seq(Requests)
    BY <1>2 DEF Crash
  <2>2. ClientInv'
    BY <1>2, <2>1 DEF Crash, ClientInv, ClientTypeOK, Live, clientvars
  <2> QED  BY <1>2, <2>2 DEF Crash, FreeTable
<1>3. CASE Recvfrom
  <2>1. queue \in Seq(Requests) /\ queue # <<>>
    BY <1>3 DEF Recvfrom, ClientInv, ClientTypeOK
  <2>2. buf' \in Requests /\ queue' \in Seq(Requests)
    BY <1>3, <2>1 DEF Recvfrom
  <2>3. ClientInv'
    BY <1>3, <2>2 DEF Recvfrom, ClientInv, ClientTypeOK, Live, clientvars
  <2> QED  BY <1>3, <2>2, <2>3 DEF Recvfrom, tablevars
<1>4. CASE HandleRequest
  BY <1>4, HandleTypeInv
<1>5. ASSUME NEW c \in Clients, ClientNext(c), UNCHANGED <<tablevars, buf>>
      PROVE  TypeInv'
  BY <1>5, ClientStepInv DEF tablevars
<1>6. CASE UNCHANGED vars
  BY <1>6 DEF vars, netvars, clientvars, tablevars, ClientInv, ClientTypeOK, Live
<1> QED  BY <1>1, <1>2, <1>3, <1>4, <1>5, <1>6 DEF Next, ServerNext

\* What was typed by hand stays typed, in every step of the system.
LEMMA ByHandForGood ==
  ASSUME TypeInv, [Next]_vars, ~byhand'
  PROVE  ~byhand
<1>1. CASE ServerNext \/ UNCHANGED vars
  BY <1>1
  DEF vars, clientvars, ServerNext, StartServer, Crash, Recvfrom, HandleRequest,
      HelloFail, HelloTick, GoodbyeFail, GoodbyeThnx, InvalidRequest, Reply
<1>2. ASSUME NEW c \in Clients, ClientNext(c)  PROVE ~byhand
  BY <1>2, ByHandStays DEF TypeInv
<1> QED  BY <1>1, <1>2 DEF Next

-----------------------------------------------------------------------------
(* The invariant, as long as nobody types a HELO or a GBYE by hand.         *)
(*                                                                          *)
(* None of the properties is inductive.  That an answer is true depends on  *)
(* what the table says of the asker's pid, and that on which requests of    *)
(* earlier processes with the same pid can still be under way: ServiceInv.  *)
(* The server adds the count, and that a ticket whose GBYE is at hand is    *)
(* still on the books.                                                      *)

\* No client of version 1 asks for a validation.
NoValidator == \A c \in Clients : cstate[c] # "vald"

ByeInv == \A c \in Clients : cstate[c] = "bye" /\ InHand(c) => OnTheBooks(c)

ServerInv ==
  /\ ServiceInv
  /\ TableOK
  /\ num_tickets_out = Cardinality(Taken)
  /\ buf \in RealRequests \cup {NoRequest}
  /\ ~up => buf = NoRequest
  /\ ByeInv
  /\ NoValidator

\* It holds before the first server process.
LEMMA InitServerInv == Init => ServerInv
<1> SUFFICES ASSUME Init  PROVE ServerInv
  OBVIOUS
<1>1. ServiceInv  BY ServiceInit DEF Init
<1>2. TableOK  BY DEF Init, TableOK, FreeTable
<1>3. Cardinality(Taken) = 0  BY BlankCount DEF Init
<1>4. ByeInv /\ NoValidator
  BY DEF Init, ClientInit, ByeInv, InHand, NoValidator
<1> QED  BY <1>1, <1>2, <1>3, <1>4 DEF Init, ServerInv

\* A request at hand says what its sender wants, if that still lives.
LEMMA AskerWants ==
  ASSUME ServerInv, buf # NoRequest, Live(buf.from)
  PROVE  /\ buf \in RealRequests /\ buf.from \in Clients
         /\ InHand(buf.from)
         /\ cstate[buf.from] = "hello" => buf.type = "HELO" /\ buf.pid = pid[buf.from]
         /\ cstate[buf.from] = "vald" => buf.type = "VALD"
         /\ cstate[buf.from] = "bye" =>
              /\ buf.type = "GBYE"
              /\ buf.pid = pid[buf.from] /\ buf.slot = ticket[buf.from].slot
              /\ up /\ ticket[buf.from].ep = starts => TicketInBuf
              /\ up /\ TicketInBuf => ticket[buf.from].ep = starts
<1>1. /\ buf \in RealRequests /\ buf.from \in Clients
      /\ buf.slot \in Slots \cup {NoSlot}
      /\ InHand(buf.from) /\ OwnRequest(buf)
  BY DEF ServerInv, RealRequests, Requests, InHand, ServiceInv, LineInv,
         OwnRequests
<1>2. cstate[buf.from] = "bye" =>
        OnTheBooks(buf.from) /\ ticket[buf.from].slot \in Slots
  BY <1>1
  DEF ServerInv, ByeInv, ServiceInv, ClientInv, Tickets
<1>3. NoSlot \notin Slots
  BY DEF NoSlot, Slots
<1> QED  BY <1>1, <1>2, <1>3 DEF OwnRequest, OnTheBooks, Given, TicketInBuf

\* An answer "FAIL" or "THNX" is a reply.
LEMMA PlainReply ==
  ASSUME ServerInv, NEW type \in {"FAIL", "THNX"}
  PROVE  [type |-> type, pid |-> TICKET_AVAIL, slot |-> 0, ep |-> starts]
           \in RealReplies
<1>1. starts \in 0 .. MaxStarts /\ 0 \in Slots
  BY ZeroSlot DEF ServerInv, ServiceInv, ClientInv, ClientTypeOK
<1> QED  BY <1>1 DEF RealReplies, Replies, ReplyTypes

\* Nobody in need of a ticket loses it to a GBYE that matches the table.
LEMMA GoodbyeOfNoOther ==
  ASSUME ServerInv, buf # NoRequest, buf.type = "GBYE", TicketInBuf
  PROVE  \A d \in Clients : Granted(d) /\ ~GivenBack(d)
                            => ticket_array[buf.slot] # pid[d]
  BY AskerOnly DEF ServerInv, TicketInBuf

\* The request is answered: what is left of the invariant.
LEMMA Answered ==
  ASSUME ServerInv, up, buf # NoRequest, KeepsBooks,
         NEW type, NEW p, NEW s, Reply(type, p, s),
         DueReply(buf.from, [type |-> type, pid |-> p, slot |-> s, ep |-> starts]),
         TableOK', num_tickets_out' = Cardinality(Taken')
  PROVE  ServerInv'
<1>1. ServiceInv'  BY ServiceReply DEF ServerInv, Reply
<1>2. ByeInv'  BY DEF Reply, ByeInv, InHand
<1>3. NoValidator'  BY DEF Reply, clientvars, ServerInv, NoValidator
<1> QED  BY <1>1, <1>2, <1>3 DEF ServerInv, Reply

\* An answer that leaves the table alone keeps the invariant.
LEMMA AnsweredSame ==
  ASSUME ServerInv, up, buf # NoRequest, UNCHANGED tablevars,
         NEW type, NEW p, NEW s, Reply(type, p, s),
         DueReply(buf.from, [type |-> type, pid |-> p, slot |-> s, ep |-> starts])
  PROVE  ServerInv'
<1>1. KeepsBooks  BY KeepsSame DEF ServerInv, tablevars
<1>2. TableOK' /\ num_tickets_out' = Cardinality(Taken')
  BY DEF ServerInv, TableOK, Taken, tablevars
<1> QED  BY <1>1, <1>2, Answered

\* handle_request keeps the invariant, and is a step of the pool.
LEMMA HandleStep ==
  ASSUME ServerInv, ~byhand, HandleRequest
  PROVE  ServerInv' /\ [Pool!PoolNext]_(Pool!poolvars)
<1>0. /\ up /\ buf # NoRequest /\ buf \in RealRequests /\ buf \in Requests
      /\ buf.slot \in Slots \cup {NoSlot} /\ (ChangesTable(buf) => buf.pid \in Pids)
  <2>1. up /\ buf.type \in {"HELO", "GBYE", "VALD", "OTHER"}
    BY DEF HandleRequest, HelloFail, HelloTick, GoodbyeFail, GoodbyeThnx,
           InvalidRequest, Handles
  <2>2. buf # NoRequest
    BY <2>1 DEF NoRequest
  <2> QED  BY <2>1, <2>2 DEF ServerInv, RealRequests, Requests
<1>1. CASE HelloFail \/ GoodbyeFail \/ InvalidRequest
  <2>1. /\ Reply("FAIL", TICKET_AVAIL, 0) /\ UNCHANGED tablevars
        /\ buf.type = "GBYE" => ~TicketInBuf
    BY <1>1 DEF HelloFail, GoodbyeFail, InvalidRequest, Handles
  <2>0. cstate[buf.from] # "vald"
    BY <1>0 DEF ServerInv, Requests, NoValidator
  <2>2. DueReply(buf.from, [type |-> "FAIL", pid |-> TICKET_AVAIL, slot |-> 0,
                            ep |-> starts])
    BY <1>0, <2>0, <2>1, AskerWants, PlainReply DEF DueReply
  <2>3. ServerInv'
    BY <1>0, <2>1, <2>2, AnsweredSame
  <2>4. UNCHANGED Pool!poolvars
    BY <2>1, PoolStutter DEF Reply, tablevars
  <2> QED  BY <2>3, <2>4
<1>2. CASE HelloTick
  <2>1. PICK x \in Slots \ Taken :
          /\ ticket_array' = [ticket_array EXCEPT ![x] = buf.pid]
          /\ Reply("TICK", buf.pid, x)
    BY <1>2 DEF HelloTick
  <2>2. /\ ticket_array[x] = TICKET_AVAIL /\ x \in Slots
        /\ buf.type = "HELO" /\ buf.pid \in Pids
        /\ num_tickets_out' = num_tickets_out + 1
    BY <1>0, <1>2, <2>1 DEF HelloTick, Handles, Taken, ChangesTable
  <2>3. KeepsBooks
    BY <1>0, <2>1, <2>2, KeepsTake DEF ServerInv, TableOK
  <2>4. TableOK' /\ ticket_array'[x] = buf.pid
    BY <2>1, <2>2 DEF ServerInv, TableOK
  <2>5. num_tickets_out' = Cardinality(Taken')
    BY <2>1, <2>2, TakeSlot DEF ServerInv
  <2>6. DueReply(buf.from, [type |-> "TICK", pid |-> buf.pid, slot |-> x,
                            ep |-> starts])
    <3>1. [type |-> "TICK", pid |-> buf.pid, slot |-> x, ep |-> starts]
            \in RealReplies
      BY <2>2
      DEF ServerInv, ServiceInv, ClientInv, ClientTypeOK, RealReplies, Replies,
          ReplyTypes
    <3> QED  BY <1>0, <2>2, <2>4, <3>1, AskerWants DEF DueReply
  <2>7. ServerInv'
    BY <1>0, <2>1, <2>3, <2>4, <2>5, <2>6, Answered
  <2>8. Pool!PoolNext
    BY <2>1, <2>2, PoolTake DEF ServerInv, Reply
  <2> QED  BY <2>7, <2>8
<1>3. CASE GoodbyeThnx
  <2>0. TicketInBuf /\ buf.slot \in Slots
    BY <1>0, <1>3 DEF GoodbyeThnx, TicketInBuf
  <2>1. /\ buf.type = "GBYE" /\ ticket_array[buf.slot] = buf.pid
        /\ ticket_array' = [ticket_array EXCEPT ![buf.slot] = TICKET_AVAIL]
        /\ num_tickets_out' = num_tickets_out - 1
        /\ Reply("THNX", TICKET_AVAIL, 0)
    BY <1>3 DEF GoodbyeThnx, Handles, TicketInBuf
  <2>2. ticket_array[buf.slot] # TICKET_AVAIL
    BY <1>0, <2>1, ClientAssumption DEF ClientAssumption, ChangesTable
  <2>3. \A d \in Clients : Granted(d) /\ ~GivenBack(d)
                           => ticket_array[buf.slot] # pid[d]
    BY <1>0, <2>0, <2>1, GoodbyeOfNoOther
  <2>4. KeepsBooks
    BY <1>0, <2>0, <2>1, <2>3, KeepsFree DEF ServerInv, TableOK
  <2>5. TableOK'
    BY <2>1 DEF ServerInv, TableOK
  <2>6. num_tickets_out' = Cardinality(Taken')
    BY <1>0, <2>0, <2>1, <2>2, FreeSlot DEF ServerInv
  <2>7. DueReply(buf.from, [type |-> "THNX", pid |-> TICKET_AVAIL, slot |-> 0,
                            ep |-> starts])
    BY <1>0, <2>0, <2>1, AskerWants, PlainReply DEF DueReply
  <2>8. ServerInv'
    BY <1>0, <2>1, <2>4, <2>5, <2>6, <2>7, Answered
  <2>9. Pool!PoolNext
    BY <1>0, <2>0, <2>1, <2>2, <2>3, PoolFree DEF ServerInv, Reply
  <2> QED  BY <2>8, <2>9
<1> QED  BY <1>1, <1>2, <1>3 DEF HandleRequest

\* Every step of server and clients keeps the invariant and maps to the pool.
LEMMA ServerInvStep ==
  ASSUME ServerInv, ~byhand', [Next]_vars
  PROVE  ServerInv' /\ [Pool!PoolNext]_(Pool!poolvars)
<1>0. NoValidator'
  <2>1. CASE ServerNext \/ UNCHANGED vars
    BY <2>1
    DEF vars, clientvars, ServerNext, StartServer, Crash, Recvfrom,
        HandleRequest, HelloFail, HelloTick, GoodbyeFail, GoodbyeThnx,
        InvalidRequest, Reply, ServerInv, NoValidator
  <2>2. ASSUME NEW c \in Clients, ClientNext(c)  PROVE NoValidator'
    <3>1. PICK s \in ClientStates \ {"vald"} : cstate' = [cstate EXCEPT ![c] = s]
      BY <2>2
      DEF ClientNext, GetTicket, GotTicket, NoTicketForMe, ReleaseTicket,
          ReleaseReply, Dgsend, Killed, Gone, ClientStates
    <3> QED
      BY <3>1 DEF ServerInv, ServiceInv, ClientInv, ClientTypeOK, NoValidator
  <2> QED  BY <2>1, <2>2 DEF Next
<1>1. CASE StartServer
  <2>1. ServiceInv'
    BY <1>1, ServiceStart DEF StartServer, ServerInv
  <2>2. /\ TableOK' /\ ticket_array' = ticket_array /\ buf' = NoRequest
        /\ num_tickets_out' = num_tickets_out
    BY <1>1 DEF StartServer, ServerInv, ServiceInv, LifeInv, TableOK
  <2>3. Taken' = Taken
    BY <2>2 DEF Taken
  <2>4. ByeInv'
    BY <2>2 DEF ByeInv, InHand
  <2>5. UNCHANGED Pool!poolvars
    BY <1>1, PoolStart DEF StartServer, ServerInv
  <2> QED  BY <1>0, <2>1, <2>2, <2>3, <2>4, <2>5 DEF ServerInv
<1>2. CASE Crash
  <2>1. ServiceInv'
    BY <1>2, ServiceCrash DEF Crash, ServerInv
  <2>2. TableOK' /\ ByeInv'
    BY <1>2 DEF Crash, TableOK, FreeTable, ByeInv, InHand
  <2>3. Cardinality(Taken') = 0
    <3>1. Taken' = {}  BY <1>2 DEF Crash, Taken, FreeTable
    <3> QED  BY <3>1, FS_EmptySet
  <2>4. Pool!PoolNext
    BY <1>2, PoolCrash DEF Crash
  <2> QED  BY <1>0, <1>2, <2>1, <2>2, <2>3, <2>4 DEF Crash, ServerInv
<1>3. CASE Recvfrom
  <2>1. ServiceInv'
    BY <1>3, ServiceReceive DEF Recvfrom, ServerInv, tablevars
  <2>2. buf' \in RealRequests
    BY <1>3 DEF Recvfrom, ServerInv, ServiceInv, RealNames
  <2>3. ByeInv'
    <3> SUFFICES ASSUME NEW c \in Clients, cstate[c] = "bye", buf'.from = c
                 PROVE  OnTheBooks(c)
      BY <1>3 DEF Recvfrom, ByeInv, InHand, OnTheBooks, Given, Answer, clientvars,
                  tablevars
    <3>1. queue \in Seq(Requests) /\ buf' = queue[1] /\ 1 \in 1 .. Len(queue)
      BY <1>3, EmptySeq, HeadTailProperties
      DEF Recvfrom, ServerInv, ServiceInv, ClientInv, ClientTypeOK
    <3>2. OwnRequest(queue[1])
      BY <3>1 DEF ServerInv, ServiceInv, LineInv, OwnRequests
    <3>3. inbox[c] = <<>>
      BY <3>1, <3>2 DEF OwnRequest
    <3>4. ~GivenBack(c) /\ Granted(c)
      BY <1>3, <3>3 DEF GivenBack, Granted, InHand, Recvfrom
    <3> QED  BY <3>4 DEF ServerInv, ServiceInv, TicketInv
  <2>4. UNCHANGED Pool!poolvars
    BY <1>3, PoolStutter DEF Recvfrom, tablevars
  <2> QED
    BY <1>0, <1>3, <2>1, <2>2, <2>3, <2>4
    DEF Recvfrom, ServerInv, tablevars, TableOK, Taken
<1>4. CASE HandleRequest
  <2>1. ~byhand
    BY <1>4
    DEF HandleRequest, HelloFail, HelloTick, GoodbyeFail, GoodbyeThnx,
        InvalidRequest, Reply, clientvars
  <2> QED  BY <1>4, <2>1, HandleStep
<1>5. ASSUME NEW c \in Clients, ClientNext(c), UNCHANGED <<tablevars, buf>>
      PROVE  ServerInv' /\ [Pool!PoolNext]_(Pool!poolvars)
  <2>1. ServiceInv'
    BY <1>5, ServiceClient DEF ServerInv, tablevars
  <2>2. up' = up
    BY <1>5, AskerWaits DEF ServerInv
  <2>3. ByeInv'
    <3> SUFFICES ASSUME NEW d \in Clients, cstate'[d] = "bye", InHand(d)
                 PROVE  OnTheBooks(d)'
      BY <1>5 DEF ByeInv, InHand
    <3>1. /\ cstate[d] = "bye" /\ pid'[d] = pid[d] /\ ticket'[d] = ticket[d]
          /\ starts' = starts
      BY <1>5, AskerWaits DEF ServerInv, Live
    <3>2. OnTheBooks(d)
      BY <3>1 DEF ServerInv, ByeInv
    <3> QED  BY <1>5, <2>2, <3>1, <3>2 DEF OnTheBooks, Given, tablevars
  <2>4. [Pool!PoolNext]_(Pool!poolvars)
    BY <1>5, <2>1, PoolClient DEF ServerInv, tablevars
  <2> QED  BY <1>0, <1>5, <2>1, <2>2, <2>3, <2>4
           DEF ServerInv, tablevars, TableOK, Taken
<1>6. CASE UNCHANGED vars
  <2>1. ServiceInv' /\ UNCHANGED Pool!poolvars
    BY <1>6, ServiceStutter, PoolStutter
    DEF vars, tablevars, netvars, ServerInv
  <2>2. ByeInv'
    BY <1>6
    DEF vars, tablevars, netvars, clientvars, ServerInv, ByeInv, InHand,
        OnTheBooks, Given, Answer
  <2> QED
    BY <1>0, <1>6, <2>1, <2>2
    DEF vars, tablevars, netvars, ServerInv, TableOK, Taken
<1> QED  BY <1>1, <1>2, <1>3, <1>4, <1>5, <1>6 DEF Next, ServerNext

\* The types hold in every state the system can reach, the invariant as long as
\* nobody types a HELO or a GBYE by hand.
ByHandInv == TypeInv /\ (~byhand => ServerInv)

LEMMA ByHandInvHolds == Spec => []ByHandInv
<1>1. Init => ByHandInv
  BY InitTypeInv, InitServerInv DEF ByHandInv
<1>2. ByHandInv /\ [Next]_vars => ByHandInv'
  <2> SUFFICES ASSUME ByHandInv, [Next]_vars  PROVE ByHandInv'
    OBVIOUS
  <2>1. TypeInv'
    BY TypeInvStep DEF ByHandInv
  <2>2. ASSUME ~byhand'  PROVE ServerInv'
    <3>1. ~byhand
      BY <2>2, ByHandForGood DEF ByHandInv
    <3> QED  BY <2>2, <3>1, ServerInvStep DEF ByHandInv
  <2> QED  BY <2>1, <2>2 DEF ByHandInv
<1> QED  BY <1>1, <1>2, PTL DEF Spec

-----------------------------------------------------------------------------
(* Theorems                                                                 *)

\* The state keeps its types, whatever is typed by hand; the count never leaves
\* 0 .. MAXUSERS as long as no HELO or GBYE is.
THEOREM TypeTheorem == Spec => []TypeOK
<1>1. TypeInv => /\ ClientTypeOK
                 /\ ticket_array \in [Slots -> Pids \cup {TICKET_AVAIL}]
                 /\ num_tickets_out \in Int
                 /\ buf \in Requests \cup {NoRequest}
  BY DEF TypeInv, ClientInv, TableOK
<1>2. ServerInv => num_tickets_out \in 0 .. MAXUSERS
  BY TakenFinite DEF ServerInv
<1>3. ByHandInv => TypeOK
  BY <1>1, <1>2 DEF ByHandInv, TypeOK
<1> QED  BY <1>3, ByHandInvHolds, PTL

\* The count do_hello tests is the number of slots taken, until somebody types a
\* HELO or a GBYE by hand.
THEOREM CountTheorem == Spec => []CountMatchesTable
<1>1. ByHandInv => CountMatchesTable
  BY DEF ByHandInv, ServerInv, CountMatchesTable
<1> QED  BY <1>1, ByHandInvHolds, PTL

\* GBYE is answered with THNX by the server process that printed the ticket,
\* and with FAIL by any later one, whoever had the pid before or has it now,
\* until somebody types a HELO or a GBYE by hand.
THEOREM AnswersTheorem == Spec => []AnswersTrue
<1>1. ByHandInv => AnswersTrue
  BY DEF ByHandInv, ServerInv, ServiceInv, AnswersTrue
<1> QED  BY <1>1, ByHandInvHolds, PTL

\* Who works keeps his slot, and never more work than were let in, until
\* somebody types a HELO or a GBYE by hand: the server does no more for its
\* tickets than the table it keeps.
THEOREM LicenseTheorem == Spec => [](HolderKeepsTicket /\ WithinLicense)
<1>1. ServerInv => HolderKeepsTicket /\ WithinLicense
  BY HolderKeeps, License DEF ServerInv
<1>2. ByHandInv => HolderKeepsTicket /\ WithinLicense
  BY <1>1 DEF ByHandInv, HolderKeepsTicket, WithinLicense
<1> QED  BY <1>2, ByHandInvHolds, PTL

\* The server, its clients and the sockets between them are a pool of slots,
\* until somebody types a HELO or a GBYE by hand.
THEOREM PoolRefinement == Spec => ImplementsPool
<1>1. Init => Pool!PoolInit
  BY PoolStarts DEF Init
<1>2. ByHandInv /\ [Next]_vars => [~byhand' => Pool!PoolNext]_(Pool!poolvars)
  <2> SUFFICES ASSUME ByHandInv, [Next]_vars, ~byhand'
               PROVE  [Pool!PoolNext]_(Pool!poolvars)
    OBVIOUS
  <2>1. ~byhand
    BY ByHandForGood DEF ByHandInv
  <2> QED  BY <2>1, ServerInvStep DEF ByHandInv
<1> QED
  BY <1>1, <1>2, ByHandInvHolds, PTL DEF Spec, ImplementsPool
=============================================================================
