------------------------- MODULE LicenseServerProofs -------------------------
(***************************************************************************)
(* Theorems about the version 2 license server, for every number of        *)
(* clients, pids, slots, queue places and restarts.                        *)
(***************************************************************************)
EXTENDS LicenseServer, LicenseClientProofs

USE DEF NotRunning, TICKET_AVAIL, NoPid

-----------------------------------------------------------------------------
(* Types *)

ServerTypeOK ==
  /\ ticket_array \in [Slots -> Pids \cup {TICKET_AVAIL}]
  /\ num_tickets_out \in Int
  /\ spc \in ServerStates
  /\ buf \in Requests \cup {NoRequest}
  /\ x \in Slots
  /\ reg \in Int
  /\ response \in Replies \cup {NoResponse}
  /\ time_left \in BOOLEAN
  /\ armed \in BOOLEAN
  /\ pending \in BOOLEAN
  /\ hi \in NotRunning .. MAXUSERS
  /\ stalled \in BOOLEAN

\* The types, with what is known of the request and the answer at hand.
TypeInv ==
  /\ ClientInv
  /\ ServerTypeOK
  /\ spc \notin {"recv", "rearm"} => buf \in Requests
  /\ spc \in {"inc", "incst", "send"} => response \in Replies

\* The strengthened type invariant contains the one the runs check.
LEMMA TypeInvOK == TypeInv => TypeOK
  BY DEF TypeInv, TypeOK, ClientInv, ServerTypeOK

\* A server that has not been started yet is within its types.
LEMMA InitTypeInv == Init => TypeInv
<1> SUFFICES ASSUME Init  PROVE TypeInv
  OBVIOUS
<1>1. ClientInv  BY ClientInitInv DEF Init
<1>2. /\ ticket_array \in [Slots -> Pids \cup {TICKET_AVAIL}]
      /\ x \in Slots
  BY ZeroSlot DEF Init, Blank, FreeTable
<1>3. hi \in NotRunning .. MAXUSERS
  BY ClientAssumption DEF ClientAssumption, Init, Blank
<1>4. /\ num_tickets_out \in Int /\ reg \in Int
      /\ spc \in ServerStates
      /\ buf \in Requests \cup {NoRequest}
      /\ response \in Replies \cup {NoResponse}
  BY DEF Init, Blank, ServerStates
<1>5. /\ time_left \in BOOLEAN /\ armed \in BOOLEAN /\ pending \in BOOLEAN
      /\ stalled \in BOOLEAN
  BY DEF Init, Blank
<1> QED
  BY <1>1, <1>2, <1>3, <1>4, <1>5 DEF TypeInv, ServerTypeOK, Init, Blank

\* Steps that leave the clients and the sockets alone.
LEMMA ClientInvStutter ==
  ASSUME ClientInv, UNCHANGED <<netvars, clientvars>>
  PROVE  ClientInv'
  BY DEF ClientInv, ClientTypeOK, Live, netvars, clientvars

\* A composed answer without a ticket is a reply.
LEMMA SayType ==
  ASSUME TypeInv, NEW type \in ReplyTypes
  PROVE  Say(type) \in Replies
  BY ZeroSlot DEF TypeInv, ClientInv, ClientTypeOK, Say, Replies

\* The server process comes and goes.
LEMMA LifeTypeInv ==
  ASSUME TypeInv, StartServer \/ Crash
  PROVE  TypeInv'
<1> USE DEF TypeInv, ServerTypeOK
<1>1. CASE StartServer
  <2>1. ClientInv'
    BY <1>1, ClientAssumption
    DEF StartServer, ClientInv, ClientTypeOK, Live, clientvars, ClientAssumption
  <2> QED  BY <1>1, <2>1 DEF StartServer, tablevars, mainvars
<1>2. CASE Crash
  <2>0. queue' \in Seq(Requests)
    BY <1>2 DEF Crash
  <2>1. ClientInv'
    BY <1>2, <2>0 DEF Crash, ClientInv, ClientTypeOK, Live, clientvars
  <2>2. hi' \in NotRunning .. MAXUSERS
    BY <1>2, ClientAssumption DEF Crash, ClientAssumption
  <2>3. ticket_array' \in [Slots -> Pids \cup {TICKET_AVAIL}]
    BY <1>2 DEF Crash, FreeTable
  <2>4. ServerTypeOK'
    BY <1>2, <2>2, <2>3, ZeroSlot DEF Crash, ServerStates
  <2> QED  BY <1>2, <2>1, <2>4 DEF Crash
<1> QED  BY <1>1, <1>2

\* The timer and the handler.
LEMMA HandlerTypeInv ==
  ASSUME TypeInv, Expire \/ HandlerNext
  PROVE  TypeInv'
<1> USE DEF TypeInv, ServerTypeOK, tablevars, mainvars
<1>1. CASE Expire
  BY <1>1, ClientInvStutter DEF Expire
<1>2. CASE Deliver_SIGALRM
  <2>1. hi' \in NotRunning .. MAXUSERS
    BY <1>2, ClientAssumption DEF Deliver_SIGALRM, ClientAssumption
  <2> QED  BY <1>2, <2>1, ClientInvStutter DEF Deliver_SIGALRM
<1>3. CASE ReclaimSlot
  <2>1. hi \in Slots /\ hi' \in NotRunning .. MAXUSERS
    BY <1>3, ClientAssumption DEF ReclaimSlot, Slots, ClientAssumption
  <2>2. /\ ticket_array' \in [Slots -> Pids \cup {TICKET_AVAIL}]
        /\ num_tickets_out' \in Int
    BY <1>3, <2>1 DEF ReclaimSlot
  <2> QED  BY <1>3, <2>1, <2>2, ClientInvStutter DEF ReclaimSlot
<1>4. CASE ReclaimDone
  BY <1>4, ClientInvStutter, ClientAssumption DEF ReclaimDone, ClientAssumption
<1> QED  BY <1>1, <1>2, <1>3, <1>4 DEF HandlerNext

\* The request loop.
LEMMA MainTypeInv ==
  ASSUME TypeInv, MainNext
  PROVE  TypeInv'
<1> USE DEF TypeInv, ServerTypeOK, tablevars, mainvars, alarmvars, MainRuns,
            ServerStates, Handling
<1>1. CASE Recvfrom
  <2>1. queue \in Seq(Requests) /\ queue # <<>>
    BY <1>1 DEF Recvfrom, ClientInv, ClientTypeOK
  <2>2. buf' \in Requests /\ queue' \in Seq(Requests)
    BY <1>1, <2>1 DEF Recvfrom
  <2>3. ClientInv'
    BY <1>1, <2>2 DEF Recvfrom, ClientInv, ClientTypeOK, Live, clientvars
  <2> QED  BY <1>1, <2>2, <2>3 DEF Recvfrom
<1>2. CASE AlarmOff  BY <1>2, ClientInvStutter DEF AlarmOff
<1>3. CASE AlarmOffTooLate  BY <1>3, ClientInvStutter DEF AlarmOffTooLate
<1>4. ASSUME NEW type \in ReplyTypes, spc \notin {"recv", "rearm"}, Respond(Say(type))
      PROVE  TypeInv'
  <2>1. response' \in Replies  BY <1>4, SayType DEF Respond
  <2> QED  BY <1>4, <2>1, ClientInvStutter DEF Respond
<1>5. CASE HelloNext
  <2>1. CASE HelloFull  BY <1>4, <2>1 DEF HelloFull, ReplyTypes
  <2>2. CASE HelloNotFull  BY <2>2, ClientInvStutter DEF HelloNotFull
  <2>3. CASE HelloCorrupt  BY <1>4, <2>3 DEF HelloCorrupt, ReplyTypes
  <2>4. CASE HelloScan  BY <2>4, ClientInvStutter DEF HelloScan
  <2>5. CASE HelloSet
    <3>1. buf.pid \in Pids \cup {TICKET_AVAIL}
      BY <2>5 DEF HelloSet, Requests
    <3>2. ticket_array' \in [Slots -> Pids \cup {TICKET_AVAIL}]
      BY <2>5, <3>1 DEF HelloSet
    <3> QED  BY <2>5, <3>2, ClientInvStutter DEF HelloSet
  <2>6. CASE HelloPrint
    <3>1. response' \in Replies
      BY <2>6 DEF HelloPrint, Replies, ReplyTypes, ClientInv, ClientTypeOK
    <3> QED  BY <2>6, <3>1, ClientInvStutter DEF HelloPrint
  <2>7. CASE HelloLoad
    BY <2>7, ClientInvStutter DEF HelloLoad, LoadCount
  <2>8. CASE HelloStore
    BY <2>8, ClientInvStutter DEF HelloStore, StoreCount
  <2> QED  BY <1>5, <2>1, <2>2, <2>3, <2>4, <2>5, <2>6, <2>7, <2>8 DEF HelloNext
<1>6. CASE GoodbyeNext
  <2>1. CASE GoodbyeBogus  BY <1>4, <2>1 DEF GoodbyeBogus, ReplyTypes
  <2>2. CASE GoodbyeMatch
    <3>1. buf.slot \in Slots  BY <2>2 DEF GoodbyeMatch, Requests, TicketInBuf
    <3> QED  BY <2>2, <3>1, ClientInvStutter DEF GoodbyeMatch
  <2>3. CASE GoodbyeFree
    <3>1. ticket_array' \in [Slots -> Pids \cup {TICKET_AVAIL}]
      BY <2>3 DEF GoodbyeFree
    <3> QED  BY <2>3, <3>1, ClientInvStutter DEF GoodbyeFree
  <2>4. CASE GoodbyeLoad
    BY <2>4, ClientInvStutter DEF GoodbyeLoad, LoadCount
  <2>5. CASE GoodbyeStore
    <3>1. response' \in Replies
      BY <2>5, SayType DEF GoodbyeStore, ReplyTypes
    <3> QED  BY <2>5, <3>1, ClientInvStutter DEF GoodbyeStore, StoreCount
  <2> QED  BY <1>6, <2>1, <2>2, <2>3, <2>4, <2>5 DEF GoodbyeNext
<1>7. CASE ValidateTicket  BY <1>4, <1>7 DEF ValidateTicket, ReplyTypes
<1>8. CASE InvalidRequest  BY <1>4, <1>8 DEF InvalidRequest, ReplyTypes
<1>9. CASE SendResponse
  <2>1. buf.from \in Clients /\ response \in Replies
    BY <1>9 DEF SendResponse, Requests
  <2>2. inbox' \in [Clients -> Seq(Replies)]
    BY <1>9, <2>1, DeliverType DEF SendResponse
  <2>3. ClientInv'
    BY <1>9, <2>2 DEF SendResponse, ClientInv, ClientTypeOK, Live, clientvars
  <2> QED  BY <1>9, <2>3, ZeroSlot DEF SendResponse
<1>10. CASE AlarmBackOn
  BY <1>10, ZeroSlot, ClientInvStutter DEF AlarmBackOn
<1> QED
  BY <1>1, <1>2, <1>3, <1>5, <1>6, <1>7, <1>8, <1>9, <1>10 DEF MainNext

\* No step of the server or of a client leaves the types.
LEMMA TypeInvStep == TypeInv /\ [Next]_vars => TypeInv'
<1> SUFFICES ASSUME TypeInv, [Next]_vars  PROVE TypeInv'
  OBVIOUS
<1>1. CASE ServerNext
  BY <1>1, LifeTypeInv, HandlerTypeInv, MainTypeInv DEF ServerNext
<1>2. ASSUME NEW c \in Clients, ClientNext(c) \/ ValidateNext(c),
             UNCHANGED servervars
      PROVE  TypeInv'
  <2>1. ClientInv'  BY <1>2, ClientStepInv DEF TypeInv
  <2> QED
    BY <1>2, <2>1
    DEF TypeInv, ServerTypeOK, servervars, tablevars, mainvars, alarmvars
<1>3. CASE UNCHANGED vars
  BY <1>3, ClientInvStutter
  DEF vars, TypeInv, ServerTypeOK, servervars, tablevars, mainvars, alarmvars
<1> QED  BY <1>1, <1>2, <1>3 DEF Next

\* The state of the server, the clients and the sockets keeps its types.
THEOREM TypeTheorem == Spec => []TypeOK
<1>1. Spec => []TypeInv
  BY InitTypeInv, TypeInvStep, PTL DEF Spec
<1> QED  BY <1>1, TypeInvOK, PTL

-----------------------------------------------------------------------------
(* The table and its count.                                                 *)
(*                                                                          *)
(* CountMatchesTable is not inductive.  It holds because the handler never  *)
(* runs between the change of a slot and the change of the count, and that  *)
(* is so because the timer does not run out again before handle_request is  *)
(* over (~stalled): a signal can be left over from alarm(0) only when the     *)
(* request is about to be dispatched.  It also needs that no HELO and no    *)
(* GBYE names pid 0 (~byhand), or do_hello would count a slot that stays    *)
(* free, and do_goodbye a free one as returned.                             *)

CountOffset ==
  IF spc \in {"print", "inc", "incst"} THEN -1
  ELSE IF spc \in {"dec", "decst"} THEN 1 ELSE 0

CountInv ==
  /\ RealNames
  /\ spc \in Handling \ {"dispatch"} => hi = NotRunning /\ ~pending
  /\ num_tickets_out = Cardinality(Taken) + CountOffset
  /\ spc \in {"incst", "decst"} => reg = num_tickets_out
  /\ spc \notin {"recv", "rearm"} => buf \in RealRequests
  /\ spc \in {"scan", "set"} => buf.type = "HELO"
  /\ spc = "scan" => num_tickets_out < MAXUSERS
  /\ spc = "set" => ticket_array[x] = TICKET_AVAIL
  /\ spc \in {"print", "free"} => ticket_array[x] # TICKET_AVAIL
  /\ spc \in {"inc", "incst", "send"} => response \in RealReplies

\* The table holds pids and free slots.
LEMMA TableTyped == TypeInv => TableOK
  BY DEF TypeInv, ServerTypeOK, TableOK

\* At the start no slot is taken and none is counted.
LEMMA InitCountInv == Init => CountInv
<1> SUFFICES ASSUME Init  PROVE CountInv
  OBVIOUS
<1>1. RealNames  BY ClientInitReal DEF Init
<1>2. Cardinality(Taken) = 0  BY BlankCount DEF Init, Blank
<1> QED
  BY <1>1, <1>2 DEF CountInv, CountOffset, Handling, Init, Blank

\* Steps that leave the table, the clients and the sockets alone.
LEMMA TableStutter ==
  ASSUME UNCHANGED <<netvars, clientvars, ticket_array>>
  PROVE  Taken' = Taken /\ (RealNames => RealNames')
  BY DEF Taken, RealNames, netvars, clientvars

\* setup leaves count and table empty; a crash forgets both together.
LEMMA LifeCountInv ==
  ASSUME TypeInv, CountInv, StartServer \/ Crash
  PROVE  CountInv'
<1>1. CASE StartServer
  <2>1. RealNames' /\ Taken' = Taken
    BY <1>1 DEF CountInv, RealNames, StartServer, clientvars, tablevars, Taken
  <2> QED
    BY <1>1, <2>1 DEF CountInv, CountOffset, StartServer, tablevars, mainvars
<1>2. CASE Crash
  <2>1. queue' \in Seq(RealRequests)  BY <1>2 DEF Crash
  <2>2. RealNames'  BY <1>2, <2>1 DEF CountInv, RealNames, Crash, clientvars
  <2>3. Taken' = {}  BY <1>2 DEF Crash, Taken, FreeTable
  <2>4. Cardinality(Taken') = 0  BY <2>3, FS_EmptySet
  <2> QED
    BY <1>2, <2>2, <2>4 DEF CountInv, CountOffset, Crash, Handling
<1> QED  BY <1>1, <1>2

\* Without a stall the handler meets main in recvfrom, between recvfrom and
\* alarm(0), or at the entry of handle_request.
LEMMA HandlerCountInv ==
  ASSUME ~stalled', TypeInv, CountInv, Expire \/ HandlerNext
  PROVE  CountInv'
<1> USE DEF CountInv, tablevars, mainvars, Handling
<1>1. CASE Expire
  BY <1>1, TableStutter DEF Expire, CountOffset
<1>2. CASE Deliver_SIGALRM
  BY <1>2, TableStutter DEF Deliver_SIGALRM, CountOffset
<1>3. CASE ReclaimSlot
  <2>1. hi \in Slots /\ hi # NotRunning
    BY <1>3, ZeroSlot DEF ReclaimSlot
  <2>2. spc \in {"recv", "got", "dispatch"}
    BY <2>1 DEF TypeInv, ServerTypeOK, ServerStates
  <2>3. RealNames'
    BY <1>3 DEF ReclaimSlot, RealNames, netvars, clientvars
  <2>4. num_tickets_out' = Cardinality(Taken')
    <3>1. CASE UNCHANGED tablevars
      <4>1. Taken' = Taken  BY <3>1 DEF Taken
      <4> QED  BY <2>2, <3>1, <4>1, TakenFinite DEF CountOffset
    <3>2. CASE ~UNCHANGED tablevars
      <4>1. /\ ticket_array[hi] # TICKET_AVAIL
            /\ ticket_array' = [ticket_array EXCEPT ![hi] = TICKET_AVAIL]
            /\ num_tickets_out' = num_tickets_out - 1
        BY <1>3, <3>2 DEF ReclaimSlot
      <4>2. Cardinality(Taken') = Cardinality(Taken) - 1
        BY <2>1, <4>1, FreeSlot, TableTyped
      <4> QED  BY <2>2, <4>1, <4>2, TakenFinite DEF CountOffset
    <3> QED  BY <3>1, <3>2
  <2> QED
    BY <1>3, <2>2, <2>3, <2>4, TakenFinite DEF ReclaimSlot, CountOffset
<1>4. CASE ReclaimDone
  BY <1>4, TableStutter DEF ReclaimDone, CountOffset
<1> QED  BY <1>1, <1>2, <1>3, <1>4 DEF HandlerNext

\* An answer without a ticket in it.
LEMMA SayReal ==
  ASSUME TypeInv, NEW type \in ReplyTypes \ {"TICK"}
  PROVE  Say(type) \in RealReplies
  BY SayType DEF Say, RealReplies

\* Composing an answer without a ticket changes neither count nor table.
LEMMA RespondCountInv ==
  ASSUME TypeInv, CountInv, spc \in {"dispatch", "scan"}, MainRuns(spc),
         NEW type \in ReplyTypes \ {"TICK"}, Respond(Say(type))
  PROVE  CountInv'
<1>1. response' \in RealReplies  BY SayReal DEF Respond
<1>2. Taken' = Taken /\ RealNames'
  BY TableStutter DEF Respond, tablevars, CountInv
<1> QED
  BY <1>1, <1>2
  DEF Respond, CountInv, CountOffset, Handling, MainRuns, tablevars, alarmvars

\* do_hello: the slot is taken first and counted two instructions later.
LEMMA HelloCountInv ==
  ASSUME TypeInv, CountInv, HelloNext
  PROVE  CountInv'
<1> USE DEF CountInv, tablevars, alarmvars, Handling, MainRuns
<1>1. CASE HelloFull
  BY <1>1, RespondCountInv DEF HelloFull, ReplyTypes
<1>2. CASE HelloNotFull
  BY <1>2, TableStutter DEF HelloNotFull, CountOffset
<1>3. CASE HelloCorrupt
  BY <1>3, RespondCountInv DEF HelloCorrupt, ReplyTypes
<1>4. CASE HelloScan
  <2>1. ticket_array'[x'] = TICKET_AVAIL
    BY <1>4 DEF HelloScan, Taken
  <2> QED  BY <1>4, <2>1, TableStutter DEF HelloScan, CountOffset
<1>5. CASE HelloSet
  <2>1. buf.pid \in Pids /\ x \in Slots
    BY <1>5 DEF HelloSet, RealRequests, ChangesTable, TypeInv, ServerTypeOK
  <2>2. Cardinality(Taken') = Cardinality(Taken) + 1
    BY <1>5, <2>1, TakeSlot, TableTyped DEF HelloSet
  <2>3. RealNames'
    BY <1>5 DEF HelloSet, RealNames, netvars, clientvars
  <2>4. ticket_array'[x'] # TICKET_AVAIL
    BY <1>5, <2>1, ClientAssumption
    DEF HelloSet, TypeInv, ServerTypeOK, ClientAssumption
  <2> QED
    BY <1>5, <2>2, <2>3, <2>4, TakenFinite DEF HelloSet, CountOffset
<1>6. CASE HelloPrint
  <2>1. response' \in RealReplies
    BY <1>6
    DEF HelloPrint, RealReplies, Replies, ReplyTypes, TypeInv, ServerTypeOK,
        ClientInv, ClientTypeOK
  <2> QED  BY <1>6, <2>1, TableStutter DEF HelloPrint, CountOffset
<1>7. CASE HelloLoad
  BY <1>7, TableStutter DEF HelloLoad, LoadCount, CountOffset
<1>8. CASE HelloStore
  BY <1>8, TableStutter, TakenFinite DEF HelloStore, StoreCount, CountOffset
<1> QED
  BY <1>1, <1>2, <1>3, <1>4, <1>5, <1>6, <1>7, <1>8 DEF HelloNext

\* do_goodbye: the slot is freed first and taken off the count after it.
LEMMA GoodbyeCountInv ==
  ASSUME TypeInv, CountInv, GoodbyeNext
  PROVE  CountInv'
<1> USE DEF CountInv, tablevars, alarmvars, Handling, MainRuns
<1>1. CASE GoodbyeBogus
  BY <1>1, RespondCountInv DEF GoodbyeBogus, ReplyTypes
<1>2. CASE GoodbyeMatch
  <2>1. ticket_array'[x'] # TICKET_AVAIL
    BY <1>2, ClientAssumption
    DEF GoodbyeMatch, RealRequests, ChangesTable, TicketInBuf, ClientAssumption
  <2> QED  BY <1>2, <2>1, TableStutter DEF GoodbyeMatch, CountOffset
<1>3. CASE GoodbyeFree
  <2>1. x \in Slots  BY DEF TypeInv, ServerTypeOK
  <2>2. Cardinality(Taken') = Cardinality(Taken) - 1
    BY <1>3, <2>1, FreeSlot, TableTyped DEF GoodbyeFree
  <2>3. RealNames'
    BY <1>3 DEF GoodbyeFree, RealNames, netvars, clientvars
  <2> QED
    BY <1>3, <2>2, <2>3, TakenFinite DEF GoodbyeFree, CountOffset
<1>4. CASE GoodbyeLoad
  BY <1>4, TableStutter DEF GoodbyeLoad, LoadCount, CountOffset
<1>5. CASE GoodbyeStore
  <2>1. response' \in RealReplies
    BY <1>5, SayReal DEF GoodbyeStore, ReplyTypes
  <2> QED
    BY <1>5, <2>1, TableStutter, TakenFinite
    DEF GoodbyeStore, StoreCount, CountOffset
<1> QED  BY <1>1, <1>2, <1>3, <1>4, <1>5 DEF GoodbyeNext

\* The whole request loop keeps count and table in step.
LEMMA MainCountInv ==
  ASSUME TypeInv, CountInv, MainNext
  PROVE  CountInv'
<1> USE DEF CountInv, tablevars, alarmvars, Handling, MainRuns
<1>1. CASE Recvfrom
  <2>1. queue \in Seq(RealRequests) /\ queue # <<>>
    BY <1>1 DEF Recvfrom, RealNames
  <2>2. buf' \in RealRequests /\ queue' \in Seq(RealRequests)
    BY <1>1, <2>1 DEF Recvfrom
  <2>3. RealNames' /\ Taken' = Taken
    BY <1>1, <2>2 DEF Recvfrom, RealNames, clientvars, Taken
  <2> QED  BY <1>1, <2>2, <2>3 DEF Recvfrom, CountOffset
<1>2. CASE AlarmOff
  BY <1>2, TableStutter DEF AlarmOff, CountOffset
<1>3. CASE AlarmOffTooLate
  BY <1>3, TableStutter DEF AlarmOffTooLate, CountOffset
<1>4. CASE ValidateTicket
  BY <1>4, RespondCountInv DEF ValidateTicket, ReplyTypes
<1>5. CASE InvalidRequest
  BY <1>5, RespondCountInv DEF InvalidRequest, ReplyTypes
<1>6. CASE SendResponse
  <2>1. buf.from \in Clients /\ response \in RealReplies
    BY <1>6 DEF SendResponse, RealRequests, Requests
  <2>2. inbox' \in [Clients -> Seq(RealReplies)]
    BY <1>6, <2>1, DeliverReal DEF SendResponse
  <2>3. RealNames' /\ Taken' = Taken
    BY <1>6, <2>2 DEF SendResponse, RealNames, clientvars, Taken
  <2> QED  BY <1>6, <2>3 DEF SendResponse, CountOffset
<1>7. CASE AlarmBackOn
  BY <1>7, TableStutter DEF AlarmBackOn, CountOffset
<1> QED
  BY <1>1, <1>2, <1>3, <1>4, <1>5, <1>6, <1>7, HelloCountInv, GoodbyeCountInv
  DEF MainNext

\* Once the server has been stalled the history says so for good.
LEMMA StalledStays ==
  ASSUME TypeInv, [Next]_vars, stalled
  PROVE  stalled'
<1> USE DEF alarmvars, servervars
<1>1. CASE StartServer \/ Crash
  BY <1>1 DEF StartServer, Crash
<1>2. CASE Expire
  BY <1>2 DEF Expire
<1>3. CASE HandlerNext
  BY <1>3 DEF HandlerNext, Deliver_SIGALRM, ReclaimSlot, ReclaimDone
<1>4. CASE MainNext
  <2>1. CASE HelloNext
    BY <2>1 DEF HelloNext, HelloFull, HelloNotFull, HelloCorrupt, HelloScan,
                HelloSet, HelloPrint, HelloLoad, HelloStore, Respond,
                LoadCount, StoreCount
  <2>2. CASE GoodbyeNext
    BY <2>2 DEF GoodbyeNext, GoodbyeBogus, GoodbyeMatch, GoodbyeFree,
                GoodbyeLoad, GoodbyeStore, Respond, LoadCount,
                StoreCount
  <2>3. CASE Recvfrom \/ AlarmOff \/ AlarmOffTooLate \/ AlarmBackOn
    BY <2>3 DEF Recvfrom, AlarmOff, AlarmOffTooLate, AlarmBackOn
  <2>4. CASE ValidateTicket \/ InvalidRequest \/ SendResponse
    BY <2>4 DEF ValidateTicket, InvalidRequest, SendResponse, Respond
  <2> QED  BY <1>4, <2>1, <2>2, <2>3, <2>4 DEF MainNext
<1>5. CASE UNCHANGED servervars \/ UNCHANGED vars
  BY <1>5 DEF vars
<1> QED  BY <1>1, <1>2, <1>3, <1>4, <1>5 DEF Next, ServerNext

\* What was typed by hand stays typed, in every step of the system.
LEMMA ByHandForGood ==
  ASSUME TypeInv, [Next]_vars, ~byhand'
  PROVE  ~byhand
<1> USE DEF clientvars
<1>1. CASE StartServer \/ Crash \/ Expire
  BY <1>1 DEF StartServer, Crash, Expire
<1>2. CASE HandlerNext
  BY <1>2 DEF HandlerNext, Deliver_SIGALRM, ReclaimSlot, ReclaimDone
<1>3. CASE MainNext
  <2>1. CASE HelloNext
    BY <2>1 DEF HelloNext, HelloFull, HelloNotFull, HelloCorrupt, HelloScan,
                HelloSet, HelloPrint, HelloLoad, HelloStore, Respond,
                LoadCount, StoreCount
  <2>2. CASE GoodbyeNext
    BY <2>2 DEF GoodbyeNext, GoodbyeBogus, GoodbyeMatch, GoodbyeFree,
                GoodbyeLoad, GoodbyeStore, Respond, LoadCount,
                StoreCount
  <2>3. CASE Recvfrom \/ AlarmOff \/ AlarmOffTooLate \/ AlarmBackOn
    BY <2>3 DEF Recvfrom, AlarmOff, AlarmOffTooLate, AlarmBackOn
  <2>4. CASE ValidateTicket \/ InvalidRequest \/ SendResponse
    BY <2>4 DEF ValidateTicket, InvalidRequest, SendResponse, Respond
  <2> QED  BY <1>3, <2>1, <2>2, <2>3, <2>4 DEF MainNext
<1>4. ASSUME NEW c \in Clients, ClientNext(c) \/ ValidateNext(c)  PROVE ~byhand
  BY <1>4, ByHandStays DEF TypeInv
<1>5. CASE UNCHANGED vars
  BY <1>5 DEF vars
<1> QED  BY <1>1, <1>2, <1>3, <1>4, <1>5 DEF Next, ServerNext

\* All steps of the server and of the clients keep the count in order, unless
\* one of them is the one that stalls the server or types a HELO or a GBYE.
LEMMA CountInvStep ==
  ASSUME TypeInv, CountInv, [Next]_vars, ~stalled', ~byhand'
  PROVE  CountInv'
<1>1. CASE ServerNext
  BY <1>1, LifeCountInv, HandlerCountInv, MainCountInv DEF ServerNext
<1>2. ASSUME NEW c \in Clients, ClientNext(c) \/ ValidateNext(c),
             UNCHANGED servervars
      PROVE  CountInv'
  <2>1. RealNames'  BY <1>2, ClientStepReal DEF TypeInv, CountInv
  <2> QED
    BY <1>2, <2>1
    DEF CountInv, CountOffset, Taken, servervars, tablevars, mainvars, alarmvars
<1>3. CASE UNCHANGED vars
  BY <1>3, TableStutter
  DEF CountInv, CountOffset, vars, servervars, tablevars, mainvars, alarmvars
<1> QED  BY <1>1, <1>2, <1>3 DEF Next

\* What the theorems below need of every state: the types, and a table in order
\* as long as the server was not stalled and nothing was typed by hand.
Unstalled == TypeInv /\ (~stalled /\ ~byhand => CountInv)

\* It holds at every moment of every run of the system.
LEMMA UnstalledHolds == Spec => []Unstalled
<1>1. Init => Unstalled
  BY InitTypeInv, InitCountInv DEF Unstalled
<1>2. Unstalled /\ [Next]_vars => Unstalled'
  <2> SUFFICES ASSUME Unstalled, [Next]_vars  PROVE Unstalled'
    OBVIOUS
  <2>1. TypeInv'  BY TypeInvStep DEF Unstalled
  <2>2. ASSUME ~stalled', ~byhand'  PROVE CountInv'
    <3>1. ~stalled /\ ~byhand
      BY <2>2, StalledStays, ByHandForGood DEF Unstalled
    <3> QED  BY <2>2, <3>1, CountInvStep DEF Unstalled
  <2> QED  BY <2>1, <2>2 DEF Unstalled
<1> QED  BY <1>1, <1>2, PTL DEF Spec

\* As long as no handle_request was held up for RECLAIM_INTERVAL seconds and
\* nobody typed a HELO or a GBYE by hand, the count that do_hello tests is the
\* number of slots taken: even when the timer runs out inside alarm(0), and
\* whatever dies or is started again.
THEOREM CountTheorem == Spec => []CountMatchesTable
<1>1. Unstalled => CountMatchesTable
  BY TakenFinite
  DEF Unstalled, CountInv, CountMatchesTable, CountOffset, MidUpdate
<1> QED  BY <1>1, UnstalledHolds, PTL

\* Under the same conditions do_hello's sanity check never fails: a count below
\* MAXUSERS leaves a free slot to find.
THEOREM SanityTheorem == Spec => []NeverCorrupt
<1>1. Unstalled => NeverCorrupt
  <2> SUFFICES ASSUME CountInv, spc = "scan"  PROVE Taken # Slots
    BY DEF NeverCorrupt, SanityCheck, Unstalled
  <2>1. Cardinality(Taken) < MAXUSERS
    BY TakenFinite DEF CountInv, CountOffset
  <2> QED  BY <2>1, SlotsFinite, ClientAssumption DEF ClientAssumption
<1> QED  BY <1>1, UnstalledHolds, PTL

-----------------------------------------------------------------------------
(* What the answers say.                                                    *)
(*                                                                          *)
(* The handler may come in anywhere once the server was stalled, and yet it *)
(* does no harm to a ticket: it frees the slots of processes that do not    *)
(* exist, and whoever waits for the answer at hand exists.  So the answer   *)
(* being composed stays right for its asker, if there is one; what an       *)
(* answer to a dead one says does not matter.                               *)

\* The ticket in the answer at hand is in the table in the name of c.
Promised(c) ==
  /\ response.type = "TICK"
  /\ response.pid = pid[c]
  /\ response.ep = starts
  /\ ticket_array[response.slot] = pid[c]

\* What main has found out for c so far.
Due(c) ==
  /\ spc = "print" => ticket_array[x] = pid[c]
  /\ spc \in {"inc", "incst"} => Promised(c)
  /\ cstate[c] = "bye" /\ spc \in {"got", "dispatch"} => OnTheBooks(c)
  /\ spc \in {"free", "dec", "decst"} =>
       cstate[c] = "bye" /\ ticket[c].ep = starts
  /\ spc = "send" =>
       /\ response.ep = starts
       /\ cstate[c] = "hello" /\ response.type = "TICK" => Promised(c)
       /\ response.type = "TICK" => response.pid \in Pids
       /\ cstate[c] \in {"vald", "bye"} =>
            response.type = (IF ticket[c].ep # starts THEN "FAIL"
                             ELSE IF cstate[c] = "vald" THEN "GOOD" ELSE "THNX")

BusyInv ==
  /\ buf = NoRequest <=> spc \in {"recv", "rearm"}
  /\ buf \in RealRequests \cup {NoRequest}
  /\ ~up => buf = NoRequest
  /\ spc \in {"scan", "set", "print", "inc", "incst"} => buf.type = "HELO"
  /\ spc \in {"free", "dec", "decst"} => buf.type = "GBYE"
  /\ spc = "set" => ticket_array[x] = TICKET_AVAIL
  /\ spc = "free" => ticket_array[x] \in {buf.pid, TICKET_AVAIL}
  /\ \A c \in Clients : Live(c) /\ InHand(c) => Due(c)

\* With it, everything that is known of the system.
AnswerInv == TypeInv /\ ServiceInv /\ BusyInv

\* It holds before the first server process.
LEMMA InitAnswerInv == Init => AnswerInv
<1> SUFFICES ASSUME Init  PROVE AnswerInv
  OBVIOUS
<1>1. TypeInv  BY InitTypeInv
<1>2. ServiceInv  BY ServiceInit DEF Init, Blank
<1>3. BusyInv  BY DEF Init, Blank, BusyInv, InHand
<1> QED  BY <1>1, <1>2, <1>3 DEF AnswerInv

\* A request at hand says what its sender wants, if that still lives.
LEMMA AskerWants ==
  ASSUME AnswerInv, NEW c \in Clients, Live(c), InHand(c)
  PROVE  /\ buf \in RealRequests
         /\ pid[c] \in Pids
         /\ cstate[c] \in {"hello", "vald", "bye"}
         /\ cstate[c] = "hello" => buf.type = "HELO" /\ buf.pid = pid[c]
         /\ cstate[c] = "vald" =>
              /\ buf.type = "VALD"
              /\ buf.pid = pid[c] /\ buf.slot = ticket[c].slot
              /\ buf.slot # NoSlot
              /\ OnTheBooks(c)
         /\ cstate[c] = "bye" =>
              /\ buf.type = "GBYE"
              /\ buf.pid = pid[c] /\ buf.slot = ticket[c].slot
              /\ buf.slot # NoSlot
<1>1. /\ buf \in RealRequests /\ OwnRequest(buf)
      /\ buf.from = c /\ pid[c] \in Pids /\ cstate[c] \in ClientStates
  BY DEF AnswerInv, BusyInv, RealRequests, Requests, InHand, ServiceInv, LineInv,
         OwnRequests, ClientInv, ClientTypeOK
<1>2. cstate[c] = "vald" => OnTheBooks(c)
  BY DEF Granted, GivenBack, AnswerInv, ServiceInv, TicketInv
<1>3. cstate[c] \in {"vald", "bye"} => ticket[c].slot # NoSlot
  <2>1. NoSlot \notin Slots
    BY DEF NoSlot, Slots
  <2> QED  BY <2>1 DEF AnswerInv, TypeInv, ClientInv, Tickets
<1> QED  BY <1>1, <1>2, <1>3 DEF OwnRequest, ClientStates, Live

\* A step of main or the handler that changes no table entry, no client and no
\* request leaves only what was found out for the asker to show.
LEMMA QuietStep ==
  ASSUME AnswerInv, TypeInv',
         UNCHANGED <<netvars, clientvars, ticket_array, buf>>,
         spc \in {"recv", "rearm"} <=> spc' \in {"recv", "rearm"},
         spc' \in {"scan", "set", "print", "inc", "incst"} => buf.type = "HELO",
         spc' \in {"free", "dec", "decst"} => buf.type = "GBYE",
         spc' = "set" => ticket_array[x'] = TICKET_AVAIL,
         spc' = "free" => ticket_array[x'] \in {buf.pid, TICKET_AVAIL},
         \A c \in Clients : Live(c) /\ InHand(c) => Due(c)'
  PROVE  AnswerInv' /\ UNCHANGED Pool!poolvars
<1>1. ServiceInv'
  BY ServiceStutter DEF AnswerInv
<1>2. BusyInv'
  BY DEF AnswerInv, BusyInv, netvars, clientvars, Live, InHand
<1>3. UNCHANGED Pool!poolvars
  BY PoolStutter DEF netvars
<1> QED  BY <1>1, <1>2, <1>3 DEF AnswerInv

\* The server process comes and goes.
LEMMA LifeAnswerInv ==
  ASSUME AnswerInv, StartServer \/ Crash
  PROVE  AnswerInv' /\ [Pool!PoolNext]_(Pool!poolvars)
<1>1. TypeInv'  BY LifeTypeInv DEF AnswerInv
<1>2. CASE StartServer
  <2>1. ticket_array' = FreeTable /\ buf' = NoRequest
    BY <1>2
    DEF StartServer, tablevars, mainvars, AnswerInv, ServiceInv, LifeInv, BusyInv
  <2>2. ServiceInv'
    BY <1>2, <2>1, ServiceStart DEF StartServer, AnswerInv, mainvars
  <2>3. BusyInv'
    BY <1>2, <2>1
    DEF StartServer, mainvars, tablevars, AnswerInv, BusyInv, InHand
  <2>4. UNCHANGED Pool!poolvars
    BY <1>2, <2>1, PoolStart DEF StartServer, AnswerInv
  <2> QED  BY <1>1, <2>2, <2>3, <2>4 DEF AnswerInv
<1>3. CASE Crash
  <2>1. ServiceInv'
    BY <1>3, ServiceCrash DEF Crash, AnswerInv
  <2>2. BusyInv'
    BY <1>3 DEF Crash, BusyInv, InHand
  <2>3. Pool!PoolNext
    BY <1>3, PoolCrash DEF Crash
  <2> QED  BY <1>1, <2>1, <2>2, <2>3 DEF AnswerInv
<1> QED  BY <1>2, <1>3

\* The timer and the handler: only the slots of the dead are freed.
LEMMA HandlerAnswerInv ==
  ASSUME AnswerInv, Expire \/ HandlerNext
  PROVE  AnswerInv' /\ [Pool!PoolNext]_(Pool!poolvars)
<1>1. TypeInv'  BY HandlerTypeInv DEF AnswerInv
<1>2. ASSUME UNCHANGED <<netvars, clientvars, tablevars, mainvars>>
      PROVE  AnswerInv' /\ UNCHANGED Pool!poolvars
  <2>1. \A c \in Clients : Live(c) /\ InHand(c) => Due(c)'
    BY <1>2
    DEF AnswerInv, BusyInv, Due, Promised, OnTheBooks, Given, Answer, netvars,
        clientvars, tablevars, mainvars
  <2> QED
    BY <1>1, <1>2, <2>1, QuietStep DEF AnswerInv, BusyInv, tablevars, mainvars
<1>3. CASE Expire \/ Deliver_SIGALRM \/ ReclaimDone
  BY <1>2, <1>3 DEF Expire, Deliver_SIGALRM, ReclaimDone
<1>4. CASE ReclaimSlot
  <2>1. /\ up /\ hi \in Slots
        /\ UNCHANGED <<netvars, clientvars, mainvars>>
        /\ \/ UNCHANGED tablevars
           \/ /\ ticket_array[hi] # TICKET_AVAIL
              /\ ticket_array[hi] \notin LivePids
              /\ ticket_array' = [ticket_array EXCEPT ![hi] = TICKET_AVAIL]
    BY <1>4 DEF ReclaimSlot
  <2>2. CASE UNCHANGED tablevars
    BY <1>2, <2>1, <2>2
  <2>3. CASE /\ ticket_array[hi] # TICKET_AVAIL
             /\ ticket_array[hi] \notin LivePids
             /\ ticket_array' = [ticket_array EXCEPT ![hi] = TICKET_AVAIL]
    <3>1. \A d \in Clients : Live(d) => ticket_array[hi] # pid[d]
      BY <2>3 DEF LivePids
    <3>2. \A d \in Clients : Granted(d) /\ ~GivenBack(d)
                             => ticket_array[hi] # pid[d]
      BY <3>1 DEF Granted, Live
    <3>3. KeepsBooks
      BY <2>1, <2>3, <3>2, KeepsFree, TableTyped DEF AnswerInv, TableOK
    <3>4. ServiceInv'
      BY <2>1, <3>3, ServiceTable DEF AnswerInv, mainvars
    <3>5. \A s \in Slots : \/ ticket_array'[s] = ticket_array[s]
                           \/ s = hi /\ ticket_array'[s] = TICKET_AVAIL
      BY <2>3, TableTyped DEF AnswerInv, TableOK
    <3>6. x \in Slots
      BY DEF AnswerInv, TypeInv, ServerTypeOK
    <3>7. ASSUME NEW c \in Clients, Live(c), InHand(c)  PROVE Due(c)'
      <4>1. Due(c) /\ pid[c] \in Pids /\ pid[c] # TICKET_AVAIL
        BY <3>7, AskerWants, ClientAssumption
        DEF AnswerInv, BusyInv, ClientAssumption
      <4>2. \A s \in Slots : ticket_array[s] = pid[c] <=> ticket_array'[s] = pid[c]
        BY <3>1, <3>5, <3>7, <4>1
      <4>3. spc \in {"inc", "incst", "send"} => response.slot \in Slots
        BY DEF AnswerInv, TypeInv, Replies
      <4>4. cstate[c] = "bye" => ticket[c].slot \in Slots
        BY DEF AnswerInv, TypeInv, ClientInv, Tickets
      <4>5. cstate[c] = "bye" /\ OnTheBooks(c) => OnTheBooks(c)'
        BY <2>1, <4>2, <4>4
        DEF OnTheBooks, Given, netvars, clientvars
      <4>6. spc \in {"inc", "incst", "send"} /\ Promised(c) => Promised(c)'
        BY <2>1, <4>2, <4>3 DEF Promised, netvars, clientvars, mainvars
      <4> QED
        BY <2>1, <3>6, <4>1, <4>2, <4>5, <4>6
        DEF Due, netvars, clientvars, mainvars
    <3>8. BusyInv'
      BY <2>1, <3>5, <3>6, <3>7
      DEF AnswerInv, BusyInv, netvars, clientvars, mainvars, Live, InHand
    <3>9. Pool!PoolNext
      BY <2>1, <2>3, <3>2, PoolFree, TableTyped DEF AnswerInv, netvars
    <3> QED  BY <1>1, <3>4, <3>8, <3>9 DEF AnswerInv
  <2> QED  BY <2>1, <2>2, <2>3
<1> QED  BY <1>3, <1>4 DEF HandlerNext

\* Composing an answer without a ticket, when it is the right one.
LEMMA RespondAnswerInv ==
  ASSUME AnswerInv, TypeInv', up, spc \in {"dispatch", "scan"},
         NEW type \in ReplyTypes \ {"TICK"}, Respond(Say(type)),
         \A c \in Clients : Live(c) /\ InHand(c) /\ cstate[c] \in {"vald", "bye"} =>
           type = (IF ticket[c].ep # starts THEN "FAIL"
                   ELSE IF cstate[c] = "vald" THEN "GOOD" ELSE "THNX")
  PROVE  AnswerInv' /\ UNCHANGED Pool!poolvars
<1>1. /\ UNCHANGED <<netvars, clientvars, ticket_array, buf>>
      /\ spc' = "send" /\ response'.type = type /\ response'.ep = starts
  BY DEF Respond, tablevars, Say
<1>2. \A c \in Clients : Live(c) /\ InHand(c) => Due(c)'
  BY <1>1 DEF Due, netvars, clientvars
<1> QED  BY <1>1, <1>2, QuietStep

\* do_hello promises the slot it takes.
LEMMA HelloAnswerInv ==
  ASSUME AnswerInv, HelloNext
  PROVE  AnswerInv' /\ [Pool!PoolNext]_(Pool!poolvars)
<1>1. TypeInv'  BY MainTypeInv DEF AnswerInv, MainNext
<1>2. /\ up /\ buf.type = "HELO" /\ buf \in RealRequests /\ buf # NoRequest
      /\ buf.pid \in Pids
      /\ \A c \in Clients : Live(c) /\ InHand(c) =>
           cstate[c] = "hello" /\ buf.pid = pid[c] /\ Due(c)
  <2>1. up /\ buf.type = "HELO"
    BY DEF HelloNext, HelloFull, HelloNotFull, HelloCorrupt, HelloScan, HelloSet,
           HelloPrint, HelloLoad, HelloStore, LoadCount, StoreCount, MainRuns,
           AnswerInv, BusyInv
  <2>2. buf # NoRequest
    BY <2>1 DEF NoRequest
  <2>3. buf \in RealRequests /\ buf.pid \in Pids
    BY <2>1, <2>2 DEF AnswerInv, BusyInv, RealRequests, ChangesTable
  <2>4. \A c \in Clients : Live(c) /\ InHand(c) =>
          cstate[c] = "hello" /\ buf.pid = pid[c] /\ Due(c)
    BY <2>1, AskerWants DEF AnswerInv, BusyInv
  <2> QED  BY <2>1, <2>2, <2>3, <2>4
<1>3. CASE HelloFull \/ HelloCorrupt
  BY <1>1, <1>2, <1>3, RespondAnswerInv
  DEF HelloFull, HelloCorrupt, MainRuns, ReplyTypes
<1>4. CASE HelloNotFull
  <2>1. \A c \in Clients : Live(c) /\ InHand(c) => Due(c)'
    BY <1>4 DEF HelloNotFull, Due
  <2> QED
    BY <1>1, <1>2, <1>4, <2>1, QuietStep DEF HelloNotFull, MainRuns, tablevars
<1>5. CASE HelloScan
  <2>1. \A c \in Clients : Live(c) /\ InHand(c) => Due(c)'
    BY <1>5 DEF HelloScan, Due
  <2>2. ticket_array[x'] = TICKET_AVAIL
    BY <1>5 DEF HelloScan, Taken
  <2> QED
    BY <1>1, <1>2, <1>5, <2>1, <2>2, QuietStep
    DEF HelloScan, MainRuns, tablevars
<1>6. CASE HelloSet
  <2>1. /\ x \in Slots /\ ticket_array[x] = TICKET_AVAIL
        /\ ticket_array' = [ticket_array EXCEPT ![x] = buf.pid]
        /\ ticket_array'[x] = buf.pid
        /\ UNCHANGED <<netvars, clientvars, buf, x>> /\ spc' = "print"
    BY <1>6, TableTyped
    DEF HelloSet, MainRuns, AnswerInv, BusyInv, TypeInv, ServerTypeOK
  <2>2. KeepsBooks
    BY <1>2, <2>1, KeepsTake, TableTyped DEF AnswerInv, TableOK
  <2>3. ServiceInv'
    BY <1>2, <2>1, <2>2, ServiceTable DEF AnswerInv
  <2>4. \A c \in Clients : Live(c) /\ InHand(c) => Due(c)'
    BY <1>2, <2>1 DEF Due, clientvars
  <2>5. BusyInv'
    BY <1>2, <2>1, <2>4
    DEF AnswerInv, BusyInv, netvars, clientvars, Live, InHand
  <2>6. Pool!PoolNext
    BY <1>2, <2>1, PoolTake, TableTyped DEF AnswerInv, netvars
  <2> QED  BY <1>1, <2>3, <2>5, <2>6 DEF AnswerInv
<1>7. CASE HelloPrint
  <2>1. /\ UNCHANGED <<netvars, clientvars, ticket_array, buf>>
        /\ spc = "print" /\ spc' = "inc"
        /\ response' = [type |-> "TICK", pid |-> ticket_array[x], slot |-> x,
                        ep |-> starts]
    BY <1>7 DEF HelloPrint, MainRuns, tablevars
  <2>2. \A c \in Clients : Live(c) /\ InHand(c) => Due(c)'
    BY <1>2, <2>1 DEF Due, Promised, netvars, clientvars
  <2> QED  BY <1>1, <1>2, <2>1, <2>2, QuietStep
<1>8. CASE HelloLoad
  <2>1. \A c \in Clients : Live(c) /\ InHand(c) => Due(c)'
    BY <1>2, <1>8
    DEF HelloLoad, LoadCount, MainRuns, Due, Promised, netvars, clientvars,
        tablevars
  <2> QED
    BY <1>1, <1>2, <1>8, <2>1, QuietStep
    DEF HelloLoad, LoadCount, MainRuns, tablevars
<1>9. CASE HelloStore
  <2>1. \A c \in Clients : Live(c) /\ InHand(c) => pid[c] \in Pids
    BY AskerWants
  <2>2. \A c \in Clients : Live(c) /\ InHand(c) => Due(c)'
    BY <1>2, <1>9, <2>1
    DEF HelloStore, StoreCount, MainRuns, Due, Promised, netvars, clientvars
  <2> QED
    BY <1>1, <1>2, <1>9, <2>2, QuietStep
    DEF HelloStore, StoreCount, MainRuns
<1> QED
  BY <1>3, <1>4, <1>5, <1>6, <1>7, <1>8, <1>9 DEF HelloNext

\* do_goodbye thanks for the tickets of this server process only.
LEMMA GoodbyeAnswerInv ==
  ASSUME AnswerInv, GoodbyeNext
  PROVE  AnswerInv' /\ [Pool!PoolNext]_(Pool!poolvars)
<1>1. TypeInv'  BY MainTypeInv DEF AnswerInv, MainNext
<1>2. /\ up /\ buf.type = "GBYE" /\ buf \in RealRequests /\ buf # NoRequest
      /\ buf.pid \in Pids
      /\ \A c \in Clients : Live(c) /\ InHand(c) =>
           /\ cstate[c] = "bye" /\ Due(c)
           /\ buf.pid = pid[c] /\ buf.slot = ticket[c].slot
           /\ buf.slot # NoSlot
  <2>1. up /\ buf.type = "GBYE"
    BY DEF GoodbyeNext, GoodbyeBogus, GoodbyeMatch, GoodbyeFree, GoodbyeLoad,
           GoodbyeStore, LoadCount, StoreCount, MainRuns, AnswerInv, BusyInv
  <2>2. buf # NoRequest
    BY <2>1 DEF NoRequest
  <2>3. buf \in RealRequests /\ buf.pid \in Pids
    BY <2>1, <2>2 DEF AnswerInv, BusyInv, RealRequests, ChangesTable
  <2>4. \A c \in Clients : Live(c) /\ InHand(c) =>
          /\ cstate[c] = "bye" /\ Due(c)
          /\ buf.pid = pid[c] /\ buf.slot = ticket[c].slot
          /\ buf.slot # NoSlot
    BY <2>1, AskerWants DEF AnswerInv, BusyInv
  <2> QED  BY <2>1, <2>2, <2>3, <2>4
<1>3. CASE GoodbyeBogus
  <2>1. \A c \in Clients : Live(c) /\ InHand(c) => ticket[c].ep # starts
    BY <1>2, <1>3
    DEF GoodbyeBogus, MainRuns, Due, OnTheBooks, Given, TicketInBuf
  <2> QED
    BY <1>1, <1>2, <1>3, <2>1, RespondAnswerInv
    DEF GoodbyeBogus, MainRuns, ReplyTypes
<1>4. CASE GoodbyeMatch
  <2>1. buf.slot \in Slots
    BY <1>2, <1>4 DEF RealRequests, Requests, GoodbyeMatch, TicketInBuf
  <2>2. \A c \in Clients : Live(c) /\ InHand(c) => ticket[c].ep = starts
    BY <1>2, <1>4, <2>1
    DEF GoodbyeMatch, MainRuns, Due, OnTheBooks, Given, TicketInBuf
  <2>3. \A c \in Clients : Live(c) /\ InHand(c) => Due(c)'
    BY <1>2, <1>4, <2>2 DEF GoodbyeMatch, Due, netvars, clientvars
  <2> QED
    BY <1>1, <1>2, <1>4, <2>3, QuietStep
    DEF GoodbyeMatch, MainRuns, tablevars, TicketInBuf
<1>5. CASE GoodbyeFree
  <2>1. /\ x \in Slots /\ ticket_array[x] \in {buf.pid, TICKET_AVAIL}
        /\ ticket_array' = [ticket_array EXCEPT ![x] = TICKET_AVAIL]
        /\ UNCHANGED <<netvars, clientvars, buf>>
        /\ spc = "free" /\ spc' = "dec"
    BY <1>5 DEF GoodbyeFree, MainRuns, AnswerInv, BusyInv, TypeInv, ServerTypeOK
  <2>2. \A d \in Clients : Granted(d) /\ ~GivenBack(d) => ticket_array[x] # pid[d]
    <3> SUFFICES ASSUME NEW d \in Clients, Granted(d), ~GivenBack(d)
                 PROVE  ticket_array[x] # pid[d]
      OBVIOUS
    <3>1. buf.pid # pid[d]
      BY <1>2, AskerOnly DEF AnswerInv
    <3>2. pid[d] # TICKET_AVAIL
      BY ClientAssumption
      DEF AnswerInv, ServiceInv, ClientInv, Granted, Live, ClientAssumption
    <3> QED  BY <2>1, <3>1, <3>2
  <2>3. KeepsBooks
    BY <1>2, <2>1, <2>2, KeepsFree, TableTyped DEF AnswerInv, TableOK
  <2>4. ServiceInv'
    BY <1>2, <2>1, <2>3, ServiceTable DEF AnswerInv
  <2>5. \A c \in Clients : Live(c) /\ InHand(c) => Due(c)'
    BY <1>2, <2>1 DEF Due, netvars, clientvars
  <2>6. BusyInv'
    BY <1>2, <2>1, <2>5
    DEF AnswerInv, BusyInv, netvars, clientvars, Live, InHand
  <2>7. CASE ticket_array[x] = TICKET_AVAIL
    <3>1. ticket_array' = ticket_array
      BY <2>1, <2>7, TableTyped DEF AnswerInv, TableOK
    <3>2. UNCHANGED Pool!poolvars
      BY <2>1, <3>1, PoolStutter DEF netvars
    <3> QED  BY <1>1, <2>4, <2>6, <3>2 DEF AnswerInv
  <2>8. CASE ticket_array[x] # TICKET_AVAIL
    <3>1. Pool!PoolNext
      BY <2>1, <2>2, <2>8, PoolFree, TableTyped DEF AnswerInv, netvars
    <3> QED  BY <1>1, <2>4, <2>6, <3>1 DEF AnswerInv
  <2> QED  BY <2>7, <2>8
<1>6. CASE GoodbyeLoad
  <2>1. \A c \in Clients : Live(c) /\ InHand(c) => Due(c)'
    BY <1>2, <1>6
    DEF GoodbyeLoad, LoadCount, MainRuns, Due, netvars, clientvars
  <2> QED
    BY <1>1, <1>2, <1>6, <2>1, QuietStep
    DEF GoodbyeLoad, LoadCount, MainRuns, tablevars
<1>7. CASE GoodbyeStore
  <2>1. \A c \in Clients : Live(c) /\ InHand(c) => Due(c)'
    BY <1>2, <1>7
    DEF GoodbyeStore, StoreCount, MainRuns, Due, Say, netvars, clientvars
  <2> QED
    BY <1>1, <1>2, <1>7, <2>1, QuietStep
    DEF GoodbyeStore, StoreCount, MainRuns
<1> QED
  BY <1>3, <1>4, <1>5, <1>6, <1>7 DEF GoodbyeNext

\* The whole request loop answers as it should.
LEMMA MainAnswerInv ==
  ASSUME AnswerInv, MainNext
  PROVE  AnswerInv' /\ [Pool!PoolNext]_(Pool!poolvars)
<1>1. TypeInv'  BY MainTypeInv DEF AnswerInv
<1>2. CASE Recvfrom
  <2>1. buf = NoRequest
    BY <1>2 DEF Recvfrom, AnswerInv, BusyInv
  <2>2. ServiceInv'
    BY <1>2, <2>1, ServiceReceive DEF Recvfrom, AnswerInv, tablevars
  <2>3. /\ buf' \in RealRequests /\ queue # <<>>
        /\ buf' = queue[1] /\ 1 \in 1 .. Len(queue)
    BY <1>2, EmptySeq, HeadTailProperties
    DEF Recvfrom, AnswerInv, ServiceInv, RealNames
  <2>4. ASSUME NEW c \in Clients, Live(c), InHand(c)'  PROVE Due(c)'
    <3>1. OwnRequest(queue[1]) /\ queue[1].from = c
      BY <2>3, <2>4
      DEF InHand, AnswerInv, ServiceInv, LineInv, OwnRequests
    <3>2. cstate[c] = "bye" => Granted(c) /\ ~GivenBack(c)
      BY <2>1, <3>1 DEF OwnRequest, Granted, GivenBack, InHand
    <3>3. cstate[c] = "bye" => OnTheBooks(c)
      BY <3>2 DEF AnswerInv, ServiceInv, TicketInv
    <3> QED
      BY <1>2, <3>3
      DEF Recvfrom, Due, OnTheBooks, Given, clientvars, tablevars
  <2>5. buf' # NoRequest
    BY <2>3 DEF RealRequests, Requests, NoRequest
  <2>6. BusyInv'
    BY <1>2, <2>3, <2>4, <2>5 DEF Recvfrom, BusyInv, Live, clientvars
  <2>7. UNCHANGED Pool!poolvars
    BY <1>2, PoolStutter DEF Recvfrom, tablevars
  <2> QED  BY <1>1, <2>2, <2>6, <2>7 DEF AnswerInv
<1>3. CASE AlarmOff \/ AlarmOffTooLate
  <2>1. /\ UNCHANGED <<netvars, clientvars, ticket_array, buf>>
        /\ spc = "got" /\ spc' = "dispatch"
    BY <1>3 DEF AlarmOff, AlarmOffTooLate, MainRuns, tablevars
  <2>2. \A c \in Clients : Live(c) /\ InHand(c) => Due(c)'
    BY <2>1
    DEF AnswerInv, BusyInv, Due, OnTheBooks, Given, netvars, clientvars
  <2> QED  BY <1>1, <2>1, <2>2, QuietStep
<1>4. CASE HelloNext  BY <1>4, HelloAnswerInv
<1>5. CASE GoodbyeNext  BY <1>5, GoodbyeAnswerInv
<1>6. CASE ValidateTicket
  <2>1. buf.type = "VALD" /\ up /\ spc = "dispatch"
    BY <1>6 DEF ValidateTicket, MainRuns
  <2>2. \A c \in Clients : Live(c) /\ InHand(c) =>
          /\ cstate[c] = "vald"
          /\ ticket[c].ep = starts <=> TicketInBuf
    <3> SUFFICES ASSUME NEW c \in Clients, Live(c), InHand(c)
                 PROVE  /\ cstate[c] = "vald"
                        /\ ticket[c].ep = starts <=> TicketInBuf
      OBVIOUS
    <3>1. /\ cstate[c] = "vald" /\ buf.pid = pid[c]
          /\ buf.slot = ticket[c].slot /\ buf.slot # NoSlot /\ OnTheBooks(c)
          /\ ticket[c].slot \in Slots
      BY <2>1, AskerWants DEF AnswerInv, TypeInv, ClientInv, Tickets
    <3> QED  BY <2>1, <3>1 DEF OnTheBooks, Given, TicketInBuf
  <2> DEFINE type == IF TicketInBuf THEN "GOOD" ELSE "FAIL"
  <2>3. type \in ReplyTypes \ {"TICK"} /\ Respond(Say(type))
    BY <1>6 DEF ValidateTicket, ReplyTypes
  <2>4. \A c \in Clients :
          Live(c) /\ InHand(c) /\ cstate[c] \in {"vald", "bye"} =>
            type = (IF ticket[c].ep # starts THEN "FAIL"
                    ELSE IF cstate[c] = "vald" THEN "GOOD" ELSE "THNX")
    BY <2>2
  <2> HIDE DEF type
  <2> QED  BY <1>1, <2>1, <2>3, <2>4, RespondAnswerInv
<1>7. CASE InvalidRequest
  <2>1. \A c \in Clients : Live(c) /\ InHand(c) => cstate[c] \notin {"vald", "bye"}
    BY <1>7, AskerWants DEF InvalidRequest
  <2> QED
    BY <1>1, <1>7, <2>1, RespondAnswerInv
    DEF InvalidRequest, MainRuns, ReplyTypes
<1>8. CASE SendResponse
  <2>1. /\ up /\ spc = "send" /\ Deliver(buf.from, response)
        /\ buf # NoRequest /\ buf' = NoRequest /\ spc' = "rearm"
        /\ UNCHANGED <<up, starts, queue, clientvars, tablevars>>
    BY <1>8 DEF SendResponse, MainRuns, AnswerInv, BusyInv
  <2>2. KeepsBooks
    BY <2>1, KeepsSame DEF AnswerInv, tablevars
  <2>3. buf.from \in Clients /\ InHand(buf.from)
    BY <2>1 DEF AnswerInv, BusyInv, RealRequests, Requests, InHand
  <2>4. DueReply(buf.from, response)
    <3> SUFFICES ASSUME Live(buf.from)  PROVE DueReply(buf.from, response)
      BY DEF DueReply
    <3>1. Due(buf.from)
      BY <2>3 DEF AnswerInv, BusyInv
    <3>2. response \in RealReplies
      BY <2>1, <3>1 DEF Due, RealReplies, AnswerInv, TypeInv
    <3> QED  BY <2>1, <3>1, <3>2 DEF Due, Promised, DueReply, tablevars
  <2>5. ServiceInv'
    BY <2>1, <2>2, <2>4, ServiceReply DEF AnswerInv
  <2>6. BusyInv'
    BY <2>1 DEF BusyInv, InHand
  <2>7. UNCHANGED Pool!poolvars
    BY <2>1, PoolStutter DEF tablevars
  <2> QED  BY <1>1, <2>5, <2>6, <2>7 DEF AnswerInv
<1>9. CASE AlarmBackOn
  <2>1. /\ UNCHANGED <<netvars, clientvars, ticket_array, buf>>
        /\ spc = "rearm" /\ spc' = "recv"
    BY <1>9 DEF AlarmBackOn, MainRuns, tablevars
  <2>2. \A c \in Clients : ~InHand(c)
    BY <2>1 DEF AnswerInv, BusyInv, InHand
  <2> QED  BY <1>1, <2>1, <2>2, QuietStep
<1> QED
  BY <1>2, <1>3, <1>4, <1>5, <1>6, <1>7, <1>8, <1>9 DEF MainNext

\* Every step of server and clients keeps the invariant and maps to the pool.
LEMMA AnswerInvStep ==
  ASSUME AnswerInv, [Next]_vars, ~byhand'
  PROVE  AnswerInv' /\ [Pool!PoolNext]_(Pool!poolvars)
<1>1. TypeInv'  BY TypeInvStep DEF AnswerInv
<1>2. CASE ServerNext
  BY <1>2, LifeAnswerInv, HandlerAnswerInv, MainAnswerInv DEF ServerNext
<1>3. ASSUME NEW c \in Clients, ClientNext(c) \/ ValidateNext(c),
             UNCHANGED servervars
      PROVE  AnswerInv' /\ [Pool!PoolNext]_(Pool!poolvars)
  <2>1. UNCHANGED <<ticket_array, buf, spc, x, response>>
    BY <1>3 DEF servervars, tablevars, mainvars
  <2>2. ServiceInv'
    BY <1>3, <2>1, ServiceClient DEF AnswerInv
  <2>3. /\ up' = up /\ starts' = starts
        /\ \A d \in Clients : InHand(d) /\ Live(d)' =>
             /\ Live(d)
             /\ cstate'[d] = cstate[d] /\ pid'[d] = pid[d]
             /\ ticket'[d] = ticket[d]
    BY <1>3, AskerWaits DEF AnswerInv
  <2>4. ASSUME NEW d \in Clients, Live(d)', InHand(d)  PROVE Due(d)'
    <3>1. Due(d)
      BY <2>3, <2>4 DEF AnswerInv, BusyInv
    <3> QED
      BY <2>1, <2>3, <2>4, <3>1 DEF Due, Promised, OnTheBooks, Given
  <2>5. BusyInv'
    BY <2>1, <2>3, <2>4 DEF AnswerInv, BusyInv, InHand
  <2>6. [Pool!PoolNext]_(Pool!poolvars)
    BY <1>3, <2>1, <2>2, PoolClient DEF AnswerInv
  <2> QED  BY <1>1, <2>2, <2>5, <2>6 DEF AnswerInv
<1>4. CASE UNCHANGED vars
  <2>1. \A c \in Clients : Live(c) /\ InHand(c) => Due(c)'
    BY <1>4
    DEF AnswerInv, BusyInv, Due, Promised, OnTheBooks, Given, vars, netvars,
        clientvars, servervars, tablevars, mainvars
  <2> QED
    BY <1>1, <1>4, <2>1, QuietStep
    DEF AnswerInv, BusyInv, vars, servervars, tablevars, mainvars
<1> QED  BY <1>2, <1>3, <1>4 DEF Next

\* The types hold in every state the system can reach, and the invariant, stalled
\* or not, as long as nobody types a HELO or a GBYE by hand.
ByHandInv == TypeInv /\ (~byhand => AnswerInv)

LEMMA ByHandInvHolds == Spec => []ByHandInv
<1>1. Init => ByHandInv
  BY InitTypeInv, InitAnswerInv DEF ByHandInv
<1>2. ByHandInv /\ [Next]_vars => ByHandInv'
  <2> SUFFICES ASSUME ByHandInv, [Next]_vars  PROVE ByHandInv'
    OBVIOUS
  <2>1. TypeInv'
    BY TypeInvStep DEF ByHandInv
  <2>2. ASSUME ~byhand'  PROVE AnswerInv'
    <3>1. ~byhand
      BY <2>2, ByHandForGood DEF ByHandInv
    <3> QED  BY <2>2, <3>1, AnswerInvStep DEF ByHandInv
  <2> QED  BY <2>1, <2>2 DEF ByHandInv
<1> QED  BY <1>1, <1>2, PTL DEF Spec

\* VALD and GBYE tell the truth, whatever the handler frees between the steps
\* of handle_request and whoever has got a dead client's pid, until somebody
\* types a HELO or a GBYE by hand.
THEOREM AnswersTheorem == Spec => []AnswersTrue
<1>1. ByHandInv => AnswersTrue
  BY DEF ByHandInv, AnswerInv, ServiceInv, AnswersTrue
<1> QED  BY <1>1, ByHandInvHolds, PTL

\* Who works with a ticket of the running server process keeps his slot: no
\* turn of the reclaimer and no late GBYE takes it away, only one typed by hand.
THEOREM HolderTheorem == Spec => []HolderKeepsTicket
<1>1. ByHandInv => HolderKeepsTicket
  BY HolderKeeps DEF ByHandInv, AnswerInv, HolderKeepsTicket
<1> QED  BY <1>1, ByHandInvHolds, PTL

\* Each server process lets at most MAXUSERS programs run, until somebody types a
\* HELO or a GBYE by hand.
THEOREM LicenseTheorem == Spec => []WithinLicense
<1>1. ByHandInv => WithinLicense
  BY License DEF ByHandInv, AnswerInv, WithinLicense
<1> QED  BY <1>1, ByHandInvHolds, PTL

\* Request loop, handler, clients and sockets together are a pool of slots, until
\* somebody types a HELO or a GBYE by hand.
THEOREM PoolRefinement == Spec => ImplementsPool
<1>1. Init => Pool!PoolInit
  BY PoolStarts DEF Init, Blank
<1>2. ByHandInv /\ [Next]_vars => [~byhand' => Pool!PoolNext]_(Pool!poolvars)
  <2> SUFFICES ASSUME ByHandInv, [Next]_vars, ~byhand'
               PROVE  [Pool!PoolNext]_(Pool!poolvars)
    OBVIOUS
  <2>1. ~byhand
    BY ByHandForGood DEF ByHandInv
  <2> QED  BY <2>1, AnswerInvStep DEF ByHandInv
<1> QED
  BY <1>1, <1>2, ByHandInvHolds, PTL DEF Spec, ImplementsPool

-----------------------------------------------------------------------------
(* The alarm.                                                               *)

\* Without a timer that runs out inside alarm(0), nothing is left of the alarm
\* when handle_request begins, and nothing of it comes until it is over.
AlarmInv ==
  /\ spc \in Handling => up /\ ~armed /\ ~pending /\ hi = NotRunning
  /\ ~stalled

\* That race is the only way in which an alarm can come while a request is
\* handled, and the only way in which the handler can meet a half-made change.
THEOREM AlarmTheorem ==
  ASSUME ~AlarmRace
  PROVE  Spec => [](AlarmOffWhileHandling /\ ~stalled)
<1> USE DEF AlarmInv, Handling, MainRuns, netvars
<1>1. Init => AlarmInv
  BY DEF Init, Blank
<1>2. AlarmInv /\ [Next]_vars => AlarmInv'
  <2> SUFFICES ASSUME AlarmInv, [Next]_vars  PROVE AlarmInv'
    OBVIOUS
  <2>1. CASE StartServer \/ Crash
    BY <2>1, ZeroSlot DEF StartServer, Crash, mainvars
  <2>2. CASE Expire
    BY <2>2 DEF Expire, mainvars
  <2>3. CASE HandlerNext
    BY <2>3, ZeroSlot, ClientAssumption
    DEF HandlerNext, Deliver_SIGALRM, ReclaimSlot, ReclaimDone, mainvars, Slots,
        ClientAssumption
  <2>4. CASE HelloNext
    BY <2>4
    DEF HelloNext, HelloFull, HelloNotFull, HelloCorrupt, HelloScan, HelloSet,
        HelloPrint, HelloLoad, HelloStore, Respond, LoadCount, StoreCount,
        alarmvars
  <2>5. CASE GoodbyeNext
    BY <2>5
    DEF GoodbyeNext, GoodbyeBogus, GoodbyeMatch, GoodbyeFree, GoodbyeLoad,
        GoodbyeStore, Respond, LoadCount, StoreCount, alarmvars
  <2>6. CASE Recvfrom \/ AlarmOff \/ AlarmOffTooLate \/ AlarmBackOn
    BY <2>6 DEF Recvfrom, AlarmOff, AlarmOffTooLate, AlarmBackOn, alarmvars
  <2>7. CASE ValidateTicket \/ InvalidRequest \/ SendResponse
    BY <2>7 DEF ValidateTicket, InvalidRequest, SendResponse, Respond, alarmvars
  <2>8. ASSUME NEW c \in Clients, ClientNext(c) \/ ValidateNext(c),
               UNCHANGED servervars
        PROVE  AlarmInv'
    BY <2>8, ClientLeavesServer DEF servervars, mainvars, alarmvars
  <2>9. CASE UNCHANGED vars
    BY <2>9 DEF vars, servervars, mainvars, alarmvars
  <2> QED
    BY <2>1, <2>2, <2>3, <2>4, <2>5, <2>6, <2>7, <2>8, <2>9
    DEF Next, ServerNext, MainNext, vars
<1>3. AlarmInv => AlarmOffWhileHandling /\ ~stalled
  BY DEF AlarmOffWhileHandling
<1> QED  BY <1>1, <1>2, <1>3, PTL DEF Spec
=============================================================================
