---------------------------- MODULE LicenseServer ----------------------------
(***************************************************************************)
(* The license server, version 2 (lserv2.c, lserv_funcs2.c): one process   *)
(* with a request loop and a SIGALRM handler, ticket_reclaim, that frees   *)
(* the slots of processes that no longer exist.                            *)
(*                                                                         *)
(* The request loop turns the alarm off around handle_request, so that the *)
(* handler does not meet half-made changes.  A signal is delivered when    *)
(* the process runs user code, before its next instruction: main takes no  *)
(* step while one is pending or the handler runs, except inside recvfrom.  *)
(***************************************************************************)
EXTENDS LicenseTable

CONSTANT
  AlarmRace   \* may the timer run out while the kernel executes alarm(0)?

ASSUME ServerAssumption == AlarmRace \in BOOLEAN

VARIABLES
  spc,              \* where main is
  x,                \* do_hello's x, do_goodbye's slot
  reg,              \* num_tickets_out as loaded for ++ or --
  response,         \* the answer being composed
  time_left,        \* main's time_left: is it positive?
  armed,            \* is the real timer running?
  pending,          \* is SIGALRM pending?
  hi,               \* ticket_reclaim's i while it runs, else NotRunning
  stalled           \* history: has the timer ever run out in the middle of
                    \* handle_request?

mainvars == <<spc, buf, x, reg, response, time_left>>
alarmvars == <<armed, pending, hi, stalled>>
servervars == <<tablevars, mainvars, alarmvars>>
vars == <<netvars, clientvars, servervars>>

NotRunning == -1
NoResponse == [type |-> "NONE"]

\* recv      in recvfrom             got     recvfrom returned
\* dispatch  enters handle_request   scan    do_hello looks for a slot
\* set       stores the pid          print   sprintf into replybuf
\* inc       loads, ++               incst   stores
\* free      do_goodbye frees        dec     loads, --
\* decst     stores                  send    sendto
\* rearm     alarm(time_left)
Handling == {"dispatch", "scan", "set", "print", "inc", "incst",
             "free", "dec", "decst", "send", "rearm"}
ServerStates == {"recv", "got"} \cup Handling

Say(type) == [type |-> type, pid |-> TICKET_AVAIL, slot |-> 0, ep |-> starts]

-----------------------------------------------------------------------------
(* The life of the server process *)

\* The memory of a process that has not begun to serve: the static
\* initialisers, and free_all_tickets.
Blank ==
  /\ ticket_array = FreeTable
  /\ num_tickets_out = 0
  /\ spc = "recv"
  /\ buf = NoRequest
  /\ x = 0
  /\ reg = 0
  /\ response = NoResponse
  /\ time_left = FALSE
  /\ armed = FALSE
  /\ pending = FALSE
  /\ hi = NotRunning

Init == ClientInit /\ Blank /\ stalled = FALSE

\* main up to its loop: setup, signal, alarm(RECLAIM_INTERVAL).
StartServer ==
  /\ ~up
  /\ starts < MaxStarts
  /\ up' = TRUE
  /\ starts' = starts + 1
  /\ armed' = TRUE
  /\ UNCHANGED <<queue, inbox, clientvars, tablevars, mainvars, pending, hi,
                 stalled>>

\* The server dies: its memory, its timer and its socket go with it, and the
\* next process begins with a blank one.
Crash ==
  /\ up
  /\ up' = FALSE
  /\ queue' = <<>>
  /\ ticket_array' = FreeTable
  /\ num_tickets_out' = 0
  /\ spc' = "recv"
  /\ buf' = NoRequest
  /\ x' = 0
  /\ reg' = 0
  /\ response' = NoResponse
  /\ time_left' = FALSE
  /\ armed' = FALSE
  /\ pending' = FALSE
  /\ hi' = NotRunning
  /\ UNCHANGED <<starts, inbox, clientvars, stalled>>

\* The real timer runs out and the kernel marks SIGALRM pending.  A
\* handle_request is over long before the 60 seconds are, unless the server
\* is stopped in the middle of it.
Expire ==
  /\ up /\ armed
  /\ armed' = FALSE
  /\ pending' = TRUE
  /\ stalled' = (stalled \/ spc \in Handling)
  /\ UNCHANGED <<netvars, clientvars, tablevars, mainvars, hi>>

-----------------------------------------------------------------------------
(* ticket_reclaim, the SIGALRM handler.  SIGALRM stays blocked while it runs. *)

Deliver_SIGALRM ==
  /\ up /\ pending /\ hi = NotRunning
  /\ pending' = FALSE
  /\ hi' = 0
  /\ UNCHANGED <<netvars, clientvars, tablevars, mainvars, armed, stalled>>

\* Wrong on purpose: frees the slot without taking it off the count.
ReclaimSlotUncounted ==
  /\ up /\ hi \in Slots
  /\ IF ticket_array[hi] \in {TICKET_AVAIL} \cup LivePids
     THEN UNCHANGED ticket_array
     ELSE ticket_array' = [ticket_array EXCEPT ![hi] = TICKET_AVAIL]
  /\ hi' = hi + 1
  /\ UNCHANGED <<netvars, clientvars, num_tickets_out, mainvars, armed, pending,
                 stalled>>

\* Wrong on purpose: frees every slot, as if kill always failed with ESRCH.
ReclaimSlotOfLiving ==
  /\ up /\ hi \in Slots
  /\ IF ticket_array[hi] = TICKET_AVAIL
     THEN UNCHANGED tablevars
     ELSE /\ ticket_array' = [ticket_array EXCEPT ![hi] = TICKET_AVAIL]
          /\ num_tickets_out' = num_tickets_out - 1
  /\ hi' = hi + 1
  /\ UNCHANGED <<netvars, clientvars, mainvars, armed, pending, stalled>>

\* One turn of the loop: kill(pid, 0) finds no process, the slot is freed.
ReclaimSlot ==
  /\ up /\ hi \in Slots
  /\ IF ticket_array[hi] \in {TICKET_AVAIL} \cup LivePids
     THEN UNCHANGED tablevars
     ELSE /\ ticket_array' = [ticket_array EXCEPT ![hi] = TICKET_AVAIL]
          /\ num_tickets_out' = num_tickets_out - 1
  /\ hi' = hi + 1
  /\ UNCHANGED <<netvars, clientvars, mainvars, armed, pending, stalled>>

\* Wrong on purpose: the handler does not set the alarm again.
ReclaimDoneForGood ==
  /\ up /\ hi = MAXUSERS
  /\ hi' = NotRunning
  /\ UNCHANGED <<netvars, clientvars, tablevars, mainvars, armed, pending,
                 stalled>>

\* alarm(RECLAIM_INTERVAL), and back to where main was.
ReclaimDone ==
  /\ up /\ hi = MAXUSERS
  /\ armed' = TRUE
  /\ hi' = NotRunning
  /\ UNCHANGED <<netvars, clientvars, tablevars, mainvars, pending, stalled>>

HandlerNext == Deliver_SIGALRM \/ ReclaimSlot \/ ReclaimDone

-----------------------------------------------------------------------------
(* The request loop *)

MainRuns(at) == up /\ ~pending /\ hi = NotRunning /\ spc = at

\* The kernel gives main a datagram even when a signal has just come in.
Recvfrom ==
  /\ up /\ hi = NotRunning /\ spc = "recv"
  /\ queue # <<>>
  /\ buf' = Head(queue)
  /\ queue' = Tail(queue)
  /\ spc' = "got"
  /\ UNCHANGED <<up, starts, inbox, clientvars, tablevars, x, reg, response,
                 time_left, alarmvars>>

\* time_left = alarm(0)
AlarmOff ==
  /\ MainRuns("got")
  /\ time_left' = armed
  /\ armed' = FALSE
  /\ spc' = "dispatch"
  /\ UNCHANGED <<netvars, clientvars, tablevars, buf, x, reg, response,
                 pending, hi, stalled>>

\* The same call, and the timer runs out after main has entered the kernel:
\* nothing is left to cancel, alarm returns 0, the signal waits for the return.
AlarmOffTooLate ==
  /\ AlarmRace
  /\ MainRuns("got") /\ armed
  /\ time_left' = FALSE
  /\ armed' = FALSE
  /\ pending' = TRUE
  /\ spc' = "dispatch"
  /\ UNCHANGED <<netvars, clientvars, tablevars, buf, x, reg, response, hi,
                 stalled>>

\* handle_request is ready to answer with reply r.
Respond(r) ==
  /\ response' = r
  /\ spc' = "send"
  /\ UNCHANGED <<netvars, clientvars, tablevars, buf, x, reg, time_left,
                 alarmvars>>

\* do_hello: "FAIL no tickets available"
HelloFull ==
  /\ MainRuns("dispatch") /\ buf.type = "HELO"
  /\ num_tickets_out >= MAXUSERS
  /\ Respond(Say("FAIL"))

\* Wrong on purpose: one ticket too many.
HelloNotOverfull ==
  /\ MainRuns("dispatch") /\ buf.type = "HELO"
  /\ num_tickets_out <= MAXUSERS
  /\ spc' = "scan"
  /\ UNCHANGED <<netvars, clientvars, tablevars, buf, x, reg, response,
                 time_left, alarmvars>>

HelloNotFull ==
  /\ MainRuns("dispatch") /\ buf.type = "HELO"
  /\ num_tickets_out < MAXUSERS
  /\ spc' = "scan"
  /\ UNCHANGED <<netvars, clientvars, tablevars, buf, x, reg, response,
                 time_left, alarmvars>>

\* do_hello: "FAIL database corrupt"
HelloCorrupt ==
  /\ MainRuns("scan")
  /\ Taken = Slots
  /\ Respond(Say("FAIL"))

\* Wrong on purpose: the last slot, free or not.
HelloScanLast ==
  /\ MainRuns("scan")
  /\ x' = MAXUSERS - 1
  /\ spc' = "set"
  /\ UNCHANGED <<netvars, clientvars, tablevars, buf, reg, response,
                 time_left, alarmvars>>

\* The first free slot.
HelloScan ==
  /\ MainRuns("scan")
  /\ x' \in Slots \ Taken
  /\ \A s \in Slots \ Taken : x' <= s
  /\ spc' = "set"
  /\ UNCHANGED <<netvars, clientvars, tablevars, buf, reg, response,
                 time_left, alarmvars>>

HelloSet ==
  /\ MainRuns("set")
  /\ ticket_array' = [ticket_array EXCEPT ![x] = buf.pid]
  /\ spc' = "print"
  /\ UNCHANGED <<netvars, clientvars, num_tickets_out, buf, x, reg, response,
                 time_left, alarmvars>>

\* Wrong on purpose: slots numbered from 1 in the ticket.
HelloPrintFromOne ==
  /\ MainRuns("print")
  /\ response' = [type |-> "TICK", pid |-> ticket_array[x], slot |-> x + 1,
                  ep |-> starts]
  /\ spc' = "inc"
  /\ UNCHANGED <<netvars, clientvars, tablevars, buf, x, reg, time_left,
                 alarmvars>>

\* The ticket is printed from the slot, which the handler may have freed.
HelloPrint ==
  /\ MainRuns("print")
  /\ response' = [type |-> "TICK", pid |-> ticket_array[x], slot |-> x,
                  ep |-> starts]
  /\ spc' = "inc"
  /\ UNCHANGED <<netvars, clientvars, tablevars, buf, x, reg, time_left,
                 alarmvars>>

\* ++ and -- of the static int are a load and a store.
LoadCount(from, to) ==
  /\ MainRuns(from)
  /\ reg' = num_tickets_out
  /\ spc' = to
  /\ UNCHANGED <<netvars, clientvars, tablevars, buf, x, response, time_left,
                 alarmvars>>

StoreCount(from, n) ==
  /\ MainRuns(from)
  /\ num_tickets_out' = n
  /\ reg' = 0
  /\ spc' = "send"
  /\ UNCHANGED <<netvars, clientvars, ticket_array, buf, x, time_left,
                 alarmvars>>

HelloLoad == LoadCount("inc", "incst")
HelloStore ==
  /\ StoreCount("incst", reg + 1)
  /\ UNCHANGED response

\* Wrong on purpose: a bogus ticket is not answered.
GoodbyeBogusUnanswered ==
  /\ MainRuns("dispatch") /\ buf.type = "GBYE"
  /\ ~TicketInBuf
  /\ spc' = "rearm"
  /\ UNCHANGED <<netvars, clientvars, tablevars, buf, x, reg, response,
                 time_left, alarmvars>>

\* do_goodbye: "FAIL invalid ticket"
GoodbyeBogus ==
  /\ MainRuns("dispatch") /\ buf.type = "GBYE"
  /\ ~TicketInBuf
  /\ Respond(Say("FAIL"))

\* Wrong on purpose: any ticket for the slot will do.
GoodbyeMatchAny ==
  /\ MainRuns("dispatch") /\ buf.type = "GBYE"
  /\ buf.slot # NoSlot /\ ticket_array[buf.slot] # TICKET_AVAIL
  /\ x' = buf.slot
  /\ spc' = "free"
  /\ UNCHANGED <<netvars, clientvars, tablevars, buf, reg, response,
                 time_left, alarmvars>>

GoodbyeMatch ==
  /\ MainRuns("dispatch") /\ buf.type = "GBYE"
  /\ TicketInBuf
  /\ x' = buf.slot
  /\ spc' = "free"
  /\ UNCHANGED <<netvars, clientvars, tablevars, buf, reg, response,
                 time_left, alarmvars>>

GoodbyeFree ==
  /\ MainRuns("free")
  /\ ticket_array' = [ticket_array EXCEPT ![x] = TICKET_AVAIL]
  /\ spc' = "dec"
  /\ UNCHANGED <<netvars, clientvars, num_tickets_out, buf, x, reg, response,
                 time_left, alarmvars>>

GoodbyeLoad == LoadCount("dec", "decst")
GoodbyeStore ==
  /\ StoreCount("decst", reg - 1)
  /\ response' = Say("THNX")

\* Wrong on purpose: good when somebody has the slot.
ValidateSlot ==
  /\ MainRuns("dispatch") /\ buf.type = "VALD"
  /\ Respond(Say(IF buf.slot # NoSlot /\ ticket_array[buf.slot] # TICKET_AVAIL
                 THEN "GOOD" ELSE "FAIL"))

\* do_validate
ValidateTicket ==
  /\ MainRuns("dispatch") /\ buf.type = "VALD"
  /\ Respond(Say(IF TicketInBuf THEN "GOOD" ELSE "FAIL"))

\* "FAIL invalid request"
InvalidRequest ==
  /\ MainRuns("dispatch") /\ buf.type = "OTHER"
  /\ Respond(Say("FAIL"))

\* sendto.  The request and the locals of its handling are dead from here on,
\* and cleared.
SendResponse ==
  /\ MainRuns("send")
  /\ Deliver(buf.from, response)
  /\ buf' = NoRequest
  /\ response' = NoResponse
  /\ x' = 0
  /\ spc' = "rearm"
  /\ UNCHANGED <<up, starts, queue, clientvars, tablevars, reg, time_left,
                 alarmvars>>

\* alarm(time_left): with 0 it cancels whatever timer there is.
AlarmBackOn ==
  /\ MainRuns("rearm")
  /\ armed' = time_left
  /\ time_left' = FALSE
  /\ spc' = "recv"
  /\ UNCHANGED <<netvars, clientvars, tablevars, buf, x, reg, response,
                 pending, hi, stalled>>

HelloNext ==
  \/ HelloFull \/ HelloNotFull \/ HelloCorrupt \/ HelloScan
  \/ HelloSet \/ HelloPrint \/ HelloLoad \/ HelloStore

GoodbyeNext ==
  \/ GoodbyeBogus \/ GoodbyeMatch \/ GoodbyeFree
  \/ GoodbyeLoad \/ GoodbyeStore

MainNext ==
  \/ Recvfrom
  \/ AlarmOff \/ AlarmOffTooLate
  \/ HelloNext \/ GoodbyeNext \/ ValidateTicket \/ InvalidRequest
  \/ SendResponse
  \/ AlarmBackOn

ServerNext == StartServer \/ Crash \/ Expire \/ HandlerNext \/ MainNext

Next ==
  \/ ServerNext
  \/ \E c \in Clients : (ClientNext(c) \/ ValidateNext(c)) /\ UNCHANGED servervars

Spec == Init /\ [][Next]_vars

-----------------------------------------------------------------------------
(***************************************************************************)
(* Fairness.  Nothing makes the server crash, or anyone restart it.  The   *)
(* handler runs for microseconds in every 60 seconds, so main is not kept  *)
(* from its next instruction for ever (SF).  alarm(time_left) arms the     *)
(* timer with the seconds that were left, so a timer that is stopped and   *)
(* started again runs out in the end (SF): true when not every request     *)
(* follows the one before within half a second, because alarm rounds the   *)
(* seconds left to the nearest whole number.                               *)
(***************************************************************************)

ServerFairness ==
  /\ SF_vars(MainNext)
  /\ WF_vars(HandlerNext)
  /\ SF_vars(Expire)

FairSpec == Spec /\ ServerFairness

-----------------------------------------------------------------------------
(* What must hold *)

TypeOK ==
  /\ ClientTypeOK
  /\ ticket_array \in [Slots -> Pids \cup {TICKET_AVAIL}]
  /\ num_tickets_out \in Int
  /\ spc \in ServerStates
  /\ buf \in Requests \cup {NoRequest}
  /\ x \in Slots
  /\ reg \in Int
  /\ response \in Replies \cup {NoResponse}
  /\ time_left \in BOOLEAN
  /\ armed \in BOOLEAN
  /\ pending \in BOOLEAN
  /\ hi \in NotRunning .. MAXUSERS
  /\ stalled \in BOOLEAN

\* As long as no handle_request was held up for RECLAIM_INTERVAL seconds and
\* nobody typed a HELO or a GBYE by hand, between two changes of the table the
\* count do_hello tests is the number of slots taken, whatever the handler and
\* the requests did before.  (The steps between the change of a slot and the
\* change of the count are left out.)
MidUpdate == {"print", "inc", "incst", "dec", "decst"}

CountMatchesTable ==
  ~stalled /\ ~byhand /\ spc \notin MidUpdate =>
    num_tickets_out = Cardinality(Taken)

\* do_hello's sanity check, "should never happen": a count below MAXUSERS with
\* no free slot.
SanityCheck == spc = "scan" => Taken # Slots

\* It never fails as long as no handle_request was held up and nobody typed a
\* HELO or a GBYE by hand.
NeverCorrupt == ~stalled /\ ~byhand => SanityCheck

\* The alarm is off while a request is handled.
AlarmOffWhileHandling == spc \in Handling => ~armed

\* The slot of a process that no longer exists becomes free, unless the pid is
\* given to a new process first.
DeadTicketsReclaimed ==
  \A s \in Slots, p \in Pids :
    (ticket_array[s] = p /\ p \notin LivePids)
      ~> (ticket_array[s] # p \/ p \in LivePids)

\* A datagram in the server's socket is answered, as long as there is somebody
\* to answer and the server is not killed.
InService(c) == \E i \in 1 .. Len(queue) : queue[i].from = c

RequestsAnswered ==
  \A c \in Clients : InService(c) ~> (inbox[c] # <<>> \/ ~Live(c) \/ ~up)
=============================================================================
