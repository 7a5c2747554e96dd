------------------------------- MODULE WebServer ------------------------------
(***************************************************************************)
(* webserv.c: a server that reads a request from each connection and forks *)
(* a child to answer it.  The child of a request that is malformed, not a  *)
(* GET or for something that is not there, and of a cgi program that cannot *)
(* be run, does not exit: it returns from process_rq into the loop of main *)
(* and goes on as another server on the same socket.                       *)
(*                                                                         *)
(* Each client calls once; the child forked for client c is process c.     *)
(* Standard output starts as a terminal, so a line printed by a server is  *)
(* written at once to whatever its descriptor 1 is.                        *)
(***************************************************************************)
EXTENDS Naturals, SequencesExt

CONSTANTS
  Clients,
  Main,       \* the process that the user started
  None,       \* no connection: a terminal, or a closed descriptor
  Kinds,      \* what the clients ask for
  Backlog,    \* BACKLOG
  Silent,     \* may clients hang up without having sent a line?
  ExecFails,  \* may execl and execlp fail?
  MaxFails    \* bound: how often fork fails

AllKinds ==
  {"malformed", "notGet", "missing", "dir", "cgi", "file", "unreadable"}

ASSUME WebAssumption ==
  /\ None \notin Clients /\ Main \notin Clients
  /\ Kinds \subseteq AllKinds
  /\ Backlog \in Nat \ {0} /\ MaxFails \in Nat
  /\ Silent \in BOOLEAN /\ ExecFails \in BOOLEAN

Procs == Clients \cup {Main}

VARIABLES
  where,    \* of each process: what it does next
  fd,       \* the connection behind its fd
  out,      \* the connection behind its descriptors 1 and 2
  request,  \* whose line its buffer request holds; None: it was never filled
  queue,    \* connections nobody has accepted
  sent,     \* what each client has sent
  hungUp,   \* clients that send nothing more
  kind,     \* what each client asks for
  got,      \* whose requests the texts written to each connection are about
  excused,  \* clients for which fork failed or whose server was killed
  fails     \* forks that failed

procvars == <<where, fd, out, request>>
clientvars == <<sent, hungUp, kind>>
vars == <<procvars, queue, clientvars, got, excused, fails>>

Places == {"none", "accept", "line", "headers", "process", "close",
           "child", "program", "exit"}
Conns == Clients \cup {None}

\* The buffer of a process is one of the clients' lines, and so on.
TypeOK ==
  /\ where \in [Procs -> Places]
  /\ fd \in [Procs -> Conns]
  /\ out \in [Procs -> Conns]
  /\ request \in [Procs -> Conns]
  /\ queue \in BoundedSeq(Clients, Backlog)
  /\ sent \in [Clients -> {"away", "nothing", "line", "all"}]
  /\ hungUp \subseteq Clients
  /\ kind \in [Clients -> Kinds]
  /\ got \in [Clients -> Seq(Conns)]
  /\ excused \subseteq Clients
  /\ fails \in 0 .. MaxFails

Init ==
  /\ where = [p \in Procs |-> IF p = Main THEN "accept" ELSE "none"]
  /\ fd = [p \in Procs |-> None]
  /\ out = [p \in Procs |-> None]
  /\ request = [p \in Procs |-> None]
  /\ queue = <<>>
  /\ sent = [c \in Clients |-> "away"]
  /\ hungUp = {}
  /\ kind \in [Clients -> Kinds]
  /\ got = [c \in Clients |-> <<>>]
  /\ excused = {}
  /\ fails = 0

-----------------------------------------------------------------------------
(* The clients *)

\* Wrong on purpose: one connection more than listen was told.
ConnectOneMore(c) ==
  /\ sent[c] = "away"
  /\ Len(queue) <= Backlog
  /\ queue' = Append(queue, c)
  /\ sent' = [sent EXCEPT ![c] = "nothing"]
  /\ UNCHANGED <<procvars, hungUp, kind, got, excused, fails>>

\* A client that finds the backlog full waits.
Connect(c) ==
  /\ sent[c] = "away"
  /\ Len(queue) < Backlog
  /\ queue' = Append(queue, c)
  /\ sent' = [sent EXCEPT ![c] = "nothing"]
  /\ UNCHANGED <<procvars, hungUp, kind, got, excused, fails>>

\* The request line, then the rest up to the empty line.
Send(c) ==
  /\ sent[c] \in {"nothing", "line"}
  /\ c \notin hungUp
  /\ sent' = [sent EXCEPT ![c] = IF @ = "nothing" THEN "line" ELSE "all"]
  /\ UNCHANGED <<procvars, queue, hungUp, kind, got, excused, fails>>

HangUp(c) ==
  /\ sent[c] \in {"line", "all"} \/ (Silent /\ sent[c] = "nothing")
  /\ c \notin hungUp
  /\ hungUp' = hungUp \cup {c}
  /\ UNCHANGED <<procvars, queue, sent, kind, got, excused, fails>>

-----------------------------------------------------------------------------
(* The main loop, in every process that runs it *)

Accept(p) ==
  /\ where[p] = "accept"
  /\ queue # <<>>
  /\ queue' = Tail(queue)
  /\ fd' = [fd EXCEPT ![p] = Head(queue)]
  /\ where' = [where EXCEPT ![p] = "line"]
  /\ UNCHANGED <<out, request, clientvars, got, excused, fails>>

\* A text about client r's request goes to connection c.
Written(c, r) == IF c = None THEN got ELSE [got EXCEPT ![c] = Append(@, r)]

\* Wrong on purpose: a buffer that holds a line is not filled again.
LineReadOnce(p, line) == IF request[p] = None THEN line ELSE request[p]

\* What the buffer holds when fgets has returned.
LineRead(p, line) == line

\* fgets and the printf.  At the end of the input fgets leaves the buffer as it
\* is, which nobody tests.
ReadLine(p) ==
  /\ where[p] = "line"
  /\ LET c == fd[p] IN
       \/ /\ sent[c] # "nothing"
          /\ request' = [request EXCEPT ![p] = LineRead(p, c)]
       \/ /\ sent[c] = "nothing" /\ c \in hungUp
          /\ UNCHANGED request
  /\ got' = Written(out[p], request'[p])
  /\ where' = [where EXCEPT ![p] = "headers"]
  /\ UNCHANGED <<fd, out, queue, clientvars, excused, fails>>

\* Wrong on purpose: a client that has hung up is not answered.
ReadTilCrnlGivesUp(p) ==
  /\ where[p] = "headers"
  /\ sent[fd[p]] = "all" \/ fd[p] \in hungUp
  /\ where' = [where EXCEPT ![p] =
                 IF sent[fd[p]] = "all" THEN "process" ELSE "close"]
  /\ UNCHANGED <<fd, out, request, queue, clientvars, got, excused, fails>>

ReadTilCrnl(p) ==
  /\ where[p] = "headers"
  /\ sent[fd[p]] = "all" \/ fd[p] \in hungUp
  /\ where' = [where EXCEPT ![p] = "process"]
  /\ UNCHANGED <<fd, out, request, queue, clientvars, got, excused, fails>>

\* The fork of process_rq: the child has the parent's buffer and descriptors.
ProcessRq(p) ==
  /\ where[p] = "process"
  /\ LET c == fd[p] IN
       /\ where' = [where EXCEPT ![p] = "close", ![c] = "child"]
       /\ fd' = [fd EXCEPT ![c] = c]
       /\ out' = [out EXCEPT ![c] = out[p]]
       /\ request' = [request EXCEPT ![c] = request[p]]
  /\ UNCHANGED <<queue, clientvars, got, excused, fails>>

\* fork returns -1, which is not 0: the caller goes on as the parent.
ForkFails(p) ==
  /\ where[p] = "process"
  /\ fails < MaxFails
  /\ fails' = fails + 1
  /\ excused' = excused \cup {fd[p]}
  /\ where' = [where EXCEPT ![p] = "close"]
  /\ UNCHANGED <<fd, out, request, queue, clientvars, got>>

\* Wrong on purpose: the parent leaves the connection open.
CloseCallForgotten(p) ==
  /\ where[p] = "close"
  /\ where' = [where EXCEPT ![p] = "accept"]
  /\ UNCHANGED <<fd, out, request, queue, clientvars, got, excused, fails>>

\* fclose(fpin); where the child's function has closed fd, it fails.
CloseCall(p) ==
  /\ where[p] = "close"
  /\ fd' = [fd EXCEPT ![p] = None]
  /\ where' = [where EXCEPT ![p] = "accept"]
  /\ UNCHANGED <<out, request, queue, clientvars, got, excused, fails>>

-----------------------------------------------------------------------------
(* The rest of process_rq, in the child *)

\* A buffer that was never filled holds anything: no words or some.
Asks(p, k) ==
  /\ where[p] = "child"
  /\ IF request[p] = None THEN k \in {"malformed", "notGet"}
     ELSE k = kind[request[p]]

Goto(p, place) == where' = [where EXCEPT ![p] = place]

Exits(p) ==
  /\ Goto(p, "exit")
  /\ fd' = [fd EXCEPT ![p] = None]
  /\ out' = [out EXCEPT ![p] = None]

\* sscanf does not find two words.
NotTwoWords(p) ==
  /\ Asks(p, "malformed")
  /\ Goto(p, "close")
  /\ UNCHANGED <<fd, out, got>>

\* cannot_do and do_404
Refuse(p) ==
  /\ Asks(p, "notGet") \/ Asks(p, "missing")
  /\ got' = Written(fd[p], request[p])
  /\ fd' = [fd EXCEPT ![p] = None]
  /\ Goto(p, "close")
  /\ UNCHANGED out

\* do_ls and do_exec: the header, then descriptors 1 and 2 become the connection.
Redirect(p) ==
  /\ got' = Written(fd[p], request[p])
  /\ out' = [out EXCEPT ![p] = fd[p]]
  /\ fd' = [fd EXCEPT ![p] = None]

RunProgram(p) ==
  /\ Asks(p, "dir") \/ Asks(p, "cgi")
  /\ Redirect(p)
  /\ Goto(p, "program")

\* execlp fails in do_ls, which exits.
LsFails(p) ==
  /\ ExecFails
  /\ Asks(p, "dir")
  /\ got' = Written(fd[p], request[p])
  /\ Exits(p)

\* execl fails in do_exec, which returns.
CgiFails(p) ==
  /\ ExecFails
  /\ Asks(p, "cgi")
  /\ Redirect(p)
  /\ Goto(p, "close")

\* It exits whether or not the file could be opened.
DoCat(p) ==
  /\ Asks(p, "file") \/ Asks(p, "unreadable")
  /\ got' = IF Asks(p, "file") THEN Written(fd[p], request[p]) ELSE got
  /\ Exits(p)

Child(p) ==
  /\ \/ NotTwoWords(p) \/ Refuse(p) \/ RunProgram(p)
     \/ LsFails(p) \/ CgiFails(p) \/ DoCat(p)
  /\ UNCHANGED <<request, queue, clientvars, excused, fails>>

\* ls or the cgi program ends.
ProgramEnds(p) ==
  /\ where[p] = "program"
  /\ Exits(p)
  /\ UNCHANGED <<request, queue, clientvars, got, excused, fails>>

\* Does what process_rq does about this buffer write anything?
Replies(p) == \E k \in AllKinds \ {"malformed", "unreadable"} : Asks(p, k)

\* SIGPIPE, which may come when the client has gone: for a child that answers
\* it, or for a server that prints what it has read of the next request, if
\* anything, to where its answer went.  The call that this server has accepted
\* is lost with it.
SigPipe(p) ==
  /\ \/ Replies(p) /\ fd[p] \in hungUp
     \/ /\ where[p] = "line" /\ out[p] \in hungUp
        /\ sent[fd[p]] # "nothing" \/ fd[p] \in hungUp
  /\ Exits(p)
  /\ excused' = excused \cup {fd[p]}
  /\ UNCHANGED <<request, queue, clientvars, got, fails>>

-----------------------------------------------------------------------------
ClientNext(c) == Connect(c) \/ Send(c) \/ HangUp(c)

ProcNext(p) ==
  \/ Accept(p) \/ ReadLine(p) \/ ReadTilCrnl(p)
  \/ ProcessRq(p) \/ ForkFails(p) \/ CloseCall(p)
  \/ Child(p) \/ ProgramEnds(p) \/ SigPipe(p)

Next ==
  \/ \E c \in Clients : ClientNext(c)
  \/ \E p \in Procs : ProcNext(p)

Spec == Init /\ [][Next]_vars

\* Processes that can run do, programs end, and a client that has called
\* finishes its request or hangs up: the server has no timeout.
FairSpec ==
  /\ Spec
  /\ \A p \in Procs : WF_vars(ProcNext(p))
  /\ \A c \in Clients : WF_vars(Send(c) \/ HangUp(c))

-----------------------------------------------------------------------------
(* What must hold *)

\* Does the server, in any of its processes, have the connection open?
Served(c) == \E p \in Procs : c \in {fd[p], out[p]}
Called(c) == sent[c] # "away"
Over(c) == Called(c) /\ ~Contains(queue, c) /\ ~Served(c)

\* The child that was to run c's cgi program and failed serves on, with c's
\* connection as its output.
ServesOnOver(c) == out[c] = c /\ where[c] \in {"accept", "line", "headers",
                                               "process", "close"}

\* "do what the request asks for and write reply to fd": a client that has sent
\* its line gets the reply to its own request first, whichever process of
\* however many that accept has taken its call and whatever that one has read
\* before; and it gets nothing else, unless its own cgi program could not be run.
AnswerFits ==
  \A c \in Clients : sent[c] # "nothing" /\ got[c] # <<>> =>
    /\ got[c][1] = c
    /\ Len(got[c]) = 1 \/ (ExecFails /\ kind[c] = "cgi")

\* A connection is not closed before its request was answered, unless process_rq
\* returns or exits without a reply: fork failed, a malformed line, a file that
\* cannot be opened; or the client did not send a line or did not wait.
Answered ==
  \A c \in Clients :
    Over(c) => \/ got[c] # <<>>
               \/ c \in excused
               \/ sent[c] = "nothing"
               \/ kind[c] \in {"malformed", "unreadable"}

\* Every call comes to an end: parent, child and the programs they run all give
\* the connection up, or else the child serves on over it.
CallsEnd == \A c \in Clients : Called(c) ~> Over(c) \/ ServesOnOver(c)

\* "do what the request asks for and write reply to fd": a reply is to the
\* request of the client that it is sent to, never to that of another one.
RepliesFit ==
  \A c \in Clients : \A i \in DOMAIN got[c] : got[c][i] \notin Clients \ {c}
=============================================================================
