--------------------------- MODULE WebServerProofs ---------------------------
(***************************************************************************)
(* Proofs about the web server (WebServer): a client that has sent its     *)
(* line gets the reply to its own request first, whichever process took    *)
(* its call, and no connection is closed before it was answered without    *)
(* one of the reasons Answered names.                                      *)
(***************************************************************************)
EXTENDS WebServer, SequenceTheorems, TLAPS

-----------------------------------------------------------------------------
(* The inductive invariant *)

\* A process that has accepted a call and has not forked for it yet.
Busy(p) == where[p] \in {"line", "headers", "process"}

\* A call that waits is in the queue once and nowhere else; a call that was
\* accepted is in the hands of one process, and has no process of its own yet;
\* a child has its own.
CallInv ==
  /\ \A p \in Procs : Busy(p) =>
       fd[p] \in Clients /\ where[fd[p]] = "none" /\ sent[fd[p]] # "away"
  /\ \A p, q \in Procs : Busy(p) /\ Busy(q) /\ fd[p] = fd[q] => p = q
  /\ \A i \in DOMAIN queue :
       /\ where[queue[i]] = "none" /\ sent[queue[i]] # "away"
       /\ \A p \in Procs : Busy(p) => fd[p] # queue[i]
       /\ \A j \in DOMAIN queue : queue[i] = queue[j] => i = j
  /\ \A p \in Procs : where[p] = "child" => p \in Clients /\ fd[p] = p
  /\ \A c \in Clients : sent[c] = "away" => where[c] = "none"

\* What fgets has for a call: a line, or the end of the input, and then the
\* client sends nothing more.
Heard(c) == sent[c] \in {"line", "all"} \/ (sent[c] = "nothing" /\ c \in hungUp)

\* The buffer of a process that goes on with a line that was sent holds it.
ReadInv ==
  /\ \A p \in Procs : where[p] \in {"headers", "process"} =>
       Heard(fd[p]) /\ (sent[fd[p]] # "nothing" => request[p] = fd[p])
  /\ \A c \in Clients : where[c] # "none" => Heard(c)
  /\ \A c \in Clients : where[c] = "child" /\ sent[c] # "nothing" => request[c] = c

\* Nothing is written to a connection before its child; and afterwards only by
\* processes whose output it is, which comes from a cgi program that could not
\* be run.
OutInv ==
  /\ \A c \in Clients : where[c] \in {"none", "child"} => got[c] = <<>>
  /\ \A p \in Procs : out[p] # None =>
       /\ got[out[p]] # <<>>
       /\ \/ where[p] = "program"
          \/ ExecFails /\ (sent[out[p]] # "nothing" => kind[out[p]] = "cgi")

\* A call waits, is being read, has a child, or there is something to say for
\* its end.
Pending(c) ==
  \/ Contains(queue, c)
  \/ \E p \in Procs : Busy(p) /\ fd[p] = c
  \/ where[c] = "child"

Settled(c) ==
  \/ got[c] # <<>>
  \/ c \in excused
  \/ sent[c] = "nothing" /\ c \in hungUp
  \/ kind[c] \in {"malformed", "unreadable"}

PlaceInv == \A c \in Clients : Called(c) => Pending(c) \/ Settled(c)

WebInv == TypeOK /\ CallInv /\ ReadInv /\ OutInv /\ AnswerFits /\ PlaceInv

-----------------------------------------------------------------------------
(* Types *)

\* The names are told apart.
LEMMA Apart ==
  /\ None \notin Clients /\ Main \notin Clients /\ Main \in Procs
  /\ Clients \subseteq Procs /\ Clients \subseteq Conns /\ None \in Conns
  /\ Backlog \in Nat /\ MaxFails \in Nat
BY WebAssumption DEF WebAssumption, Procs, Conns

\* The queue of a socket is a sequence no longer than the backlog.
LEMMA QueueType ==
  ASSUME NEW s
  PROVE  s \in BoundedSeq(Clients, Backlog) <=> s \in Seq(Clients) /\ Len(s) <= Backlog
<1>1. ASSUME NEW n \in Nat, n <= Backlog, s \in [1 .. n -> Clients]
      PROVE  s \in Seq(Clients) /\ Len(s) <= Backlog
  BY <1>1
<1>2. ASSUME s \in Seq(Clients), Len(s) <= Backlog
      PROVE  \E n \in 0 .. Backlog : s \in [1 .. n -> Clients]
  <2>1. Len(s) \in 0 .. Backlog /\ s \in [1 .. Len(s) -> Clients]
    BY <1>2, Apart
  <2>. QED  BY <2>1
<1>. QED  BY <1>1, <1>2, Apart DEF BoundedSeq, SeqOf

\* What is written to a connection is about somebody's request.
LEMMA WrittenType ==
  ASSUME TypeOK, NEW c \in Conns, NEW r \in Conns
  PROVE  Written(c, r) \in [Clients -> Seq(Conns)]
<1>1. CASE c = None
  BY <1>1 DEF TypeOK, Written
<1>2. CASE c \in Clients
  <2>1. got[c] \in Seq(Conns) /\ got \in [Clients -> Seq(Conns)]
    BY <1>2 DEF TypeOK
  <2>2. Append(got[c], r) \in Seq(Conns)
    BY <2>1
  <2>. QED  BY <1>2, <2>1, <2>2, Apart DEF Written
<1>. QED  BY <1>1, <1>2 DEF Conns

\* The state starts within its types.
LEMMA TypeStart == Init => TypeOK
<1>. SUFFICES ASSUME Init  PROVE TypeOK
  OBVIOUS
<1>1. queue \in BoundedSeq(Clients, Backlog)
  <2>1. <<>> \in Seq(Clients) /\ Len(<<>>) <= Backlog
    BY Apart
  <2>. QED  BY <2>1, QueueType DEF Init
<1>. QED  BY <1>1, Apart DEF Init, TypeOK, Places

\* Every step stays within them.
LEMMA TypeStep == TypeOK /\ CallInv /\ [Next]_vars => TypeOK'
<1>. SUFFICES ASSUME TypeOK, CallInv, [Next]_vars  PROVE TypeOK'
  OBVIOUS
<1>. USE Apart DEF procvars, clientvars, Places
<1>0. queue \in Seq(Clients) /\ Len(queue) <= Backlog
  BY QueueType DEF TypeOK
<1>1. ASSUME NEW c \in Clients, Connect(c)  PROVE TypeOK'
  <2>1. Append(queue, c) \in Seq(Clients) /\ Len(Append(queue, c)) <= Backlog
    BY <1>0, <1>1 DEF Connect
  <2>2. queue' \in BoundedSeq(Clients, Backlog)
    BY <1>1, <2>1, QueueType DEF Connect
  <2>. QED  BY <1>1, <2>2 DEF Connect, TypeOK
<1>2. ASSUME NEW c \in Clients, Send(c) \/ HangUp(c)  PROVE TypeOK'
  BY <1>2 DEF Send, HangUp, TypeOK
<1>3. ASSUME NEW p \in Procs, Accept(p)  PROVE TypeOK'
  <2>1. Tail(queue) \in Seq(Clients) /\ Len(Tail(queue)) <= Backlog
        /\ Head(queue) \in Clients
    BY <1>0, <1>3 DEF Accept
  <2>2. queue' \in BoundedSeq(Clients, Backlog)
    BY <1>3, <2>1, QueueType DEF Accept
  <2>. QED  BY <1>3, <2>1, <2>2 DEF Accept, TypeOK
<1>4. ASSUME NEW p \in Procs, ReadLine(p)  PROVE TypeOK'
  <2>1. fd[p] \in Conns /\ out[p] \in Conns /\ request' \in [Procs -> Conns]
    BY <1>4 DEF ReadLine, LineRead, TypeOK
  <2>2. got' \in [Clients -> Seq(Conns)]
    BY <1>4, <2>1, WrittenType DEF ReadLine
  <2>. QED  BY <1>4, <2>1, <2>2 DEF ReadLine, TypeOK
<1>5. ASSUME NEW p \in Procs, ReadTilCrnl(p) \/ CloseCall(p)  PROVE TypeOK'
  <2>1. where' \in [Procs -> Places] /\ fd' \in [Procs -> Conns]
    BY <1>5 DEF ReadTilCrnl, CloseCall, TypeOK
  <2>. QED  BY <1>5, <2>1 DEF ReadTilCrnl, CloseCall, TypeOK
<1>6. ASSUME NEW p \in Procs, ProcessRq(p)  PROVE TypeOK'
  BY <1>6 DEF ProcessRq, TypeOK, Conns
<1>7. ASSUME NEW p \in Procs, ForkFails(p)  PROVE TypeOK'
  <2>1. fd[p] \in Clients /\ fails + 1 \in 0 .. MaxFails
    BY <1>7 DEF ForkFails, TypeOK, CallInv, Busy
  <2>. QED  BY <1>7, <2>1 DEF ForkFails, TypeOK
<1>8. ASSUME NEW p \in Procs, Child(p)  PROVE TypeOK'
  <2>1. Written(fd[p], request[p]) \in [Clients -> Seq(Conns)]
    BY WrittenType DEF TypeOK
  <2>2. /\ got' = got \/ got' = Written(fd[p], request[p])
        /\ fd' = fd \/ fd' = [fd EXCEPT ![p] = None]
        /\ out' = out \/ out' = [out EXCEPT ![p] = None]
             \/ out' = [out EXCEPT ![p] = fd[p]]
        /\ \E place \in Places : where' = [where EXCEPT ![p] = place]
        /\ UNCHANGED <<request, queue, clientvars, excused, fails>>
    BY <1>8 DEF Child, NotTwoWords, Refuse, RunProgram, LsFails, CgiFails, DoCat,
       Redirect, Exits, Goto
  <2>3. where' \in [Procs -> Places]
    <3>1. PICK place \in Places : where' = [where EXCEPT ![p] = place]
      BY <2>2
    <3>2. where \in [Procs -> Places]
      BY DEF TypeOK
    <3>. HIDE DEF Places
    <3>. QED  BY <3>1, <3>2
  <2>4. fd \in [Procs -> Conns] /\ out \in [Procs -> Conns] /\ fd[p] \in Conns
    BY DEF TypeOK
  <2>5. fd' \in [Procs -> Conns]
    BY <2>2, <2>4
  <2>6. out' \in [Procs -> Conns]
    BY <2>2, <2>4
  <2>. QED  BY <2>1, <2>2, <2>3, <2>5, <2>6 DEF TypeOK
<1>9. ASSUME NEW p \in Procs, ProgramEnds(p) \/ SigPipe(p)  PROVE TypeOK'
  <2>1. SigPipe(p) => fd[p] \in Clients
    BY DEF SigPipe, Replies, Asks, CallInv, Busy
  <2>2. /\ where' = [where EXCEPT ![p] = "exit"] /\ fd' = [fd EXCEPT ![p] = None]
        /\ out' = [out EXCEPT ![p] = None]
        /\ excused' = excused \/ (excused' = excused \cup {fd[p]} /\ fd[p] \in Clients)
        /\ UNCHANGED <<request, queue, clientvars, got, fails>>
    BY <1>9, <2>1 DEF ProgramEnds, SigPipe, Replies, Asks, Exits, Goto
  <2>3. where' \in [Procs -> Places] /\ excused' \subseteq Clients
    BY <2>2 DEF TypeOK
  <2>4. fd' \in [Procs -> Conns] /\ out' \in [Procs -> Conns]
    BY <2>2 DEF TypeOK
  <2>. QED  BY <2>2, <2>3, <2>4 DEF TypeOK
<1>10. CASE UNCHANGED vars
  BY <1>10 DEF vars, TypeOK
<1>. QED
  BY <1>1, <1>2, <1>3, <1>4, <1>5, <1>6, <1>7, <1>8, <1>9, <1>10
  DEF Next, ClientNext, ProcNext
-----------------------------------------------------------------------------
(* Who has which call *)

\* At the start there are no calls.
LEMMA CallStart == Init => CallInv
BY Apart DEF Init, CallInv, Busy

\* What a process does with its call until it forks, and a child and a program
\* all the time: it is the only one to move, and takes no other call.
Moves(p) ==
  /\ where[p] # "none"
  /\ \E place \in Places \ {"none", "child"} :
       /\ where' = [where EXCEPT ![p] = place]
       /\ place \in {"line", "headers", "process"} => Busy(p) /\ fd'[p] = fd[p]
  /\ \A q \in Procs \ {p} : fd'[q] = fd[q] /\ out'[q] = out[q]
  /\ UNCHANGED <<queue, clientvars>>

\* Such a step leaves every call in its place.
LEMMA MovesCall ==
  ASSUME TypeOK, CallInv, NEW p \in Procs, Moves(p)
  PROVE  CallInv'
<1>1. PICK place \in Places \ {"none", "child"} :
        /\ where' = [where EXCEPT ![p] = place]
        /\ place \in {"line", "headers", "process"} => Busy(p) /\ fd'[p] = fd[p]
  BY DEF Moves
<1>2. /\ \A q \in Procs \ {p} : fd'[q] = fd[q] /\ where'[q] = where[q]
      /\ where'[p] = place /\ where[p] # "none"
      /\ UNCHANGED <<queue, sent>>
  BY <1>1 DEF Moves, TypeOK, clientvars
<1>3. \A q \in Procs : Busy(q)' => Busy(q) /\ fd'[q] = fd[q]
  BY <1>1, <1>2 DEF Busy
<1>4. \A c \in Procs : where'[c] = "none" <=> where[c] = "none"
  BY <1>1, <1>2
<1>5. \A q \in Procs : where'[q] = "child" => where[q] = "child" /\ fd'[q] = fd[q]
  BY <1>1, <1>2
<1>6. \A i \in DOMAIN queue : queue[i] \in Clients
  BY QueueType DEF TypeOK
<1>. QED  BY <1>2, <1>3, <1>4, <1>5, <1>6, Apart DEF CallInv

\* These are the steps that do no more.
LEMMA ProcMoves ==
  ASSUME TypeOK, CallInv, NEW p \in Procs, ProcNext(p), ~Accept(p), ~ProcessRq(p)
  PROVE  Moves(p)
<1>. USE Apart DEF Places, Moves, Busy, procvars, clientvars
<1>0. where \in [Procs -> Places] /\ fd \in [Procs -> Conns] /\ out \in [Procs -> Conns]
  BY DEF TypeOK
<1>1. CASE ReadLine(p)
  BY <1>0, <1>1 DEF ReadLine
<1>2. CASE ReadTilCrnl(p)
  BY <1>0, <1>2 DEF ReadTilCrnl
<1>3. CASE ForkFails(p)
  BY <1>0, <1>3 DEF ForkFails
<1>4. CASE CloseCall(p)
  <2>1. /\ where[p] = "close" /\ where' = [where EXCEPT ![p] = "accept"]
        /\ \A q \in Procs \ {p} : fd'[q] = fd[q] /\ out'[q] = out[q]
        /\ UNCHANGED <<queue, clientvars>>
    BY <1>0, <1>4 DEF CloseCall
  <2>2. "accept" \in Places \ {"none", "child"}
        /\ "accept" \notin {"line", "headers", "process"}
    OBVIOUS
  <2>3. where[p] # "none"
    BY <2>1
  <2>. HIDE DEF Places, Busy
  <2>. QED  BY <2>1, <2>2, <2>3
<1>5. CASE Child(p)
  BY <1>0, <1>5 DEF Child, NotTwoWords, Refuse, RunProgram, LsFails, CgiFails, DoCat,
     Redirect, Exits, Goto, Asks
<1>6. CASE ProgramEnds(p) \/ SigPipe(p)
  BY <1>0, <1>6 DEF ProgramEnds, SigPipe, Replies, Asks, Exits, Goto
<1>. QED  BY <1>1, <1>2, <1>3, <1>4, <1>5, <1>6 DEF ProcNext

\* Every call stays in one place.
LEMMA CallStep == TypeOK /\ CallInv /\ [Next]_vars => CallInv'
<1>. SUFFICES ASSUME TypeOK, CallInv, [Next]_vars  PROVE CallInv'
  OBVIOUS
<1>. USE Apart DEF procvars, clientvars
<1>0. queue \in Seq(Clients) /\ DOMAIN queue = 1 .. Len(queue)
      /\ where \in [Procs -> Places] /\ fd \in [Procs -> Conns]
      /\ sent \in [Clients -> {"away", "nothing", "line", "all"}]
  BY QueueType DEF TypeOK
<1>1. ASSUME NEW c \in Clients, Connect(c)  PROVE CallInv'
  <2>1. /\ sent[c] = "away" /\ where[c] = "none"
        /\ sent' = [sent EXCEPT ![c] = "nothing"]
        /\ queue' = Append(queue, c)
        /\ UNCHANGED <<where, fd>>
        /\ \A p \in Procs : Busy(p) => fd[p] # c
        /\ \A i \in DOMAIN queue : queue[i] # c
    BY <1>0, <1>1 DEF Connect, CallInv
  <2>2. /\ DOMAIN queue' = 1 .. Len(queue) + 1 /\ queue'[Len(queue) + 1] = c
        /\ \A i \in DOMAIN queue : queue'[i] = queue[i] /\ queue[i] \in Clients
    BY <1>0, <2>1
  <2>3. \A i \in DOMAIN queue' : i \in DOMAIN queue \/ i = Len(queue) + 1
    BY <1>0, <2>2
  <2>. QED  BY <1>0, <2>1, <2>2, <2>3 DEF CallInv, Busy
<1>2. ASSUME NEW c \in Clients, Send(c) \/ HangUp(c)  PROVE CallInv'
  <2>1. /\ UNCHANGED <<where, fd, queue>>
        /\ \A d \in Clients : sent'[d] = "away" <=> sent[d] = "away"
    BY <1>0, <1>2 DEF Send, HangUp
  <2>. QED  BY <1>0, <2>1 DEF CallInv, Busy
<1>3. ASSUME NEW p \in Procs, Accept(p)  PROVE CallInv'
  <2>1. /\ where[p] = "accept" /\ queue # <<>> /\ queue' = Tail(queue)
        /\ fd' = [fd EXCEPT ![p] = queue[1]]
        /\ where' = [where EXCEPT ![p] = "line"]
        /\ sent' = sent
    BY <1>0, <1>3 DEF Accept
  <2>2. 1 \in DOMAIN queue /\ DOMAIN queue' = 1 .. Len(queue) - 1
        /\ \A i \in DOMAIN queue' : i + 1 \in DOMAIN queue /\ queue'[i] = queue[i + 1]
                                    /\ i + 1 # 1
    BY <1>0, <2>1
  <2>3. /\ queue[1] \in Clients /\ where[queue[1]] = "none" /\ queue[1] # p
        /\ sent[queue[1]] # "away"
        /\ \A i \in DOMAIN queue' : queue'[i] # queue[1]
        /\ \A q \in Procs : Busy(q) => fd[q] # queue[1]
    BY <1>0, <2>1, <2>2 DEF CallInv
  <2>4. \A q \in Procs : /\ Busy(q)' <=> Busy(q) \/ q = p
                         /\ q # p => fd'[q] = fd[q]
    BY <1>0, <2>1 DEF Busy
  <2>. QED  BY <1>0, <2>1, <2>2, <2>3, <2>4 DEF CallInv
<1>4. ASSUME NEW p \in Procs, ProcessRq(p)  PROVE CallInv'
  <2>1. PICK c \in Clients :
          /\ c = fd[p] /\ where[p] = "process" /\ where[c] = "none" /\ sent[c] # "away"
          /\ where' = [where EXCEPT ![p] = "close", ![c] = "child"]
          /\ fd' = [fd EXCEPT ![c] = c]
          /\ UNCHANGED <<queue, sent>>
    BY <1>4 DEF ProcessRq, CallInv, Busy
  <2>2. \A i \in DOMAIN queue : queue[i] # c /\ queue[i] \in Clients
    BY <1>0, <2>1 DEF CallInv, Busy
  <2>3. \A q \in Procs : Busy(q)' => Busy(q) /\ fd'[q] = fd[q] /\ fd[q] # c
    BY <1>0, <2>1 DEF CallInv, Busy
  <2>. QED  BY <1>0, <2>1, <2>2, <2>3 DEF CallInv
<1>5. ASSUME NEW p \in Procs, ProcNext(p), ~Accept(p), ~ProcessRq(p)  PROVE CallInv'
  BY <1>5, ProcMoves, MovesCall
<1>6. CASE UNCHANGED vars
  BY <1>6 DEF vars, CallInv, Busy
<1>. QED
  BY <1>1, <1>2, <1>3, <1>4, <1>5, <1>6 DEF Next, ClientNext
-----------------------------------------------------------------------------
(* What was read *)

\* At the start nothing was read.
LEMMA ReadStart == Init => ReadInv
BY Apart DEF Init, ReadInv

\* The buffer of a process, and that of its child, holds the line of the call
\* it has, if there was one.
LEMMA ReadStep == TypeOK /\ CallInv /\ ReadInv /\ [Next]_vars => ReadInv'
<1>. SUFFICES ASSUME TypeOK, CallInv, ReadInv, [Next]_vars  PROVE ReadInv'
  OBVIOUS
<1>. USE Apart DEF procvars, clientvars
<1>0. /\ queue \in Seq(Clients)
      /\ where \in [Procs -> Places] /\ fd \in [Procs -> Conns]
      /\ request \in [Procs -> Conns]
      /\ sent \in [Clients -> {"away", "nothing", "line", "all"}]
      /\ hungUp \subseteq Clients
      /\ \A p \in Procs : where[p] \in {"line", "headers", "process"} =>
                            fd[p] \in Clients
  BY QueueType DEF TypeOK, CallInv, Busy
<1>1. ASSUME NEW c \in Clients, ClientNext(c)  PROVE ReadInv'
  <2>1. UNCHANGED <<where, fd, request>>
    BY <1>1 DEF ClientNext, Connect, Send, HangUp
  <2>2. \A d \in Clients : Heard(d) =>
          Heard(d)' /\ (sent'[d] # "nothing" => sent[d] # "nothing")
    BY <1>0, <1>1 DEF ClientNext, Connect, Send, HangUp, Heard
  <2>. QED  BY <1>0, <2>1, <2>2 DEF ReadInv
<1>2. ASSUME NEW p \in Procs, ProcNext(p)  PROVE ReadInv'
  <2>1. /\ UNCHANGED clientvars
        /\ \A c \in Clients : Heard(c)' <=> Heard(c)
    BY <1>2 DEF ProcNext, Accept, ReadLine, ReadTilCrnl, ProcessRq, ForkFails, CloseCall,
       Child, ProgramEnds, SigPipe, Heard
  <2>2. CASE Accept(p)
    BY <1>0, <2>1, <2>2 DEF Accept, ReadInv
  <2>3. CASE ReadLine(p)
    <3>1. Heard(fd[p]) /\ (sent[fd[p]] # "nothing" => request'[p] = fd[p])
      BY <1>0, <2>3 DEF ReadLine, LineRead, Heard, CallInv, Busy
    <3>2. /\ where' = [where EXCEPT ![p] = "headers"] /\ fd' = fd
          /\ \A q \in Procs \ {p} : request'[q] = request[q]
      BY <1>0, <2>3 DEF ReadLine, LineRead
    <3>. QED  BY <1>0, <2>1, <2>3, <3>1, <3>2 DEF ReadInv, ReadLine
  <2>4. CASE ReadTilCrnl(p)
    BY <1>0, <2>1, <2>4 DEF ReadTilCrnl, ReadInv
  <2>5. CASE ProcessRq(p)
    <3>1. PICK c \in Clients :
            /\ c = fd[p] /\ where[p] = "process" /\ where[c] = "none"
            /\ where' = [where EXCEPT ![p] = "close", ![c] = "child"]
            /\ fd' = [fd EXCEPT ![c] = c]
            /\ request' = [request EXCEPT ![c] = request[p]]
      BY <1>0, <2>5 DEF ProcessRq, CallInv, Busy
    <3>2. Heard(c) /\ (sent[c] # "nothing" => request'[c] = c)
      BY <1>0, <3>1 DEF ReadInv
    <3>3. \A q \in Procs : where'[q] \in {"headers", "process"} =>
            where'[q] = where[q] /\ fd'[q] = fd[q] /\ request'[q] = request[q]
      BY <1>0, <3>1
    <3>. QED  BY <1>0, <2>1, <3>1, <3>2, <3>3 DEF ReadInv
  <2>6. CASE ~Accept(p) /\ ~ReadLine(p) /\ ~ReadTilCrnl(p) /\ ~ProcessRq(p)
    <3>1. /\ request' = request
          /\ \A q \in Procs : where'[q] \in {"headers", "process"} =>
               where'[q] = where[q] /\ fd'[q] = fd[q]
          /\ \A q \in Procs : where'[q] # "none" => where[q] # "none"
          /\ \A q \in Procs : where'[q] = "child" => where[q] = "child"
      <4>1. CASE Child(p)
        BY <1>0, <4>1 DEF Child, NotTwoWords, Refuse, RunProgram, LsFails, CgiFails,
           DoCat, Redirect, Exits, Goto, Asks
      <4>2. CASE ForkFails(p) \/ CloseCall(p)
        BY <1>0, <4>2 DEF ForkFails, CloseCall
      <4>3. CASE ProgramEnds(p) \/ SigPipe(p)
        BY <1>0, <4>3 DEF ProgramEnds, SigPipe, Replies, Asks, Exits, Goto
      <4>. QED  BY <1>2, <2>6, <4>1, <4>2, <4>3 DEF ProcNext
    <3>. QED  BY <1>0, <2>1, <3>1 DEF ReadInv
  <2>. QED  BY <2>2, <2>3, <2>4, <2>5, <2>6
<1>3. CASE UNCHANGED vars
  BY <1>3 DEF vars, ReadInv, Heard
<1>. QED  BY <1>1, <1>2, <1>3 DEF Next
-----------------------------------------------------------------------------
(* What is written *)

\* At the start nothing was written.
LEMMA OutStart == Init => OutInv /\ AnswerFits
BY Apart DEF Init, OutInv, AnswerFits

\* A child is the first to write to its connection, and writes about its own
\* client if that one has sent a line.
LEMMA ChildFirst ==
  ASSUME TypeOK, CallInv, ReadInv, OutInv, NEW p \in Procs, where[p] = "child"
  PROVE  /\ p \in Clients /\ fd[p] = p /\ got[p] = <<>>
         /\ sent[p] # "nothing" => request[p] = p
         /\ \A q \in Procs : out[q] # p
         /\ Written(fd[p], request[p]) = [got EXCEPT ![p] = <<request[p]>>]
<1>1. p \in Clients /\ fd[p] = p
  BY DEF CallInv
<1>2. got[p] = <<>> /\ (sent[p] # "nothing" => request[p] = p)
  BY <1>1 DEF OutInv, ReadInv
<1>3. \A q \in Procs : out[q] # p
  BY <1>1, <1>2, Apart DEF OutInv
<1>4. Append(got[p], request[p]) = <<request[p]>>
  BY <1>2
<1>. QED  BY <1>1, <1>2, <1>3, <1>4, Apart DEF Written

\* A client that speaks up has been sent nothing so far.
LEMMA SpeaksFirst ==
  ASSUME TypeOK, CallInv, ReadInv, OutInv, NEW c \in Clients, ClientNext(c)
  PROVE  /\ UNCHANGED <<procvars, got, kind>>
         /\ \A d \in Clients : sent'[d] # sent[d] =>
              \/ got[d] = <<>>
              \/ sent[d] = "line" /\ sent'[d] = "all"
<1>1. UNCHANGED <<procvars, got, kind>>
  BY DEF ClientNext, Connect, Send, HangUp
<1>2. \A d \in Clients : sent'[d] # sent[d] => d = c
  BY DEF ClientNext, Connect, Send, HangUp, TypeOK
<1>3. sent[c] = "away" \/ (sent[c] = "nothing" /\ c \notin hungUp) => got[c] = <<>>
  <2>1. sent[c] = "away" \/ (sent[c] = "nothing" /\ c \notin hungUp)
          => where[c] = "none"
    BY DEF ReadInv, Heard
  <2>. QED  BY <2>1 DEF OutInv
<1>4. sent'[c] # sent[c] =>
        \/ sent[c] = "away" \/ (sent[c] = "nothing" /\ c \notin hungUp)
        \/ sent[c] = "line" /\ sent'[c] = "all"
  BY DEF ClientNext, Connect, Send, HangUp, TypeOK
<1>. QED  BY <1>1, <1>2, <1>3, <1>4

\* No step writes the wrong answer.
LEMMA OutStep ==
  TypeOK /\ CallInv /\ ReadInv /\ OutInv /\ AnswerFits /\ [Next]_vars
    => OutInv' /\ AnswerFits'
<1>. SUFFICES ASSUME TypeOK, CallInv, ReadInv, OutInv, AnswerFits, [Next]_vars
              PROVE  OutInv' /\ AnswerFits'
  OBVIOUS
<1>. USE Apart DEF procvars, clientvars
<1>0. /\ where \in [Procs -> Places] /\ fd \in [Procs -> Conns]
      /\ request \in [Procs -> Conns] /\ out \in [Procs -> Conns]
      /\ got \in [Clients -> Seq(Conns)]
      /\ \A p \in Procs : out[p] # None => out[p] \in Clients
  BY DEF TypeOK, Conns
<1>1. ASSUME NEW c \in Clients, ClientNext(c)  PROVE OutInv' /\ AnswerFits'
  <2>1. OutInv'
    BY <1>0, <1>1, SpeaksFirst DEF OutInv
  <2>2. AnswerFits'
    BY <1>0, <1>1, SpeaksFirst DEF AnswerFits
  <2>. QED  BY <2>1, <2>2
<1>2. ASSUME NEW p \in Procs, ProcNext(p)  PROVE OutInv' /\ AnswerFits'
  <2>1. UNCHANGED clientvars
    BY <1>2 DEF ProcNext, Accept, ReadLine, ReadTilCrnl, ProcessRq, ForkFails, CloseCall,
       Child, ProgramEnds, SigPipe
  <2>2. CASE Accept(p) \/ ReadTilCrnl(p) \/ ForkFails(p) \/ CloseCall(p)
    <3>1. /\ UNCHANGED <<got, out, kind, sent>>
          /\ \A q \in Procs : where'[q] = where[q]
                               \/ (where[q] \notin {"program", "none", "child"}
                                   /\ where'[q] \notin {"none", "child"})
      BY <1>0, <2>1, <2>2 DEF Accept, ReadTilCrnl, ForkFails, CloseCall
    <3>. QED  BY <1>0, <3>1 DEF OutInv, AnswerFits
  <2>3. CASE ReadLine(p)
    <3>1. where[p] = "line" /\ where' = [where EXCEPT ![p] = "headers"] /\ out' = out
      BY <2>3 DEF ReadLine
    <3>2. CASE out[p] = None
      <4>1. got' = got
        BY <2>3, <3>2 DEF ReadLine, Written
      <4>. QED  BY <1>0, <2>1, <3>1, <4>1 DEF OutInv, AnswerFits
    <3>3. CASE out[p] # None
      <4>. DEFINE c == out[p]  r == request'[p]
      <4>1. /\ c \in Clients /\ got[c] # <<>> /\ ExecFails
            /\ sent[c] # "nothing" => kind[c] = "cgi"
        BY <1>0, <3>1, <3>3 DEF OutInv
      <4>2. got' = [got EXCEPT ![c] = Append(got[c], r)]
        BY <2>3, <3>3 DEF ReadLine, Written
      <4>3. got[c] \in Seq(Conns) /\ r \in Conns
        BY <1>0, <2>3, <4>1 DEF ReadLine, LineRead
      <4>4. got'[c] # <<>> /\ got'[c][1] = got[c][1]
        BY <1>0, <4>1, <4>2, <4>3
      <4>5. \A d \in Clients \ {c} : got'[d] = got[d]
        BY <1>0, <4>2
      <4>6. where[c] \notin {"none", "child"} /\ where'[c] \notin {"none", "child"}
        BY <1>0, <3>1, <4>1 DEF OutInv
      <4>. HIDE DEF c, r
      <4>7. OutInv'
        BY <1>0, <2>1, <3>1, <4>1, <4>4, <4>5, <4>6 DEF OutInv
      <4>8. AnswerFits'
        BY <1>0, <2>1, <4>1, <4>4, <4>5 DEF AnswerFits
      <4>. QED  BY <4>7, <4>8
    <3>. QED  BY <3>2, <3>3
  <2>4. CASE ProcessRq(p)
    <3>1. PICK c \in Clients :
            /\ where[p] = "process" /\ where[c] = "none"
            /\ where' = [where EXCEPT ![p] = "close", ![c] = "child"]
            /\ out' = [out EXCEPT ![c] = out[p]] /\ got' = got
      BY <1>0, <2>4 DEF ProcessRq, CallInv, Busy
    <3>. QED  BY <1>0, <2>1, <3>1 DEF OutInv, AnswerFits
  <2>5. CASE Child(p)
    <3>1. where[p] = "child"
      BY <2>5 DEF Child, NotTwoWords, Refuse, RunProgram, LsFails, CgiFails, DoCat, Asks
    <3>2. /\ p \in Clients /\ fd[p] = p /\ got[p] = <<>>
          /\ sent[p] # "nothing" => request[p] = p
          /\ \A q \in Procs : out[q] # p
          /\ Written(fd[p], request[p]) = [got EXCEPT ![p] = <<request[p]>>]
      BY <3>1, ChildFirst
    <3>3. /\ \A q \in Procs \ {p} : where'[q] = where[q] /\ out'[q] = out[q]
          /\ where'[p] \notin {"none", "child"}
          /\ got' = got \/ got' = [got EXCEPT ![p] = <<request[p]>>]
          /\ out'[p] # None /\ out'[p] # out[p] =>
               /\ out'[p] = p /\ got'[p] = <<request[p]>>
               /\ \/ where'[p] = "program"
                  \/ ExecFails /\ (sent[p] # "nothing" => kind[p] = "cgi")
          /\ out'[p] = out[p] => out[p] = None \/ where[p] # "program"
      BY <1>0, <2>5, <3>1, <3>2 DEF Child, NotTwoWords, Refuse, RunProgram, LsFails, CgiFails,
         DoCat, Redirect, Exits, Goto, Asks
    <3>4. /\ \A d \in Clients \ {p} : got'[d] = got[d]
          /\ got'[p] # <<>> => got'[p] = <<request[p]>>
      BY <1>0, <3>2, <3>3
    <3>5. OutInv'
      <4>1. ASSUME NEW c \in Clients, where'[c] \in {"none", "child"}
            PROVE  got'[c] = <<>>
        BY <3>3, <3>4, <4>1 DEF OutInv
      <4>2. ASSUME NEW q \in Procs \ {p}, out'[q] # None
            PROVE  /\ got'[out'[q]] # <<>>
                   /\ \/ where'[q] = "program"
                      \/ ExecFails /\ (sent[out'[q]] # "nothing" => kind[out'[q]] = "cgi")
        <5>1. out'[q] = out[q] /\ where'[q] = where[q]
          BY <3>3
        <5>2. out[q] \in Clients \ {p}
          BY <1>0, <3>2, <4>2, <5>1
        <5>. QED  BY <3>4, <4>2, <5>1, <5>2 DEF OutInv
      <4>3. ASSUME out'[p] # None
            PROVE  /\ got'[out'[p]] # <<>>
                   /\ \/ where'[p] = "program"
                      \/ ExecFails /\ (sent[out'[p]] # "nothing" => kind[out'[p]] = "cgi")
        <5>1. CASE out'[p] # out[p]
          <6>1. <<request[p]>> # <<>>
            OBVIOUS
          <6>. QED  BY <3>3, <4>3, <5>1, <6>1
        <5>2. CASE out'[p] = out[p]
          <6>1. out[p] \in Clients \ {p}
            BY <1>0, <3>2, <4>3, <5>2
          <6>. QED  BY <3>1, <3>4, <4>3, <5>2, <6>1 DEF OutInv
        <5>. QED  BY <5>1, <5>2
      <4>. QED  BY <2>1, <4>1, <4>2, <4>3 DEF OutInv
    <3>6. AnswerFits'
      <4>1. <<request[p]>>[1] = request[p] /\ Len(<<request[p]>>) = 1
        OBVIOUS
      <4>2. ASSUME NEW c \in Clients, sent[c] # "nothing", got'[c] # <<>>
            PROVE  /\ got'[c][1] = c
                   /\ Len(got'[c]) = 1 \/ (ExecFails /\ kind[c] = "cgi")
        <5>1. CASE c = p
          BY <3>2, <3>4, <4>1, <4>2, <5>1
        <5>2. CASE c # p
          BY <3>4, <4>2, <5>2 DEF AnswerFits
        <5>. QED  BY <5>1, <5>2
      <4>. QED  BY <2>1, <4>2 DEF AnswerFits
    <3>. QED  BY <3>5, <3>6
  <2>6. CASE ProgramEnds(p) \/ SigPipe(p)
    <3>1. /\ where' = [where EXCEPT ![p] = "exit"] /\ out' = [out EXCEPT ![p] = None]
          /\ got' = got
      BY <2>6 DEF ProgramEnds, SigPipe, Replies, Asks, Exits, Goto
    <3>. QED  BY <1>0, <2>1, <3>1 DEF OutInv, AnswerFits
  <2>. QED  BY <1>2, <2>2, <2>3, <2>4, <2>5, <2>6 DEF ProcNext
<1>3. CASE UNCHANGED vars
  BY <1>3 DEF vars, OutInv, AnswerFits
<1>. QED  BY <1>1, <1>2, <1>3 DEF Next
-----------------------------------------------------------------------------
(* What becomes of a call *)

\* At the start nobody has called.
LEMMA PlaceStart == Init => PlaceInv
BY DEF Init, PlaceInv, Called

\* What is written is not taken back, and a client that has hung up stays away.
LEMMA SettledStays ==
  ASSUME TypeOK, CallInv, [Next]_vars, NEW c \in Clients, Settled(c)
  PROVE  Settled(c)'
<1>. USE Apart DEF procvars, clientvars
<1>0. got \in [Clients -> Seq(Conns)] /\ request \in [Procs -> Conns]
      /\ fd \in [Procs -> Conns] /\ out \in [Procs -> Conns]
      /\ excused \subseteq Clients
      /\ sent \in [Clients -> {"away", "nothing", "line", "all"}]
  BY DEF TypeOK
<1>1. /\ kind' = kind /\ excused \subseteq excused'
      /\ sent[c] = "nothing" /\ c \in hungUp => sent'[c] = "nothing" /\ c \in hungUp'
  BY <1>0 DEF Next, ClientNext, Connect, Send, HangUp, ProcNext, Accept, ReadLine, ReadTilCrnl,
     ProcessRq, ForkFails, CloseCall, Child, ProgramEnds, SigPipe, vars
<1>2. \A d \in Conns, r \in Conns : got[c] # <<>> => Written(d, r)[c] # <<>>
  <2>1. \A r \in Conns : Append(got[c], r) # <<>>
    <3>1. got[c] \in Seq(Conns)
      BY <1>0
    <3>. QED  BY <3>1
  <2>. QED  BY <1>0, <2>1 DEF Written, Conns
<1>3. \/ got' = got
      \/ \E d \in Conns, r \in Conns : got' = Written(d, r)
  <2>1. ASSUME NEW p \in Procs, ReadLine(p)
        PROVE  \E d \in Conns, r \in Conns : got' = Written(d, r)
    <3>1. request'[p] \in Conns
      BY <1>0, <2>1 DEF ReadLine, LineRead
    <3>. QED  BY <1>0, <2>1, <3>1 DEF ReadLine
  <2>2. ASSUME NEW p \in Procs, Child(p)
        PROVE  got' = got \/ got' = Written(fd[p], request[p])
    BY <2>2 DEF Child, NotTwoWords, Refuse, RunProgram, LsFails, CgiFails, DoCat, Redirect
  <2>3. (\A p \in Procs : ~ReadLine(p) /\ ~Child(p)) => got' = got
    BY DEF Next, ClientNext, Connect, Send, HangUp, ProcNext, Accept, ReadTilCrnl,
       ProcessRq, ForkFails, CloseCall, ProgramEnds, SigPipe, vars
  <2>. QED  BY <1>0, <2>1, <2>2, <2>3
<1>4. got[c] # <<>> => got'[c] # <<>>
  BY <1>2, <1>3
<1>. QED  BY <1>1, <1>4 DEF Settled

\* A child that is through with its request has answered it, unless there was
\* nothing to answer with.
LEMMA ChildSettles ==
  ASSUME TypeOK, CallInv, ReadInv, OutInv, NEW p \in Procs, Child(p)
  PROVE  p \in Clients /\ Settled(p)'
<1>1. where[p] = "child"
  BY DEF Child, NotTwoWords, Refuse, RunProgram, LsFails, CgiFails, DoCat, Asks
<1>2. /\ p \in Clients /\ fd[p] = p
      /\ sent[p] # "nothing" => request[p] = p
      /\ Written(fd[p], request[p]) = [got EXCEPT ![p] = <<request[p]>>]
  BY <1>1, ChildFirst
<1>3. sent[p] = "nothing" => p \in hungUp
  BY <1>1, <1>2 DEF ReadInv, Heard
<1>4. UNCHANGED <<clientvars>> /\ <<request[p]>> # <<>>
  BY DEF Child
<1>5. request[p] = p => \A k : Asks(p, k) => k = kind[p]
  BY <1>2, Apart DEF Asks
<1>6. \/ got' = [got EXCEPT ![p] = <<request[p]>>]
      \/ Asks(p, "malformed") \/ Asks(p, "unreadable")
  BY <1>2 DEF Child, NotTwoWords, Refuse, RunProgram, LsFails, CgiFails, DoCat, Redirect
<1>7. got' = [got EXCEPT ![p] = <<request[p]>>] => got'[p] # <<>>
  BY <1>2, <1>4 DEF TypeOK
<1>. QED  BY <1>2, <1>3, <1>4, <1>5, <1>6, <1>7 DEF Settled, clientvars

\* No step forgets a call.
LEMMA PlaceStep ==
  TypeOK /\ CallInv /\ ReadInv /\ OutInv /\ PlaceInv /\ [Next]_vars => PlaceInv'
<1>. SUFFICES ASSUME TypeOK, CallInv, ReadInv, OutInv, PlaceInv, [Next]_vars,
                     NEW c \in Clients, Called(c)'
              PROVE  Pending(c)' \/ Settled(c)'
  BY DEF PlaceInv
<1>. USE Apart DEF procvars, clientvars
<1>0. /\ queue \in Seq(Clients) /\ where \in [Procs -> Places] /\ fd \in [Procs -> Conns]
      /\ sent \in [Clients -> {"away", "nothing", "line", "all"}]
  BY QueueType DEF TypeOK
<1>1. CASE Settled(c)
  BY <1>1, SettledStays
<1>2. CASE Pending(c)
  <2>1. ASSUME NEW d \in Clients, ClientNext(d)  PROVE Pending(c)'
    <3>1. UNCHANGED <<where, fd>>
          /\ (queue' = queue \/ queue' = Append(queue, d))
      BY <2>1 DEF ClientNext, Connect, Send, HangUp
    <3>2. Contains(queue, c) => Contains(queue', c)
      BY <1>0, <3>1 DEF Contains
    <3>. QED  BY <1>2, <3>1, <3>2 DEF Pending, Busy
  <2>2. ASSUME NEW p \in Procs, Accept(p)  PROVE Pending(c)'
    <3>1. /\ where[p] = "accept" /\ queue # <<>> /\ queue' = Tail(queue)
          /\ fd' = [fd EXCEPT ![p] = Head(queue)]
          /\ where' = [where EXCEPT ![p] = "line"]
      BY <2>2 DEF Accept
    <3>2. Contains(queue, c) => Contains(queue', c) \/ Head(queue) = c
      <4>. SUFFICES ASSUME Contains(queue, c), Head(queue) # c
                    PROVE  \E j \in 1 .. Len(queue') : queue'[j] = c
        BY DEF Contains
      <4>1. PICK i \in 1 .. Len(queue) : queue[i] = c
        BY DEF Contains
      <4>2. i # 1
        BY <1>0, <3>1, <4>1
      <4>3. i - 1 \in 1 .. Len(queue') /\ queue'[i - 1] = c
        BY <1>0, <3>1, <4>1, <4>2
      <4>. QED  BY <4>3
    <3>3. Busy(p)' /\ fd'[p] = Head(queue)
      BY <1>0, <3>1 DEF Busy
    <3>4. \A q \in Procs : Busy(q) \/ where[q] = "child" =>
            where'[q] = where[q] /\ fd'[q] = fd[q]
      BY <1>0, <3>1 DEF Busy
    <3>. QED  BY <1>2, <3>2, <3>3, <3>4 DEF Pending, Busy
  <2>3. ASSUME NEW p \in Procs, ProcessRq(p)  PROVE Pending(c)'
    <3>1. /\ where[p] = "process" /\ fd[p] \in Clients /\ where[fd[p]] = "none"
          /\ where' = [where EXCEPT ![p] = "close", ![fd[p]] = "child"]
          /\ fd' = [fd EXCEPT ![fd[p]] = fd[p]] /\ queue' = queue
      BY <2>3 DEF ProcessRq, CallInv, Busy
    <3>2. where'[fd[p]] = "child"
      BY <1>0, <3>1
    <3>3. \A q \in Procs \ {p} : Busy(q) \/ where[q] = "child" =>
            where'[q] = where[q] /\ fd'[q] = fd[q]
      BY <1>0, <3>1 DEF Busy
    <3>. QED  BY <1>2, <3>1, <3>2, <3>3 DEF Pending, Busy
  <2>4. ASSUME NEW p \in Procs, ForkFails(p) \/ SigPipe(p)
        PROVE  Pending(c)' \/ Settled(c)'
    <3>1. /\ excused' = excused \cup {fd[p]} /\ queue' = queue
          /\ \A q \in Procs \ {p} : where'[q] = where[q] /\ fd'[q] = fd[q]
      BY <2>4 DEF ForkFails, SigPipe, Replies, Asks, Exits, Goto, TypeOK
    <3>2. where[c] = "child" => fd[c] = c
      BY DEF CallInv
    <3>. QED  BY <1>2, <3>1, <3>2 DEF Pending, Busy, Settled
  <2>5. ASSUME NEW p \in Procs, Child(p)  PROVE Pending(c)' \/ Settled(c)'
    <3>1. where[p] = "child" /\ queue' = queue
          /\ \A q \in Procs \ {p} : where'[q] = where[q] /\ fd'[q] = fd[q]
      BY <2>5 DEF Child, NotTwoWords, Refuse, RunProgram, LsFails, CgiFails, DoCat, Asks,
         Redirect, Exits, Goto, TypeOK
    <3>. QED  BY <1>2, <2>5, <3>1, ChildSettles DEF Pending, Busy
  <2>6. ASSUME NEW p \in Procs,
               ReadLine(p) \/ ReadTilCrnl(p) \/ CloseCall(p) \/ ProgramEnds(p)
        PROVE  Pending(c)'
    <3>1. /\ queue' = queue
          /\ \A q \in Procs : Busy(q) => Busy(q)' /\ fd'[q] = fd[q]
          /\ where[c] = "child" => where'[c] = "child"
      BY <1>0, <2>6 DEF ReadLine, ReadTilCrnl, CloseCall, ProgramEnds, Exits, Goto, Busy
    <3>. QED  BY <1>2, <3>1 DEF Pending
  <2>7. CASE UNCHANGED vars
    BY <1>2, <2>7 DEF vars, Pending, Busy
  <2>. QED
    BY <2>1, <2>2, <2>3, <2>4, <2>5, <2>6, <2>7 DEF Next, ProcNext
<1>3. CASE ~Called(c)
  <2>1. ASSUME NEW d \in Clients, ClientNext(d)  PROVE Pending(c)'
    <3>1. d = c /\ queue' = Append(queue, c)
      BY <1>0, <1>3, <2>1 DEF ClientNext, Connect, Send, HangUp, Called
    <3>2. Len(queue) + 1 \in 1 .. Len(queue') /\ queue'[Len(queue) + 1] = c
      BY <1>0, <3>1
    <3>. QED  BY <3>2 DEF Pending, Contains
  <2>2. ASSUME NEW p \in Procs, ProcNext(p)  PROVE sent' = sent
    BY <2>2 DEF ProcNext, Accept, ReadLine, ReadTilCrnl, ProcessRq, ForkFails, CloseCall,
       Child, ProgramEnds, SigPipe
  <2>. QED  BY <1>3, <2>1, <2>2 DEF Next, vars, Called
<1>. QED  BY <1>1, <1>2, <1>3 DEF PlaceInv

-----------------------------------------------------------------------------
(* Theorems *)

\* The invariant holds all the time.
LEMMA Invariance == Spec => []WebInv
<1>1. Init => WebInv
  BY TypeStart, CallStart, ReadStart, OutStart, PlaceStart DEF WebInv
<1>2. WebInv /\ [Next]_vars => WebInv'
  BY TypeStep, CallStep, ReadStep, OutStep, PlaceStep DEF WebInv
<1>. QED  BY <1>1, <1>2, PTL DEF Spec

\* Type correctness of all the servers there are after any number of forks: the
\* queue is never longer than the backlog.
THEOREM TypeTheorem == Spec => []TypeOK
<1>1. WebInv => TypeOK
  BY DEF WebInv
<1>. QED  BY <1>1, Invariance, PTL

\* process_rq: a client that sent its line gets the reply to its own request
\* first, though any of the servers may take its call and all of them keep the
\* line before in their buffer; and nothing else, unless its own cgi program
\* could not be run.
THEOREM AnswerTheorem == Spec => []AnswerFits
<1>1. WebInv => AnswerFits
  BY DEF WebInv
<1>. QED  BY <1>1, Invariance, PTL

\* main and process_rq: no connection is closed before it was answered, but for
\* the reasons Answered names.
THEOREM AnsweredTheorem == Spec => []Answered
<1>1. WebInv => Answered
  <2>. SUFFICES ASSUME WebInv, NEW c \in Clients, Over(c)
                PROVE  \/ got[c] # <<>> \/ c \in excused \/ sent[c] = "nothing"
                       \/ kind[c] \in {"malformed", "unreadable"}
    BY DEF Answered
  <2>1. ~Pending(c)
    <3>1. where[c] = "child" => fd[c] = c /\ c \in Procs
      BY Apart DEF WebInv, CallInv
    <3>. QED  BY <3>1 DEF Over, Served, Pending
  <2>. QED  BY <2>1 DEF WebInv, PlaceInv, Settled, Over
<1>. QED  BY <1>1, Invariance, PTL
=============================================================================
