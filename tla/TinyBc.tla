------------------------------- MODULE TinyBc --------------------------------
(***************************************************************************)
(* tinybc.c: a calculator that sends each line its user types to dc over   *)
(* one pipe and prints one line that it reads from another.                *)
(*                                                                         *)
(* A request is what sscanf found in a line: two numbers, and the first of *)
(* the operators between them (the others are dropped, a minus sign right  *)
(* before the second number among them).  A line it cannot parse changes   *)
(* nothing and is left out.                                                *)
(*                                                                         *)
(* dc is external.  It keeps its stack from one request to the next; it    *)
(* reads "-3" as the operator - and the number 3; and it prints a long     *)
(* number on several lines.                                                *)
(***************************************************************************)
EXTENDS Integers, Sequences

CONSTANTS
  Requests,     \* bound: what the user types
  MaxRequests,  \* bound: how often
  OutCap,       \* lines that fit between dc and tinybc
  PerLine       \* the numbers below it take one line, those below twice as
                \* much two, and so on

ASSUME TinyBcAssumption ==
  /\ Requests \subseteq
       [n1 : Int, op : {"+", "-", "*", "/", "^"}, n2 : Int]
  /\ MaxRequests \in Nat
  /\ OutCap \in Nat \ {0}
  /\ PerLine \in Nat \ {0}

VARIABLES
  bc,        \* none, input, reply, wait (both pipes closed), exit
  dc,        \* none, start, read, write, exit
  todc,      \* requests dc has not read
  fromdc,    \* lines tinybc has not read
  stack,     \* of dc
  output,    \* lines dc has still to write
  asked,     \* requests sent
  request,   \* the last of them, or none
  reply,     \* the last line printed, or none
  longanswer \* has dc answered with more than one line?

pipes == <<todc, fromdc>>
dcdata == <<stack, output>>
talk == <<asked, request, reply, longanswer>>
bcvars == <<bc, dc, pipes, dcdata, talk>>

OutLines == [no : 1 .. MaxRequests, part : Nat, value : Int]
Numbered == [no : 1 .. MaxRequests, what : Requests]

BcTypeOK ==
  /\ bc \in {"none", "input", "reply", "wait", "exit"}
  /\ dc \in {"none", "start", "read", "write", "exit"}
  /\ todc \in Seq(Numbered)
  /\ fromdc \in Seq(OutLines) /\ Len(fromdc) <= OutCap
  /\ stack \in Seq(Int)
  /\ output \in Seq(OutLines)
  /\ asked \in 0 .. MaxRequests
  /\ request \in Requests \cup {<<>>}
  /\ reply \in OutLines \cup {<<>>}
  /\ longanswer \in BOOLEAN

BcInit ==
  /\ bc = "none"
  /\ dc = "none"
  /\ todc = <<>>
  /\ fromdc = <<>>
  /\ stack = <<>>
  /\ output = <<>>
  /\ asked = 0
  /\ request = <<>>
  /\ reply = <<>>
  /\ longanswer = FALSE

\* The processes have ended, or are killed.
BcForget ==
  /\ bc' = "none"
  /\ dc' = "none"
  /\ todc' = <<>>
  /\ fromdc' = <<>>
  /\ stack' = <<>>
  /\ output' = <<>>
  /\ asked' = 0
  /\ request' = <<>>
  /\ reply' = <<>>
  /\ longanswer' = FALSE

BcStart ==
  /\ bc = "none"
  /\ bc' = "input"
  /\ dc' = "start"
  /\ UNCHANGED <<pipes, dcdata, talk>>

\* pipe or fork fails.
BcOops ==
  /\ bc = "none"
  /\ bc' = "exit"
  /\ UNCHANGED <<dc, pipes, dcdata, talk>>

-----------------------------------------------------------------------------
(* dc *)

\* be_dc closes out[2], a number that lies behind the array.  In some builds
\* it is no open descriptor; in others it is 0, the pipe dc should read.
DcStart ==
  /\ dc = "start"
  /\ dc' = "read"
  /\ UNCHANGED <<bc, pipes, dcdata, talk>>

\* Its input closed, or no program "dc" to run.
DcStartFails ==
  /\ dc = "start"
  /\ dc' = "exit"
  /\ UNCHANGED <<bc, pipes, dcdata, talk>>

Last2(s, v) == SubSeq(s, 1, Len(s) - 2) \o v
Minus(s) == IF Len(s) < 2 THEN s
            ELSE Last2(s, <<s[Len(s) - 1] - s[Len(s)]>>)
Absolute(n) == IF n < 0 THEN -n ELSE n
Push(s, n) == Append(IF n < 0 THEN Minus(s) ELSE s, Absolute(n))

Power(a, b) ==
  LET p[n \in Nat] == IF n = 0 THEN 1 ELSE a * p[n - 1] IN p[b]

\* Division drops the fraction.
Calculate(a, op, b) ==
  CASE op = "+" -> a + b
    [] op = "-" -> a - b
    [] op = "*" -> a * b
    [] op = "/" -> IF a < 0 THEN -((-a) \div b) ELSE a \div b
    [] op = "^" -> Power(a, b)

\* num1, num2, the operator; dividing by zero leaves both numbers.
Operate(s, r) ==
  LET t == Push(Push(s, r.n1), r.n2)
      a == t[Len(t) - 1]
      b == t[Len(t)]
  IN IF r.op = "/" /\ b = 0 THEN t
     ELSE Last2(t, <<Calculate(a, r.op, b)>>)

\* Reads a request and carries it out; "p" prints the top and leaves it.
DcRead ==
  /\ dc = "read" /\ todc # <<>>
  /\ LET r == Head(todc)
         s == Operate(stack, r.what)
         top == s[Len(s)]
         n == 1 + Absolute(top) \div PerLine
     IN /\ stack' = s
        /\ output' = [i \in 1 .. n |-> [no |-> r.no, part |-> i, value |-> top]]
        /\ longanswer' = (longanswer \/ n > 1)
  /\ todc' = Tail(todc)
  /\ dc' = "write"
  /\ UNCHANGED <<bc, fromdc, asked, request, reply>>

\* A write waits while the pipe is full.  It does not fail when tinybc is no
\* longer there to read: dc has a read end too, out[0], which be_dc left open.
DcWrite ==
  /\ dc = "write" /\ Len(fromdc) < OutCap
  /\ fromdc' = Append(fromdc, Head(output))
  /\ output' = Tail(output)
  /\ dc' = IF Len(output) = 1 THEN "read" ELSE "write"
  /\ UNCHANGED <<bc, todc, stack, asked, request, reply, longanswer>>

DcSeesEOF ==
  /\ dc = "read" /\ todc = <<>> /\ bc = "wait"
  /\ dc' = "exit"
  /\ UNCHANGED <<bc, pipes, dcdata, talk>>

\* The pipe is full, and tinybc waits for dc to end.
DcStuck == dc = "write" /\ Len(fromdc) = OutCap /\ bc = "wait"

-----------------------------------------------------------------------------
(* be_bc *)

\* Wrong on purpose: "p" twice.
SendTwice(r) == todc' = todc \o <<r, r>>
Send(r) == todc' = Append(todc, r)

BcRequest ==
  /\ bc = "input" /\ dc # "exit"
  /\ asked < MaxRequests
  /\ \E r \in Requests :
       /\ request' = r
       /\ Send([no |-> asked + 1, what |-> r])
  /\ asked' = asked + 1
  /\ bc' = "reply"
  /\ UNCHANGED <<dc, fromdc, dcdata, reply, longanswer>>

\* Nobody has the pipe open for reading: fflush gets a SIGPIPE.
BcBrokenPipe ==
  /\ bc = "input" /\ dc = "exit"
  /\ bc' = "exit"
  /\ UNCHANGED <<dc, pipes, dcdata, talk>>

\* One line for one request.
BcReply ==
  /\ bc = "reply" /\ fromdc # <<>>
  /\ reply' = Head(fromdc)
  /\ fromdc' = Tail(fromdc)
  /\ bc' = "input"
  /\ UNCHANGED <<dc, todc, dcdata, asked, request, longanswer>>

\* fgets returns NULL: no writer is left.
BcNoReply ==
  /\ bc = "reply" /\ fromdc = <<>> /\ dc = "exit"
  /\ bc' = "wait"
  /\ UNCHANGED <<dc, pipes, dcdata, talk>>

\* The user ends his input.
BcEndOfInput ==
  /\ bc = "input"
  /\ bc' = "wait"
  /\ UNCHANGED <<dc, pipes, dcdata, talk>>

\* wait(NULL) returns.
BcExit ==
  /\ bc = "wait" /\ dc = "exit"
  /\ bc' = "exit"
  /\ UNCHANGED <<dc, pipes, dcdata, talk>>

BcStep ==
  BcRequest \/ BcBrokenPipe \/ BcReply \/ BcNoReply \/ BcEndOfInput \/ BcExit
DcStep == DcStart \/ DcStartFails \/ DcRead \/ DcWrite \/ DcSeesEOF
BcNext == BcStep \/ DcStep

Plain(r) == r.n1 >= 0 /\ r.n2 >= 0 /\ ~(r.op = "/" /\ r.n2 = 0)

\* "does not handle multiline answers", says the head of tinybc.c: as long as
\* dc gave none, the line printed is the answer to the request typed last, and
\* it is right if the numbers have no sign and the divisor is not zero.
AnswersInStep ==
  bc = "input" /\ reply # <<>> /\ ~longanswer =>
    /\ reply.no = asked
    /\ Plain(request) =>
         reply.value = Calculate(request.n1, request.op, request.n2)
=============================================================================
