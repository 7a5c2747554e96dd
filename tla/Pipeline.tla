------------------------------ MODULE Pipeline -------------------------------
(***************************************************************************)
(* pipe.c, pipe3.c and pipeAnyArgc.c: programs that fork, connect standard *)
(* input and output with pipes, and exec one command in each process.      *)
(*                                                                         *)
(* A reader sees the end of a pipe when no process has its write end open, *)
(* a writer is killed when no process has its read end open: which ends    *)
(* each process still has open when it execs is what these programs are    *)
(* about.  Commands are numbered from the last of the line, 0, to the      *)
(* first, N - 1; command i reads pipe i and writes pipe i - 1.             *)
(***************************************************************************)
EXTENDS Integers, FiniteSets

CONSTANTS
  Programs,   \* those to run: "pipe", "pipe3" and "pipeAnyArgc"
  AnyArgc,    \* commands on the line of pipeAnyArgc
  Cap,        \* items a pipe holds
  Items,      \* items the first command writes
  EarlyStop,  \* programs whose last command may stop before the end of its input
  MaxFails    \* bound: how often fork fails

ASSUME PipelineAssumption ==
  /\ Programs \subseteq {"pipe", "pipe3", "pipeAnyArgc"}
  /\ AnyArgc \in Nat /\ AnyArgc >= 2
  /\ Cap \in Nat \ {0} /\ Items \in Nat /\ MaxFails \in Nat
  /\ EarlyStop \subseteq Programs

VARIABLES
  program, \* which of the programs this is
  state,   \* of the process of each command
  inp,     \* what its standard input is: a pipe or TTY
  out,     \* what its standard output is
  extra,   \* the pipe ends it has open besides these
  data,    \* items in each pipe
  held,    \* items a command has read and not written
  got,     \* items the last command has read
  sent,    \* items the first command has written
  fails,   \* forks that failed
  sorts,   \* commands that read everything before they write anything
  wanted   \* items after which the last command stops reading

\* How many commands the program runs.
N == CASE program = "pipe" -> 2
       [] program = "pipe3" -> 3
       [] program = "pipeAnyArgc" -> AnyArgc

AllCmds == 0 .. IF AnyArgc > 3 THEN AnyArgc - 1 ELSE 2
Cmds == 0 .. N - 1
Pipes == 0 .. N - 2
TTY == -1
R(p) == <<p, "r">>
W(p) == <<p, "w">>
Ends == {R(p) : p \in Pipes} \cup {W(p) : p \in Pipes}

cmdvars == <<program, sorts, wanted>>
setupvars == <<inp, out, extra, fails, cmdvars>>
runvars == <<data, held, got, sent>>
vars == <<state, setupvars, runvars>>

\* none  not forked yet     setup  before exec
\* run   the command runs   eof    it has seen the end of its input
\* exit  it is gone         lost   gone without having run its command
States == {"none", "setup", "run", "eof", "exit", "lost"}

TypeOK ==
  /\ program \in Programs
  /\ state \in [Cmds -> States]
  /\ inp \in [Cmds -> Pipes \cup {TTY}]
  /\ out \in [Cmds -> Pipes \cup {TTY}]
  /\ extra \in [Cmds -> SUBSET Ends]
  /\ data \in [Pipes -> 0 .. Cap]
  /\ held \in [Cmds -> 0 .. Items]
  /\ got \in 0 .. Items
  /\ sent \in 0 .. Items
  /\ fails \in 0 .. MaxFails
  /\ sorts \subseteq Cmds
  /\ wanted \in 0 .. Items + 1

\* The program has started as the process that will run the last command.
\* pipeAnyArgc makes all its pipes first; the others make one.
Init ==
  /\ program \in Programs
  /\ state = [c \in Cmds |-> IF c = 0 THEN "setup" ELSE "none"]
  /\ inp = [c \in Cmds |-> TTY]
  /\ out = [c \in Cmds |-> TTY]
  /\ extra = [c \in Cmds |->
                IF c = 0 THEN IF program = "pipeAnyArgc" THEN Ends
                              ELSE {R(0), W(0)}
                ELSE {}]
  /\ data = [p \in Pipes |-> 0]
  /\ held = [c \in Cmds |-> 0]
  /\ got = 0
  /\ sent = 0
  /\ fails = 0
  /\ sorts \in SUBSET (1 .. N - 2)
  /\ wanted \in IF program \in EarlyStop THEN 0 .. Items + 1 ELSE {Items + 1}

-----------------------------------------------------------------------------
(* Setting up *)

\* fork in the process of command c: the child, that of command c + 1, starts
\* with the same descriptors.  Then each side closes, dup2s and goes on with
\* the ends given; dup2 closes what was standard input or output before.
Split(c, parentExtra, childExtra) ==
  /\ state[c] = "setup"
  /\ state' = [state EXCEPT ![c] = "run", ![c + 1] = "setup"]
  /\ inp' = [inp EXCEPT ![c] = c, ![c + 1] = inp[c]]
  /\ out' = [out EXCEPT ![c + 1] = c]
  /\ extra' = [extra EXCEPT ![c] = parentExtra, ![c + 1] = childExtra]
  /\ UNCHANGED <<fails, cmdvars, runvars>>

\* Wrong on purpose: the reader keeps the write end of its own pipe.
AnySplitKeepsWriter(c) ==
  /\ program = "pipeAnyArgc" /\ c < N - 1
  /\ Split(c, extra[c] \ {R(c)}, extra[c] \ {R(c), W(c)})

\* One turn of the loop of pipeAnyArgc: each side closes the two ends of pipe
\* c and keeps what else it has open, which is every pipe still to be used.
AnySplit(c) ==
  /\ program = "pipeAnyArgc" /\ c < N - 1
  /\ Split(c, extra[c] \ {R(c), W(c)}, extra[c] \ {R(c), W(c)})

\* fork returns -1: the test is only for > 0, so the one process goes on as the
\* child would, and what it was to run is lost.
AnyForkFails(c) ==
  /\ program = "pipeAnyArgc" /\ c < N - 1
  /\ state[c] = "setup"
  /\ fails < MaxFails
  /\ fails' = fails + 1
  /\ state' = [state EXCEPT ![c] = "lost",
                            ![c + 1] = IF c + 1 = N - 1 THEN "lost" ELSE "setup"]
  /\ out' = [out EXCEPT ![c + 1] = c]
  /\ extra' = [extra EXCEPT ![c] = {}, ![c + 1] = extra[c] \ {R(c), W(c)}]
  /\ UNCHANGED <<inp, cmdvars, runvars>>

\* Wrong on purpose: the reader keeps the write end of its own pipe.
FirstSplitKeepsWriter ==
  /\ program \in {"pipe", "pipe3"}
  /\ Split(0, {W(0)}, IF program = "pipe" THEN {} ELSE {R(0)})

\* Wrong on purpose: the writer does not dup2.
FirstSplitNoDup ==
  /\ program \in {"pipe", "pipe3"}
  /\ state[0] = "setup"
  /\ state' = [state EXCEPT ![0] = "run", ![1] = "setup"]
  /\ inp' = [inp EXCEPT ![0] = 0]
  /\ extra' = [extra EXCEPT ![0] = {}, ![1] = IF N = 2 THEN {} ELSE {R(0)}]
  /\ UNCHANGED <<out, fails, cmdvars, runvars>>

\* pipe.c, and the first fork of pipe3.c.  In pipe3.c the child goes on with
\* both ends of the pipe open until it has forked again.
FirstSplit ==
  /\ program \in {"pipe", "pipe3"}
  /\ Split(0, {}, IF program = "pipe" THEN {} ELSE {R(0)})

\* Wrong on purpose: the middle process does not close its write end.
SecondSplitKeepsWriter ==
  /\ program = "pipe3"
  /\ Split(1, {W(1)}, {R(0), W(0)})

\* The second fork of pipe3.c, after a second pipe.  The first child closes the
\* read end of the first pipe; its own child has both ends of it for good.
SecondSplit ==
  /\ program = "pipe3"
  /\ Split(1, {}, {R(0), W(0)})

\* Wrong on purpose: once more than there are forks to fail.
ForkErrorAgain ==
  /\ program # "pipeAnyArgc"
  /\ fails' = fails + 1
  /\ \E c \in 0 .. N - 2 :
       /\ state[c] \in {"setup", "lost"}
       /\ state' = [state EXCEPT ![c] = "lost"]
       /\ extra' = [extra EXCEPT ![c] = {}]
  /\ UNCHANGED <<inp, out, cmdvars, runvars>>

\* pipe.c and pipe3.c give up.
ForkError ==
  /\ program # "pipeAnyArgc"
  /\ fails < MaxFails
  /\ fails' = fails + 1
  /\ \E c \in 0 .. N - 2 :
       /\ state[c] = "setup"
       /\ state' = [state EXCEPT ![c] = "lost"]
       /\ extra' = [extra EXCEPT ![c] = {}]
  /\ UNCHANGED <<inp, out, cmdvars, runvars>>

\* The last process to be forked runs the first command.
ExecFirst ==
  /\ state[N - 1] = "setup"
  /\ state' = [state EXCEPT ![N - 1] = "run"]
  /\ UNCHANGED <<setupvars, runvars>>

Setup ==
  \/ \E c \in Cmds : AnySplit(c) \/ AnyForkFails(c)
  \/ FirstSplit \/ SecondSplit \/ ForkError
  \/ ExecFirst

-----------------------------------------------------------------------------
(* The commands.  They are not part of the programs: the first writes Items *)
(* items, those between copy, the last reads wanted items or to the end.    *)

Alive(c) == state[c] \in {"setup", "run", "eof"}
OpenEnds(c) ==
  extra[c] \cup {R(p) : p \in {inp[c]} \ {TTY}} \cup {W(p) : p \in {out[c]} \ {TTY}}
HasWriter(p) == \E c \in Cmds : Alive(c) /\ W(p) \in OpenEnds(c)
HasReader(p) == \E c \in Cmds : Alive(c) /\ R(p) \in OpenEnds(c)

Reading(c) ==
  /\ state[c] = "run" /\ inp[c] # TTY
  /\ c = 0 \/ c \in sorts \/ held[c] = 0

Take(c) ==
  /\ Reading(c)
  /\ data[inp[c]] > 0
  /\ data' = [data EXCEPT ![inp[c]] = @ - 1]
  /\ IF c = 0
     THEN /\ got < wanted
          /\ got' = got + 1
          /\ UNCHANGED held
     ELSE /\ held' = [held EXCEPT ![c] = @ + 1]
          /\ UNCHANGED got
  /\ UNCHANGED <<state, setupvars, sent>>

SeeEnd(c) ==
  /\ Reading(c)
  /\ data[inp[c]] = 0 /\ ~HasWriter(inp[c])
  /\ state' = [state EXCEPT ![c] = "eof"]
  /\ UNCHANGED <<setupvars, runvars>>

\* The last command has read what it wanted.
Enough ==
  /\ state[0] = "run" /\ got = wanted
  /\ state' = [state EXCEPT ![0] = "exit"]
  /\ UNCHANGED <<setupvars, runvars>>

ToWrite(c) ==
  IF c = N - 1 THEN state[c] = "run" /\ sent < Items
  ELSE c # 0 /\ held[c] > 0 /\ (c \in sorts => state[c] = "eof")

Put(c) ==
  /\ ToWrite(c) /\ Alive(c)
  /\ HasReader(out[c]) /\ data[out[c]] < Cap
  /\ data' = [data EXCEPT ![out[c]] = @ + 1]
  /\ IF c = N - 1
     THEN sent' = sent + 1 /\ UNCHANGED held
     ELSE held' = [held EXCEPT ![c] = @ - 1] /\ UNCHANGED sent
  /\ UNCHANGED <<state, setupvars, got>>

\* SIGPIPE
BrokenPipe(c) ==
  /\ ToWrite(c) /\ Alive(c)
  /\ ~HasReader(out[c])
  /\ state' = [state EXCEPT ![c] = "exit"]
  /\ UNCHANGED <<setupvars, runvars>>

Finish(c) ==
  /\ IF c = N - 1 THEN state[c] = "run" /\ sent = Items
     ELSE state[c] = "eof" /\ held[c] = 0
  /\ state' = [state EXCEPT ![c] = "exit"]
  /\ UNCHANGED <<setupvars, runvars>>

CmdNext(c) ==
  Take(c) \/ SeeEnd(c) \/ Put(c) \/ BrokenPipe(c) \/ Finish(c)

Next == Setup \/ Enough \/ \E c \in Cmds : CmdNext(c)

Spec == Init /\ [][Next]_vars

\* Every process that can go on does.
FairSpec ==
  /\ Spec
  /\ WF_vars(Setup) /\ WF_vars(Enough)
  /\ \A c \in AllCmds : WF_vars(c \in Cmds /\ CmdNext(c))

-----------------------------------------------------------------------------
(* What must hold *)

\* "effect: command1 | command2": the commands run as the shell's pipeline
\* would, and all of them come to an end.
AllEnd == <>(\A c \in Cmds : ~Alive(c) /\ (state[c] = "none" => fails > 0))

\* What the first command writes arrives: a last command that reads to the end
\* of its input sees that end only after every item has come through all the
\* pipes, whoever is forked, closes and exits when.
AllArrive ==
  fails = 0 /\ state[0] \in {"eof", "exit"} /\ wanted > Items => got = Items
=============================================================================
