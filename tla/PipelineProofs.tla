---------------------------- MODULE PipelineProofs ----------------------------
(***************************************************************************)
(* Proofs about the pipelines (Pipeline), for command lines, pipes and     *)
(* inputs of every length: that what a process has as standard input and   *)
(* output is the pipe meant for it, and that a last command that reads to  *)
(* the end has read everything the first one wrote.                        *)
(***************************************************************************)
EXTENDS Pipeline, TLAPS

\* The invariant about the descriptors.  Processes come into being in the
\* order of the line, from its end, and a process that goes on to its command
\* has the next one forked and holds nothing before.  Whoever may read reads the pipe of its number and
\* whoever may write writes the pipe before.
Ordered ==
  /\ \A c, d \in Cmds : c < d /\ state[d] # "none" => state[c] \notin {"none", "setup"}
  /\ \A c \in Cmds : state[c] \in {"run", "eof", "exit"} /\ c + 1 \in Cmds
                       => state[c + 1] # "none"
  /\ fails = 0 => \A c \in Cmds : state[c] # "lost"

Plumbed ==
  /\ \A c \in Cmds : state[c] \in {"none", "setup"} \/ c = N - 1 => inp[c] = TTY
  /\ \A c \in Cmds : state[c] \in {"run", "eof", "exit"} /\ c # N - 1 => inp[c] = c
  /\ \A c \in Cmds : c # 0 /\ state[c] # "none" => out[c] = c - 1
  /\ \A c \in Cmds : state[c] \in {"none", "setup"} => held[c] = 0

PlumbInv == Ordered /\ Plumbed

\* The items: if through[p] have been written into each pipe p, these are the
\* items the first command has sent, and each command has taken what is gone
\* from its pipe and has passed on what it does not hold.
Flow(through) ==
  /\ through[N - 2] = sent
  /\ got = through[0] - data[0]
  /\ \A c \in Cmds \ {0, N - 1} : held[c] = through[c] - data[c] - through[c - 1]

\* Who has seen the end of its input has read all there is, and who is gone has
\* passed on all there is.
Complete(through) ==
  /\ \A c \in Cmds \ {N - 1} : state[c] = "eof" => through[c] = Items /\ data[c] = 0
  /\ \A c \in Cmds \ {0} : state[c] = "exit" => through[c - 1] = Items
  /\ state[0] = "exit" => got = Items

FlowInv ==
  \E through \in [Pipes -> 0 .. Items] :
    /\ Flow(through)
    /\ fails = 0 /\ wanted > Items => Complete(through)

-----------------------------------------------------------------------------
(* Processes and descriptors *)

\* A program runs two commands or more.
LEMMA Length ==
  ASSUME program \in Programs
  PROVE  /\ N \in Nat /\ N >= 2
         /\ Cmds = 0 .. N - 1 /\ Pipes = 0 .. N - 2
BY PipelineAssumption DEF PipelineAssumption, N, Cmds, Pipes

\* Which program it is, and so how many commands it runs, stays.
LEMMA SameLength ==
  ASSUME program' = program
  PROVE  N' = N /\ Cmds' = Cmds /\ Pipes' = Pipes /\ Ends' = Ends
BY DEF N, Cmds, Pipes, Ends

\* What stays in every step.
LEMMA Constant ==
  ASSUME [Next]_vars
  PROVE  /\ program' = program /\ wanted' = wanted /\ sorts' = sorts
         /\ N' = N /\ Cmds' = Cmds /\ Pipes' = Pipes /\ Ends' = Ends
<1>1. UNCHANGED cmdvars
  BY DEF Next, Setup, AnySplit, AnyForkFails, FirstSplit, SecondSplit, ForkError,
         ExecFirst, Split, Enough, CmdNext, Take, SeeEnd, Put, BrokenPipe, Finish,
         vars, setupvars
<1>. QED  BY <1>1, SameLength DEF cmdvars

\* A fork that succeeds is that of a command with one before it on the line, and
\* both sides keep pipe ends only.
LEMMA Forks ==
  ASSUME TypeOK, PlumbInv,
         FirstSplit \/ SecondSplit \/ \E d \in Cmds : AnySplit(d)
  PROVE  \E c \in Cmds, p, q \in SUBSET Ends :
           /\ c # N - 1 /\ c + 1 \in Cmds /\ c \in Pipes
           /\ Split(c, p, q)
<1>1. N \in Nat /\ N >= 2 /\ Cmds = 0 .. N - 1 /\ Pipes = 0 .. N - 2
  BY Length DEF TypeOK
<1>2. CASE FirstSplit
  <2>1. {} \in SUBSET Ends /\ {R(0)} \in SUBSET Ends
    BY <1>1 DEF Ends
  <2>. QED  BY <1>1, <1>2, <2>1 DEF FirstSplit
<1>3. CASE SecondSplit
  <2>1. N = 3
    BY <1>3 DEF SecondSplit, N
  <2>2. {} \in SUBSET Ends /\ {R(0), W(0)} \in SUBSET Ends
    BY <1>1 DEF Ends
  <2>. QED  BY <1>1, <1>3, <2>1, <2>2 DEF SecondSplit
<1>4. ASSUME NEW d \in Cmds, AnySplit(d)  PROVE
        \E c \in Cmds, p, q \in SUBSET Ends :
           c # N - 1 /\ c + 1 \in Cmds /\ c \in Pipes /\ Split(c, p, q)
  <2>1. extra[d] \ {R(d), W(d)} \in SUBSET Ends
    BY DEF TypeOK
  <2>. QED  BY <1>1, <1>4, <2>1 DEF AnySplit
<1>. QED  BY <1>2, <1>3, <1>4

-----------------------------------------------------------------------------
(* The invariant about the descriptors *)

\* At the start there is the process of the last command.
LEMMA InitPlumb ==
  ASSUME Init
  PROVE  PlumbInv
<1>1. N \in Nat /\ N >= 2 /\ Cmds = 0 .. N - 1
  BY Length DEF Init
<1>2. \A c \in Cmds : state[c] = IF c = 0 THEN "setup" ELSE "none"
  BY DEF Init
<1>. QED  BY <1>1, <1>2 DEF Init, PlumbInv, Ordered, Plumbed

\* Every step keeps it.
LEMMA PlumbStep ==
  ASSUME TypeOK, PlumbInv, [Next]_vars
  PROVE  PlumbInv'
<1>0. /\ N \in Nat /\ N >= 2 /\ Cmds = 0 .. N - 1 /\ Pipes = 0 .. N - 2
      /\ N' = N /\ Cmds' = Cmds
      /\ DOMAIN state = Cmds /\ DOMAIN inp = Cmds /\ DOMAIN out = Cmds
      /\ fails \in Nat /\ TTY \notin Pipes
  BY Length, Constant, PipelineAssumption DEF TypeOK, TTY, PipelineAssumption
<1>1. ASSUME FirstSplit \/ SecondSplit \/ \E d \in Cmds : AnySplit(d)
      PROVE PlumbInv'
  <2>1. PICK c \in Cmds, p, q \in SUBSET Ends :
          c # N - 1 /\ c + 1 \in Cmds /\ Split(c, p, q)
    BY <1>1, Forks
  <2>2. /\ state[c] = "setup" /\ fails' = fails
        /\ state' = [state EXCEPT ![c] = "run", ![c + 1] = "setup"]
        /\ inp' = [inp EXCEPT ![c] = c, ![c + 1] = inp[c]]
        /\ out' = [out EXCEPT ![c + 1] = c]
        /\ held' = held
    BY <2>1 DEF Split, runvars
  <2>3. /\ state'[c] = "run" /\ state'[c + 1] = "setup"
        /\ inp'[c] = c /\ inp'[c + 1] = TTY /\ out'[c + 1] = c
        /\ \A d \in Cmds : d # c /\ d # c + 1 => state'[d] = state[d] /\ inp'[d] = inp[d]
        /\ \A d \in Cmds : d # c + 1 => out'[d] = out[d]
    BY <1>0, <2>1, <2>2 DEF PlumbInv, Plumbed
  <2>4. \A d \in Cmds : d > c => state[d] = "none"
    BY <1>0, <2>2 DEF PlumbInv, Ordered
  <2>5. Ordered'
    BY <1>0, <2>1, <2>2, <2>3, <2>4 DEF PlumbInv, Ordered
  <2>6. /\ \A d \in Cmds : state'[d] \in {"none", "setup"} \/ d = N - 1 => inp'[d] = TTY
        /\ \A d \in Cmds : state'[d] \in {"run", "eof", "exit"} /\ d # N - 1
                             => inp'[d] = d
    BY <1>0, <2>1, <2>3, <2>4 DEF PlumbInv, Plumbed
  <2>7. \A d \in Cmds : d # 0 /\ state'[d] # "none" => out'[d] = d - 1
    BY <1>0, <2>1, <2>2, <2>3 DEF PlumbInv, Plumbed
  <2>8. \A d \in Cmds : state'[d] \in {"none", "setup"} => held'[d] = 0
    BY <1>0, <2>1, <2>2, <2>3, <2>4 DEF PlumbInv, Plumbed
  <2>9. Plumbed'
    BY <1>0, <2>6, <2>7, <2>8 DEF Plumbed
  <2>. QED  BY <2>5, <2>9 DEF PlumbInv
<1>2. ASSUME NEW c \in Cmds, AnyForkFails(c)  PROVE PlumbInv'
  <2>1. /\ c + 1 \in Cmds /\ state[c] = "setup" /\ fails' = fails + 1
        /\ state'[c] = "lost"
        /\ state'[c + 1] \in {"setup", "lost"}
        /\ c + 1 = N - 1 => state'[c + 1] = "lost"
        /\ \A d \in Cmds : d # c /\ d # c + 1 => state'[d] = state[d]
        /\ out'[c + 1] = c /\ inp' = inp
        /\ \A d \in Cmds : d # c + 1 => out'[d] = out[d]
        /\ held' = held
    BY <1>0, <1>2 DEF AnyForkFails, runvars
  <2>2. \A d \in Cmds : d > c => state[d] = "none"
    BY <1>0, <2>1 DEF PlumbInv, Ordered
  <2>3. Ordered'
    BY <1>0, <2>1, <2>2 DEF PlumbInv, Ordered
  <2>4. Plumbed'
    BY <1>0, <2>1, <2>2 DEF PlumbInv, Plumbed
  <2>. QED  BY <2>3, <2>4 DEF PlumbInv
<1>3. ASSUME ForkError  PROVE PlumbInv'
  <2>1. PICK c \in 0 .. N - 2 :
          state[c] = "setup" /\ state' = [state EXCEPT ![c] = "lost"]
    BY <1>3 DEF ForkError
  <2>2. fails' = fails + 1 /\ inp' = inp /\ out' = out /\ held' = held
    BY <1>3 DEF ForkError, runvars
  <2>. QED  BY <1>0, <2>1, <2>2 DEF PlumbInv, Ordered, Plumbed
<1>4. CASE ExecFirst
  <2>1. /\ state[N - 1] = "setup" /\ state' = [state EXCEPT ![N - 1] = "run"]
        /\ UNCHANGED <<inp, out, fails, held>>
    BY <1>4 DEF ExecFirst, setupvars, runvars
  <2>. QED  BY <1>0, <2>1 DEF PlumbInv, Ordered, Plumbed
<1>5. ASSUME NEW c \in Cmds, CmdNext(c) \/ (c = 0 /\ Enough)  PROVE PlumbInv'
  <2>1. /\ UNCHANGED <<inp, out, fails>>
        /\ \/ state' = state
           \/ /\ state[c] \in {"run", "eof"}
              /\ state' = [state EXCEPT ![c] = "eof"]
                 \/ state' = [state EXCEPT ![c] = "exit"]
    BY <1>0, <1>5 DEF CmdNext, Enough, Take, SeeEnd, Put, BrokenPipe, Finish,
         Reading, ToWrite, Alive, setupvars, PlumbInv, Plumbed
  <2>2. \/ held' = held
        \/ /\ state' = state /\ state[c] \notin {"none", "setup"}
           /\ held' = [held EXCEPT ![c] = @ + 1] \/ held' = [held EXCEPT ![c] = @ - 1]
    <3>1. CASE Take(c)
      BY <3>1 DEF Take, Reading
    <3>2. CASE Put(c)
      BY <1>0, <3>2 DEF Put, ToWrite, PlumbInv, Plumbed
    <3>3. CASE SeeEnd(c) \/ BrokenPipe(c) \/ Finish(c) \/ Enough
      BY <3>3 DEF SeeEnd, BrokenPipe, Finish, Enough, runvars
    <3>. QED  BY <1>5, <3>1, <3>2, <3>3 DEF CmdNext
  <2>3. \A d \in Cmds : state[d] \in {"none", "setup"} => held'[d] = held[d]
    BY <1>0, <2>2 DEF TypeOK
  <2>4. \A d \in Cmds : /\ d # c => state'[d] = state[d]
                        /\ state'[d] # state[d] => /\ state[d] \in {"run", "eof"}
                                                   /\ state'[d] \in {"eof", "exit"}
    BY <1>0, <2>1
  <2>5. Ordered'
    BY <1>0, <2>1, <2>4 DEF PlumbInv, Ordered
  <2>6. Plumbed'
    BY <1>0, <2>1, <2>3, <2>4 DEF PlumbInv, Plumbed
  <2>. QED  BY <2>5, <2>6 DEF PlumbInv
<1>6. CASE UNCHANGED vars
  BY <1>0, <1>6 DEF PlumbInv, Ordered, Plumbed, vars, setupvars, runvars
<1>7. 0 \in Cmds
  BY <1>0
<1>. QED
  BY <1>1, <1>2, <1>3, <1>4, <1>5, <1>6, <1>7 DEF Next, Setup

-----------------------------------------------------------------------------
(* What a command does *)

\* What TypeOK says of the counts.
LEMMA Counts ==
  ASSUME TypeOK
  PROVE  /\ \A p \in Pipes : data[p] \in Nat /\ data[p] <= Cap
         /\ \A c \in Cmds : held[c] \in Nat /\ held[c] <= Items
         /\ got \in Nat /\ sent \in Nat /\ got <= Items /\ sent <= Items
         /\ Items \in Nat /\ Cap \in Nat /\ wanted \in Nat
BY PipelineAssumption DEF TypeOK, PipelineAssumption

\* A command that reads reads the pipe of its number.
LEMMA ReadsItsPipe ==
  ASSUME TypeOK, PlumbInv, NEW c \in Cmds, Reading(c)
  PROVE  c # N - 1 /\ c \in Pipes /\ inp[c] = c /\ state[c] = "run"
BY Length DEF TypeOK, Reading, PlumbInv, Plumbed

\* A command that writes has something to write, and writes the pipe before.
LEMMA WritesBefore ==
  ASSUME TypeOK, PlumbInv, NEW c \in Cmds, ToWrite(c)
  PROVE  /\ c # 0 /\ c - 1 \in Pipes /\ c - 1 \in Cmds /\ out[c] = c - 1
         /\ c # N - 1 => held[c] > 0
         /\ c = N - 1 => state[c] = "run" /\ sent < Items
         /\ state[c] \notin {"none", "setup"}
BY Length DEF TypeOK, ToWrite, PlumbInv, Plumbed

\* A command takes an item from its pipe.
LEMMA TakeMoves ==
  ASSUME TypeOK, PlumbInv, NEW c \in Cmds, Take(c)
  PROVE  /\ c # N - 1 /\ c \in Pipes /\ state[c] = "run" /\ data[c] > 0
         /\ data' = [data EXCEPT ![c] = data[c] - 1]
         /\ c = 0 => got' = got + 1 /\ held' = held
         /\ c # 0 => held' = [held EXCEPT ![c] = held[c] + 1] /\ got' = got
         /\ UNCHANGED <<state, setupvars, sent>>
<1>1. c # N - 1 /\ c \in Pipes /\ inp[c] = c /\ state[c] = "run"
  BY ReadsItsPipe DEF Take
<1>. QED  BY <1>1 DEF Take, TypeOK

\* A command puts an item into the pipe before.
LEMMA PutMoves ==
  ASSUME TypeOK, PlumbInv, NEW c \in Cmds, Put(c)
  PROVE  /\ c # 0 /\ c - 1 \in Pipes /\ c - 1 \in Cmds
         /\ data[c - 1] < Cap
         /\ data' = [data EXCEPT ![c - 1] = data[c - 1] + 1]
         /\ c = N - 1 => /\ state[c] = "run" /\ sent < Items
                         /\ sent' = sent + 1 /\ held' = held
         /\ c # N - 1 => /\ held[c] > 0
                         /\ held' = [held EXCEPT ![c] = held[c] - 1] /\ sent' = sent
         /\ UNCHANGED <<state, setupvars, got>>
<1>1. /\ c # 0 /\ c - 1 \in Pipes /\ c - 1 \in Cmds /\ out[c] = c - 1
      /\ c # N - 1 => held[c] > 0
      /\ c = N - 1 => state[c] = "run" /\ sent < Items
  BY WritesBefore DEF Put
<1>. QED  BY <1>1 DEF Put, TypeOK

-----------------------------------------------------------------------------
(* Types *)

\* The initial states have the types.
LEMMA InitType ==
  ASSUME Init
  PROVE  TypeOK
<1>1. N \in Nat /\ N >= 2 /\ Cmds = 0 .. N - 1 /\ Pipes = 0 .. N - 2
  BY Length DEF Init
<1>2. {R(0), W(0)} \subseteq Ends
  BY <1>1 DEF Ends
<1>3. extra \in [Cmds -> SUBSET Ends]
  BY <1>2 DEF Init
<1>4. /\ state \in [Cmds -> States]
      /\ inp \in [Cmds -> Pipes \cup {TTY}]
      /\ out \in [Cmds -> Pipes \cup {TTY}]
  BY DEF Init, States
<1>5. /\ data \in [Pipes -> 0 .. Cap] /\ held \in [Cmds -> 0 .. Items]
      /\ got \in 0 .. Items /\ sent \in 0 .. Items /\ fails \in 0 .. MaxFails
      /\ wanted \in 0 .. Items + 1 /\ sorts \subseteq Cmds
  BY <1>1, PipelineAssumption DEF Init, PipelineAssumption
<1>. QED  BY <1>3, <1>4, <1>5 DEF TypeOK, Init

\* Nobody holds more than was sent, so every step keeps the types.
LEMMA TypeStep ==
  ASSUME TypeOK, PlumbInv, FlowInv, [Next]_vars
  PROVE  TypeOK'
<1>0. /\ N \in Nat /\ N >= 2 /\ Cmds = 0 .. N - 1 /\ Pipes = 0 .. N - 2
      /\ program' = program /\ wanted' = wanted /\ sorts' = sorts
      /\ Cmds' = Cmds /\ Pipes' = Pipes /\ Ends' = Ends
      /\ Cap \in Nat /\ Items \in Nat /\ MaxFails \in Nat
      /\ {"run", "setup", "eof", "exit", "lost"} \subseteq States
  BY Length, Constant, PipelineAssumption DEF TypeOK, PipelineAssumption, States
<1>1. SUFFICES /\ state' \in [Cmds -> States]
               /\ inp' \in [Cmds -> Pipes \cup {TTY}]
               /\ out' \in [Cmds -> Pipes \cup {TTY}]
               /\ extra' \in [Cmds -> SUBSET Ends]
               /\ data' \in [Pipes -> 0 .. Cap]
               /\ held' \in [Cmds -> 0 .. Items]
               /\ got' \in 0 .. Items /\ sent' \in 0 .. Items
               /\ fails' \in 0 .. MaxFails
  BY <1>0 DEF TypeOK
<1>. DEFINE Goal == /\ state' \in [Cmds -> States]
                    /\ inp' \in [Cmds -> Pipes \cup {TTY}]
                    /\ out' \in [Cmds -> Pipes \cup {TTY}]
                    /\ extra' \in [Cmds -> SUBSET Ends]
                    /\ data' \in [Pipes -> 0 .. Cap]
                    /\ held' \in [Cmds -> 0 .. Items]
                    /\ got' \in 0 .. Items /\ sent' \in 0 .. Items
                    /\ fails' \in 0 .. MaxFails
<1>2. ASSUME FirstSplit \/ SecondSplit \/ \E d \in Cmds : AnySplit(d)
      PROVE Goal
  <2>1. PICK c \in Cmds, p, q \in SUBSET Ends :
          c + 1 \in Cmds /\ c \in Pipes /\ Split(c, p, q)
    BY <1>2, Forks
  <2>2. UNCHANGED <<data, held, got, sent, fails>>
    BY <2>1 DEF Split, runvars
  <2>3. /\ state' = [state EXCEPT ![c] = "run", ![c + 1] = "setup"]
        /\ inp' = [inp EXCEPT ![c] = c, ![c + 1] = inp[c]]
        /\ out' = [out EXCEPT ![c + 1] = c]
        /\ extra' = [extra EXCEPT ![c] = p, ![c + 1] = q]
    BY <2>1 DEF Split
  <2>. QED  BY <1>0, <2>1, <2>2, <2>3 DEF TypeOK
<1>3. ASSUME NEW c \in Cmds, AnyForkFails(c)  PROVE Goal
  <2>1. UNCHANGED <<data, held, got, sent, inp>> /\ c + 1 \in Cmds /\ c \in Pipes
    BY <1>0, <1>3 DEF AnyForkFails, runvars
  <2>2. extra[c] \ {R(c), W(c)} \in SUBSET Ends
    BY DEF TypeOK
  <2>3. PICK s \in States, e \in SUBSET Ends :
          /\ state' = [state EXCEPT ![c] = "lost", ![c + 1] = s]
          /\ extra' = [extra EXCEPT ![c] = {}, ![c + 1] = e]
    BY <1>0, <1>3, <2>2 DEF AnyForkFails
  <2>4. out' = [out EXCEPT ![c + 1] = c] /\ fails' = fails + 1 /\ fails < MaxFails
    BY <1>3 DEF AnyForkFails
  <2>5. fails' \in 0 .. MaxFails
    BY <1>0, <2>4 DEF TypeOK
  <2>6. state' \in [Cmds -> States]
    BY <1>0, <2>3 DEF TypeOK
  <2>7. /\ out' \in [Cmds -> Pipes \cup {TTY}]
        /\ extra' \in [Cmds -> SUBSET Ends]
    BY <2>1, <2>3, <2>4 DEF TypeOK
  <2>8. /\ inp \in [Cmds -> Pipes \cup {TTY}]
        /\ data \in [Pipes -> 0 .. Cap] /\ held \in [Cmds -> 0 .. Items]
        /\ got \in 0 .. Items /\ sent \in 0 .. Items
    BY DEF TypeOK
  <2>9. /\ inp' \in [Cmds -> Pipes \cup {TTY}]
        /\ data' \in [Pipes -> 0 .. Cap] /\ held' \in [Cmds -> 0 .. Items]
        /\ got' \in 0 .. Items /\ sent' \in 0 .. Items
    BY <2>1, <2>8
  <2>. QED  BY <2>5, <2>6, <2>7, <2>9
<1>4. CASE ForkError
  <2>1. /\ UNCHANGED <<data, held, got, sent, inp, out>>
        /\ fails' = fails + 1 /\ fails < MaxFails
        /\ \E c \in 0 .. N - 2 : /\ state' = [state EXCEPT ![c] = "lost"]
                                 /\ extra' = [extra EXCEPT ![c] = {}]
    BY <1>4 DEF ForkError, runvars
  <2>2. fails' \in 0 .. MaxFails
    BY <1>0, <2>1 DEF TypeOK
  <2>3. state' \in [Cmds -> States] /\ extra' \in [Cmds -> SUBSET Ends]
    BY <1>0, <2>1 DEF TypeOK
  <2>. QED  BY <2>1, <2>2, <2>3 DEF TypeOK
<1>5. CASE ExecFirst
  BY <1>0, <1>5 DEF ExecFirst, setupvars, runvars, TypeOK
<1>6. ASSUME NEW c \in Cmds, SeeEnd(c) \/ BrokenPipe(c) \/ Finish(c) \/ (c = 0 /\ Enough)
      PROVE Goal
  <2>1. /\ UNCHANGED <<inp, out, extra, fails, data, held, got, sent>>
        /\ \/ state' = [state EXCEPT ![c] = "eof"]
           \/ state' = [state EXCEPT ![c] = "exit"]
    BY <1>6 DEF SeeEnd, BrokenPipe, Finish, Enough, setupvars, runvars
  <2>. QED  BY <1>0, <2>1 DEF TypeOK
<1>7. ASSUME NEW c \in Cmds, Take(c)  PROVE Goal
  <2>1. /\ c # N - 1 /\ c \in Pipes /\ data[c] > 0
        /\ data' = [data EXCEPT ![c] = data[c] - 1]
        /\ c = 0 => got' = got + 1 /\ held' = held
        /\ c # 0 => held' = [held EXCEPT ![c] = held[c] + 1] /\ got' = got
        /\ UNCHANGED <<state, inp, out, extra, fails, sent>>
    BY <1>7, TakeMoves DEF setupvars
  <2>2. PICK through \in [Pipes -> 0 .. Items] : Flow(through)
    BY DEF FlowInv
  <2>3. /\ data[c] \in Nat /\ data[c] > 0 /\ data[c] <= Cap /\ held[c] \in Nat /\ got \in Nat
        /\ through[c] \in 0 .. Items
    BY <1>0, <2>1, <2>2, Counts
  <2>4. ASSUME c = 0  PROVE got + 1 \in 0 .. Items
    <3>1. got = through[0] - data[0]
      BY <2>2 DEF Flow
    <3>2. data[0] > 0 /\ data[0] \in Nat /\ through[0] \in 0 .. Items
      BY <2>3, <2>4
    <3>3. got \in Nat
      BY <2>3
    <3>. QED  BY <1>0, <3>1, <3>2, <3>3
  <2>5. ASSUME c # 0  PROVE held[c] + 1 \in 0 .. Items
    <3>1. held[c] = through[c] - data[c] - through[c - 1]
      BY <2>1, <2>2, <2>5 DEF Flow
    <3>2. through[c - 1] \in 0 .. Items
      BY <1>0, <2>1, <2>2, <2>5
    <3>3. Items \in Nat
      BY <1>0
    <3>. QED  BY <2>3, <3>1, <3>2, <3>3
  <2>6. data[c] - 1 \in 0 .. Cap
    BY <1>0, <2>1, <2>3
  <2>. QED  BY <2>1, <2>4, <2>5, <2>6 DEF TypeOK
<1>8. ASSUME NEW c \in Cmds, Put(c)  PROVE Goal
  <2>1. /\ c # 0 /\ c - 1 \in Pipes /\ data[c - 1] < Cap
        /\ data' = [data EXCEPT ![c - 1] = data[c - 1] + 1]
        /\ c = N - 1 => sent < Items /\ sent' = sent + 1 /\ held' = held
        /\ c # N - 1 => /\ held[c] > 0
                        /\ held' = [held EXCEPT ![c] = held[c] - 1] /\ sent' = sent
        /\ UNCHANGED <<state, inp, out, extra, fails, got>>
    BY <1>8, PutMoves DEF setupvars
  <2>2. data[c - 1] + 1 \in 0 .. Cap
    BY <1>0, <2>1, Counts
  <2>3. c = N - 1 => sent + 1 \in 0 .. Items
    BY <1>0, <2>1, Counts
  <2>4. c # N - 1 => held[c] - 1 \in 0 .. Items
    BY <1>0, <2>1, Counts
  <2>. QED  BY <2>1, <2>2, <2>3, <2>4 DEF TypeOK
<1>9. CASE UNCHANGED vars
  BY <1>9 DEF vars, setupvars, runvars, TypeOK
<1>10. 0 \in Cmds
  BY <1>0
<1>. QED
  BY <1>2, <1>3, <1>4, <1>5, <1>6, <1>7, <1>8, <1>9, <1>10
  DEF Next, Setup, CmdNext

-----------------------------------------------------------------------------
(* The items *)

\* At the start nothing went through the pipes.
LEMMA InitFlow ==
  ASSUME Init
  PROVE  FlowInv
<1>1. /\ N \in Nat /\ N >= 2 /\ Cmds = 0 .. N - 1 /\ Pipes = 0 .. N - 2
      /\ Items \in Nat
  BY Length, PipelineAssumption DEF Init, PipelineAssumption
<1>. DEFINE through == [p \in Pipes |-> 0]
<1>2. through \in [Pipes -> 0 .. Items]
  BY <1>1
<1>3. \A c \in Cmds : state[c] \in {"none", "setup"} /\ held[c] = 0
  BY DEF Init
<1>4. \A p \in Pipes : data[p] = 0 /\ through[p] = 0
  BY DEF Init
<1>5. Flow(through)
  BY <1>1, <1>3, <1>4 DEF Flow, Init
<1>6. Complete(through)
  BY <1>1, <1>3 DEF Complete
<1>. QED  BY <1>2, <1>5, <1>6 DEF FlowInv

\* If the items are where they were and no command has come to the end of its
\* input or of its run, the invariant holds on.
LEMMA SameItems ==
  ASSUME TypeOK, FlowInv, UNCHANGED <<program, wanted>>, fails' = 0 => fails = 0,
         UNCHANGED <<data, held, got, sent>>,
         \A c \in Cmds : state'[c] \in {"eof", "exit"} => state'[c] = state[c]
  PROVE  FlowInv'
<1>1. N' = N /\ Cmds' = Cmds /\ Pipes' = Pipes /\ 0 \in Cmds
  BY SameLength, Length DEF TypeOK
<1>2. PICK through \in [Pipes -> 0 .. Items] :
        /\ Flow(through)
        /\ fails = 0 /\ wanted > Items => Complete(through)
  BY DEF FlowInv
<1>3. Flow(through)'
  BY <1>1, <1>2 DEF Flow
<1>4. Complete(through) => Complete(through)'
  BY <1>1 DEF Complete
<1>. QED  BY <1>1, <1>2, <1>3, <1>4 DEF FlowInv

\* Taking an item keeps the invariant: a command that still reads has not come
\* to the end.
LEMMA TakeFlow ==
  ASSUME TypeOK, PlumbInv, FlowInv, NEW c \in Cmds, Take(c)
  PROVE  FlowInv'
<1>0. /\ N \in Nat /\ N >= 2 /\ Cmds = 0 .. N - 1 /\ Pipes = 0 .. N - 2
      /\ DOMAIN data = Pipes /\ DOMAIN held = Cmds
  BY Length DEF TypeOK
<1>1. /\ c # N - 1 /\ c \in Pipes /\ state[c] = "run" /\ data[c] > 0
      /\ data' = [data EXCEPT ![c] = data[c] - 1]
      /\ c = 0 => got' = got + 1 /\ held' = held
      /\ c # 0 => held' = [held EXCEPT ![c] = held[c] + 1] /\ got' = got
      /\ UNCHANGED <<state, fails, program, wanted, sent>>
  BY TakeMoves DEF setupvars, cmdvars
<1>2. N' = N /\ Cmds' = Cmds /\ Pipes' = Pipes
  BY <1>1, SameLength
<1>3. PICK through \in [Pipes -> 0 .. Items] :
        /\ Flow(through)
        /\ fails = 0 /\ wanted > Items => Complete(through)
  BY DEF FlowInv
<1>4. data[c] \in Nat /\ held[c] \in Nat /\ got \in Nat /\ through[c] \in Int
  BY <1>1, <1>3, Counts
<1>5. /\ data'[c] = data[c] - 1 /\ \A p \in Pipes \ {c} : data'[p] = data[p]
      /\ c # 0 => held'[c] = held[c] + 1
      /\ \A d \in Cmds \ {c} : held'[d] = held[d]
  BY <1>0, <1>1
<1>6. Flow(through)'
  <2>1. through[N - 2] = sent'
    BY <1>1, <1>3 DEF Flow
  <2>2. got' = through[0] - data'[0]
    <3>1. got = through[0] - data[0]
      BY <1>3 DEF Flow
    <3>2. CASE c = 0
      BY <1>1, <1>4, <1>5, <3>1, <3>2
    <3>3. CASE c # 0
      BY <1>0, <1>1, <1>5, <3>1, <3>3
    <3>. QED  BY <3>2, <3>3
  <2>3. ASSUME NEW d \in Cmds \ {0, N - 1}
        PROVE  held'[d] = through[d] - data'[d] - through[d - 1]
    <3>1. held[d] = through[d] - data[d] - through[d - 1]
      BY <1>3 DEF Flow
    <3>2. through[d] \in Int /\ through[d - 1] \in Int /\ d \in Pipes
      BY <1>0, <1>3
    <3>3. CASE d = c
      BY <1>4, <1>5, <3>1, <3>2, <3>3
    <3>4. CASE d # c
      BY <1>5, <3>1, <3>2, <3>4
    <3>. QED  BY <3>3, <3>4
  <2>. QED  BY <1>2, <2>1, <2>2, <2>3 DEF Flow
<1>7. ASSUME Complete(through)  PROVE Complete(through)'
  <2>1. \A d \in Cmds \ {N - 1} : state[d] = "eof" => through[d] = Items /\ data'[d] = 0
    BY <1>0, <1>1, <1>5, <1>7 DEF Complete
  <2>2. state[0] = "exit" => got' = Items
    BY <1>1, <1>7 DEF Complete
  <2>. QED  BY <1>1, <1>2, <1>7, <2>1, <2>2 DEF Complete
<1>. QED  BY <1>1, <1>2, <1>3, <1>6, <1>7 DEF FlowInv

\* A command that has something to write has not passed everything on yet.
LEMMA NotAllPassed ==
  ASSUME TypeOK, PlumbInv, NEW c \in Cmds, ToWrite(c),
         NEW through \in [Pipes -> 0 .. Items], Flow(through)
  PROVE  through[c - 1] < Items
<1>0. /\ N \in Nat /\ N >= 2 /\ Cmds = 0 .. N - 1 /\ Pipes = 0 .. N - 2
  BY Length DEF TypeOK
<1>1. /\ c # 0 /\ c - 1 \in Pipes
      /\ c # N - 1 => held[c] > 0
      /\ c = N - 1 => sent < Items
  BY WritesBefore
<1>2. CASE c = N - 1
  <2>1. through[N - 2] < Items
    BY <1>1, <1>2 DEF Flow
  <2>2. c - 1 = N - 2
    BY <1>0, <1>2
  <2>. QED  BY <2>1, <2>2
<1>3. CASE c # N - 1
  <2>1. held[c] = through[c] - data[c] - through[c - 1]
    BY <1>1, <1>3 DEF Flow
  <2>2. c \in Pipes
    BY <1>0, <1>3
  <2>3. /\ held[c] \in Nat /\ held[c] > 0 /\ data[c] \in Nat /\ Items \in Nat
        /\ through[c] \in 0 .. Items /\ through[c - 1] \in 0 .. Items
    BY <1>1, <1>3, <2>2, Counts
  <2>. QED  BY <2>1, <2>3
<1>. QED  BY <1>2, <1>3

\* Putting an item keeps the invariant: nobody after the writer has come to the
\* end of that pipe.
LEMMA PutFlow ==
  ASSUME TypeOK, PlumbInv, FlowInv, NEW c \in Cmds, Put(c)
  PROVE  FlowInv'
<1>0. /\ N \in Nat /\ N >= 2 /\ Cmds = 0 .. N - 1 /\ Pipes = 0 .. N - 2
      /\ DOMAIN data = Pipes /\ DOMAIN held = Cmds /\ Items \in Nat
  BY Length, Counts DEF TypeOK
<1>1. /\ c # 0 /\ c - 1 \in Pipes /\ c - 1 \in Cmds
      /\ data' = [data EXCEPT ![c - 1] = data[c - 1] + 1]
      /\ c = N - 1 => sent' = sent + 1 /\ held' = held
      /\ c # N - 1 => held' = [held EXCEPT ![c] = held[c] - 1] /\ sent' = sent
      /\ UNCHANGED <<state, fails, program, wanted, got>>
  BY PutMoves DEF setupvars, cmdvars
<1>2. N' = N /\ Cmds' = Cmds /\ Pipes' = Pipes
  BY <1>1, SameLength
<1>3. PICK through \in [Pipes -> 0 .. Items] :
        /\ Flow(through)
        /\ fails = 0 /\ wanted > Items => Complete(through)
  BY DEF FlowInv
<1>. DEFINE more == [through EXCEPT ![c - 1] = through[c - 1] + 1]
<1>4. through[c - 1] < Items
  BY <1>3, NotAllPassed DEF Put
<1>5. /\ data[c - 1] \in Nat /\ held[c] \in Nat /\ sent \in Nat
      /\ through[c - 1] \in Nat
  BY <1>1, <1>3, Counts
<1>6. /\ data'[c - 1] = data[c - 1] + 1
      /\ \A p \in Pipes \ {c - 1} : data'[p] = data[p]
      /\ c # N - 1 => held'[c] = held[c] - 1
      /\ \A d \in Cmds \ {c} : held'[d] = held[d]
  BY <1>0, <1>1
<1>7. /\ more \in [Pipes -> 0 .. Items]
      /\ more[c - 1] = through[c - 1] + 1
      /\ \A p \in Pipes \ {c - 1} : more[p] = through[p]
  <2>1. through[c - 1] + 1 \in 0 .. Items
    BY <1>0, <1>4, <1>5
  <2>2. /\ more \in [Pipes -> 0 .. Items]
        /\ more[c - 1] = through[c - 1] + 1
    BY <1>1, <2>1
  <2>3. \A p \in Pipes \ {c - 1} : more[p] = through[p]
    OBVIOUS
  <2>. QED  BY <2>2, <2>3
<1>. HIDE DEF more
<1>8. Flow(more)'
  <2>1. more[N - 2] = sent'
    <3>1. through[N - 2] = sent
      BY <1>3 DEF Flow
    <3>2. CASE c = N - 1
      BY <1>0, <1>1, <1>7, <3>1, <3>2
    <3>3. CASE c # N - 1
      BY <1>0, <1>1, <1>7, <3>1, <3>3
    <3>. QED  BY <3>2, <3>3
  <2>2. got' = more[0] - data'[0]
    <3>1. got = through[0] - data[0]
      BY <1>3 DEF Flow
    <3>2. CASE c = 1
      BY <1>1, <1>5, <1>6, <1>7, <3>1, <3>2
    <3>3. CASE c # 1
      BY <1>0, <1>1, <1>6, <1>7, <3>1, <3>3
    <3>. QED  BY <3>2, <3>3
  <2>3. ASSUME NEW d \in Cmds \ {0, N - 1}
        PROVE  held'[d] = more[d] - data'[d] - more[d - 1]
    <3>1. held[d] = through[d] - data[d] - through[d - 1]
      BY <1>3 DEF Flow
    <3>2. /\ through[d] \in Int /\ through[d - 1] \in Int /\ data[d] \in Int
          /\ d \in Pipes /\ d - 1 \in Pipes
      BY <1>0, <1>3, Counts
    <3>3. CASE d = c
      <4>1. more[d] = through[d] /\ data'[d] = data[d]
        BY <1>0, <1>6, <1>7, <3>2, <3>3
      <4>. QED  BY <1>5, <1>6, <1>7, <3>1, <3>2, <3>3, <4>1
    <3>4. CASE d = c - 1
      <4>1. more[d - 1] = through[d - 1] /\ held'[d] = held[d]
        BY <1>0, <1>6, <1>7, <3>2, <3>4
      <4>. QED  BY <1>5, <1>6, <1>7, <3>1, <3>2, <3>4, <4>1
    <3>5. CASE d # c /\ d # c - 1
      <4>1. d - 1 # c - 1
        BY <1>0, <3>5
      <4>. QED  BY <1>6, <1>7, <3>1, <3>2, <3>5, <4>1
    <3>. QED  BY <3>3, <3>4, <3>5
  <2>. QED  BY <1>2, <2>1, <2>2, <2>3 DEF Flow
<1>9. ASSUME Complete(through)  PROVE Complete(more)'
  <2>1. ASSUME NEW d \in Cmds \ {N - 1}, state[d] = "eof"
        PROVE  more[d] = Items /\ data'[d] = 0
    <3>1. through[d] = Items /\ data[d] = 0
      BY <1>9, <2>1 DEF Complete
    <3>2. d \in Pipes /\ d # c - 1
      BY <1>0, <1>4, <3>1
    <3>. QED  BY <1>6, <1>7, <3>1, <3>2
  <2>2. ASSUME NEW d \in Cmds \ {0}, state[d] = "exit"
        PROVE  more[d - 1] = Items
    <3>1. through[d - 1] = Items
      BY <1>9, <2>2 DEF Complete
    <3>2. d - 1 \in Pipes /\ d - 1 # c - 1
      BY <1>0, <1>4, <3>1
    <3>. QED  BY <1>7, <3>1, <3>2
  <2>3. state[0] = "exit" => got' = Items
    BY <1>1, <1>9 DEF Complete
  <2>. QED  BY <1>1, <1>2, <2>1, <2>2, <2>3 DEF Complete
<1>. QED  BY <1>1, <1>2, <1>3, <1>7, <1>8, <1>9 DEF FlowInv

-----------------------------------------------------------------------------
(* Coming to the end *)

\* A command that sees the end of its input has read everything: the command
\* before it has it as standard output until it exits.
LEMMA EndIsAll ==
  ASSUME TypeOK, PlumbInv, fails = 0, NEW c \in Cmds, SeeEnd(c),
         NEW through \in [Pipes -> 0 .. Items], Complete(through)
  PROVE  through[c] = Items /\ data[c] = 0
<1>0. /\ N \in Nat /\ N >= 2 /\ Cmds = 0 .. N - 1 /\ Pipes = 0 .. N - 2
      /\ TTY \notin Pipes
  BY Length DEF TypeOK, TTY
<1>1. c # N - 1 /\ c \in Pipes /\ inp[c] = c /\ state[c] = "run"
  BY ReadsItsPipe DEF SeeEnd
<1>2. c + 1 \in Cmds /\ state[c + 1] \notin {"none", "lost"} /\ out[c + 1] = c
  BY <1>0, <1>1 DEF PlumbInv, Ordered, Plumbed
<1>3. W(c) \in OpenEnds(c + 1)
  BY <1>0, <1>1, <1>2 DEF OpenEnds
<1>4. ~HasWriter(c) /\ data[c] = 0
  BY <1>1 DEF SeeEnd
<1>5. ~Alive(c + 1)
  BY <1>2, <1>3, <1>4 DEF HasWriter
<1>6. state[c + 1] = "exit"
  BY <1>2, <1>5 DEF Alive, TypeOK, States
<1>7. through[(c + 1) - 1] = Items
  BY <1>0, <1>1, <1>2, <1>6 DEF Complete
<1>. QED  BY <1>0, <1>1, <1>4, <1>7

\* Nobody writes to a pipe without a reader: the command after has it as
\* standard input until it exits, which it does after everything has come
\* through.
LEMMA NobodyKilled ==
  ASSUME TypeOK, PlumbInv, FlowInv, fails = 0, wanted > Items, NEW c \in Cmds
  PROVE  ~BrokenPipe(c)
<1>. SUFFICES ASSUME BrokenPipe(c)  PROVE FALSE
  OBVIOUS
<1>0. /\ N \in Nat /\ N >= 2 /\ Cmds = 0 .. N - 1 /\ Pipes = 0 .. N - 2
      /\ TTY \notin Pipes /\ Items \in Nat
  BY Length, Counts DEF TypeOK, TTY
<1>1. PICK through \in [Pipes -> 0 .. Items] : Flow(through) /\ Complete(through)
  BY DEF FlowInv
<1>2. /\ c # 0 /\ c - 1 \in Pipes /\ c - 1 \in Cmds /\ out[c] = c - 1
      /\ state[c] \notin {"none", "setup"}
      /\ ~HasReader(c - 1) /\ through[c - 1] < Items
  BY <1>1, WritesBefore, NotAllPassed DEF BrokenPipe
<1>3. c - 1 # N - 1 /\ c - 1 < c
  BY <1>0
<1>4. state[c - 1] \notin {"none", "setup", "lost"}
  BY <1>2, <1>3 DEF PlumbInv, Ordered
<1>5. state[c - 1] \notin {"eof"}
  BY <1>0, <1>1, <1>2, <1>3 DEF Complete
<1>6. state[c - 1] # "run"
  <2>. SUFFICES ASSUME state[c - 1] = "run"  PROVE FALSE
    OBVIOUS
  <2>1. inp[c - 1] = c - 1
    BY <1>2, <1>3 DEF PlumbInv, Plumbed
  <2>2. R(c - 1) \in OpenEnds(c - 1)
    BY <1>0, <1>2, <2>1 DEF OpenEnds
  <2>3. HasReader(c - 1)
    BY <1>2, <2>2 DEF HasReader, Alive
  <2>. QED  BY <1>2, <2>3
<1>7. state[c - 1] = "exit"
  BY <1>2, <1>4, <1>5, <1>6 DEF TypeOK, States
<1>8. CASE c - 1 = 0
  <2>1. got = Items /\ got = through[0] - data[0]
    BY <1>1, <1>7, <1>8 DEF Complete, Flow
  <2>2. data[0] \in Nat /\ through[0] \in 0 .. Items /\ through[0] < Items
    BY <1>0, <1>1, <1>2, <1>8, Counts
  <2>. QED  BY <1>0, <2>1, <2>2
<1>9. CASE c - 1 # 0
  <2>. DEFINE d == c - 1
  <2>1. /\ d \in Cmds /\ d # 0 /\ d # N - 1 /\ state[d] = "exit" /\ d \in Pipes
        /\ d - 1 \in Pipes /\ through[d] < Items
    BY <1>0, <1>2, <1>3, <1>7, <1>9
  <2>. HIDE DEF d
  <2>2. through[d - 1] = Items
    BY <1>1, <2>1 DEF Complete
  <2>3. held[d] = through[d] - data[d] - through[d - 1]
    BY <1>1, <2>1 DEF Flow
  <2>4. held[d] \in Nat /\ data[d] \in Nat /\ through[d] \in 0 .. Items
    BY <1>1, <2>1, Counts
  <2>. QED  BY <1>0, <2>1, <2>2, <2>3, <2>4
<1>. QED  BY <1>8, <1>9

\* Seeing the end, and leaving: the items stay, and if reads are to the end and
\* all were forked, the one who saw the end had it all, and the one who leaves
\* has passed all of it on.
LEMMA EndFlow ==
  ASSUME TypeOK, PlumbInv, FlowInv, NEW c \in Cmds,
         SeeEnd(c) \/ BrokenPipe(c) \/ Finish(c) \/ (c = 0 /\ Enough)
  PROVE  FlowInv'
<1>10. N \in Nat /\ N >= 2 /\ Cmds = 0 .. N - 1 /\ Pipes = 0 .. N - 2
  BY Length DEF TypeOK
<1>11. DOMAIN state = Cmds
  BY DEF TypeOK
<1>12. Items \in Nat /\ wanted \in Nat
  BY Counts
<1>0. /\ N \in Nat /\ N >= 2 /\ Cmds = 0 .. N - 1 /\ Pipes = 0 .. N - 2
      /\ DOMAIN state = Cmds /\ Items \in Nat /\ wanted \in Nat /\ 0 \in Cmds
  BY <1>10, <1>11, <1>12
<1>1. /\ UNCHANGED <<data, held, got, sent, fails, program, wanted>>
      /\ \/ SeeEnd(c) /\ state' = [state EXCEPT ![c] = "eof"]
         \/ ~SeeEnd(c) /\ state' = [state EXCEPT ![c] = "exit"]
         \/ state' = [state EXCEPT ![c] = "exit"]
  BY DEF SeeEnd, BrokenPipe, Finish, Enough, setupvars, cmdvars, runvars
<1>2. N' = N /\ Cmds' = Cmds /\ Pipes' = Pipes
  BY <1>1, SameLength
<1>3. PICK through \in [Pipes -> 0 .. Items] :
        /\ Flow(through)
        /\ fails = 0 /\ wanted > Items => Complete(through)
  BY DEF FlowInv
<1>4. Flow(through)'
  BY <1>1, <1>2, <1>3 DEF Flow
<1>5. ASSUME fails = 0, wanted > Items  PROVE Complete(through)'
  <2>1. Complete(through) /\ \A d \in Cmds \ {c} : state'[d] = state[d]
    BY <1>0, <1>1, <1>3, <1>5
  <2>2. CASE SeeEnd(c)
    <3>1. state' = [state EXCEPT ![c] = "eof"]
      BY <2>2 DEF SeeEnd
    <3>2. through[c] = Items /\ data[c] = 0
      BY <1>5, <2>1, <2>2, EndIsAll
    <3>3. state'[c] = "eof"
      BY <1>0, <3>1
    <3>4. \A d \in Cmds \ {N - 1} : state'[d] = "eof" => through[d] = Items /\ data'[d] = 0
      BY <1>1, <2>1, <3>2, <3>3 DEF Complete
    <3>5. \A d \in Cmds \ {0} : state'[d] = "exit" => through[d - 1] = Items
      BY <2>1, <3>3 DEF Complete
    <3>6. state'[0] = "exit" => got' = Items
      BY <1>0, <1>1, <2>1, <3>3 DEF Complete
    <3>. QED  BY <1>2, <3>4, <3>5, <3>6 DEF Complete
  <2>3. CASE BrokenPipe(c)
    BY <1>5, <2>3, NobodyKilled
  <2>4. CASE c = 0 /\ Enough
    BY <1>0, <1>5, <2>4, Counts DEF Enough
  <2>5. CASE Finish(c)
    <3>1. state' = [state EXCEPT ![c] = "exit"]
      BY <2>5 DEF Finish
    <3>2. state'[c] = "exit"
      BY <1>0, <3>1
    <3>3. ASSUME c = N - 1  PROVE through[c - 1] = Items
      <4>1. sent = Items
        BY <2>5, <3>3 DEF Finish
      <4>2. through[N - 2] = sent
        BY <1>3 DEF Flow
      <4>3. c - 1 = N - 2
        BY <1>0, <3>3
      <4>. QED  BY <4>1, <4>2, <4>3
    <3>4. ASSUME c # N - 1, c # 0  PROVE through[c - 1] = Items
      <4>1. state[c] = "eof" /\ held[c] = 0
        BY <2>5, <3>4 DEF Finish
      <4>2. through[c] = Items /\ data[c] = 0
        BY <2>1, <3>4, <4>1 DEF Complete
      <4>3. held[c] = through[c] - data[c] - through[c - 1]
        BY <1>3, <3>4 DEF Flow
      <4>4. through[c - 1] \in Int
        BY <1>0, <1>3, <3>4
      <4>. QED  BY <1>0, <4>1, <4>2, <4>3, <4>4
    <3>5. ASSUME c = 0  PROVE got = Items
      <4>1. state[0] = "eof" /\ 0 # N - 1
        BY <1>0, <2>5, <3>5 DEF Finish
      <4>2. through[0] = Items /\ data[0] = 0 /\ got = through[0] - data[0]
        BY <1>0, <1>3, <2>1, <4>1 DEF Complete, Flow
      <4>. QED  BY <1>0, <4>2
    <3>. QED  BY <1>0, <1>1, <1>2, <2>1, <3>2, <3>3, <3>4, <3>5 DEF Complete
  <2>. QED  BY <2>2, <2>3, <2>4, <2>5
<1>. QED  BY <1>1, <1>2, <1>3, <1>4, <1>5 DEF FlowInv

\* Every step keeps the invariant about the items.
LEMMA FlowStep ==
  ASSUME TypeOK, PlumbInv, FlowInv, [Next]_vars
  PROVE  FlowInv'
<1>0. /\ UNCHANGED <<program, wanted>>
      /\ N \in Nat /\ Cmds = 0 .. N - 1 /\ fails \in Nat /\ DOMAIN state = Cmds
      /\ 0 \in Cmds /\ N - 1 \in Cmds
  BY Constant, Length, PipelineAssumption DEF TypeOK, PipelineAssumption
<1>1. ASSUME FirstSplit \/ SecondSplit \/ \E d \in Cmds : AnySplit(d)
      PROVE FlowInv'
  <2>1. PICK c \in Cmds, p, q \in SUBSET Ends : c + 1 \in Cmds /\ Split(c, p, q)
    BY <1>1, Forks
  <2>2. UNCHANGED <<data, held, got, sent, fails>>
    BY <2>1 DEF Split, runvars
  <2>3. \A d \in Cmds : state'[d] \in {"eof", "exit"} => state'[d] = state[d]
    BY <1>0, <2>1 DEF Split
  <2>. QED  BY <1>0, <2>2, <2>3, SameItems
<1>2. ASSUME ForkError \/ \E d \in Cmds : AnyForkFails(d)  PROVE FlowInv'
  <2>1. UNCHANGED <<data, held, got, sent>> /\ fails' = fails + 1
    BY <1>2 DEF ForkError, AnyForkFails, runvars
  <2>2. \A d \in Cmds : state'[d] \in {"eof", "exit"} => state'[d] = state[d]
    <3>1. CASE ForkError
      BY <1>0, <3>1 DEF ForkError
    <3>2. CASE \E d \in Cmds : AnyForkFails(d)
      BY <1>0, <3>2 DEF AnyForkFails
    <3>. QED  BY <1>2, <3>1, <3>2
  <2>. QED  BY <1>0, <2>1, <2>2, SameItems
<1>3. CASE ExecFirst
  <2>1. UNCHANGED <<data, held, got, sent, fails>>
        /\ state' = [state EXCEPT ![N - 1] = "run"]
    BY <1>3 DEF ExecFirst, setupvars, runvars
  <2>2. \A d \in Cmds : state'[d] \in {"eof", "exit"} => state'[d] = state[d]
    BY <1>0, <2>1
  <2>. QED  BY <1>0, <2>1, <2>2, SameItems
<1>4. ASSUME NEW c \in Cmds, CmdNext(c) \/ (c = 0 /\ Enough)  PROVE FlowInv'
  BY <1>4, TakeFlow, PutFlow, EndFlow DEF CmdNext
<1>5. CASE UNCHANGED vars
  BY <1>0, <1>5, SameItems DEF vars, setupvars, runvars
<1>. QED
  BY <1>0, <1>1, <1>2, <1>3, <1>4, <1>5 DEF Next, Setup

-----------------------------------------------------------------------------
(* The theorems *)

\* The types and the two invariants hold together.
LEMMA PipeInvariants == Spec => [](TypeOK /\ PlumbInv /\ FlowInv)
<1>1. Init => TypeOK /\ PlumbInv /\ FlowInv
  BY InitType, InitPlumb, InitFlow
<1>2. TypeOK /\ PlumbInv /\ FlowInv /\ [Next]_vars
        => (TypeOK /\ PlumbInv /\ FlowInv)'
  BY TypeStep, PlumbStep, FlowStep
<1>. QED  BY <1>1, <1>2, PTL DEF Spec

\* The programs keep their types: no pipe holds more than its capacity and no
\* command more than was sent.
THEOREM TypeTheorem == Spec => []TypeOK
BY PipeInvariants, PTL

\* A last command that reads to the end of its input has read, when it sees the
\* end, all that the first command writes, through any number of commands.
THEOREM ArriveTheorem == Spec => []AllArrive
<1>1. TypeOK /\ PlumbInv /\ FlowInv => AllArrive
  <2>. SUFFICES ASSUME TypeOK, FlowInv, fails = 0, state[0] \in {"eof", "exit"},
                       wanted > Items
                PROVE  got = Items
    BY DEF AllArrive
  <2>0. /\ N \in Nat /\ N >= 2 /\ Cmds = 0 .. N - 1 /\ Items \in Nat
        /\ 0 \in Cmds \ {N - 1}
    BY Length, Counts DEF TypeOK
  <2>1. PICK through \in [Pipes -> 0 .. Items] : Flow(through) /\ Complete(through)
    BY DEF FlowInv
  <2>2. CASE state[0] = "exit"
    BY <2>1, <2>2 DEF Complete
  <2>3. CASE state[0] = "eof"
    <3>1. through[0] = Items /\ data[0] = 0 /\ got = through[0] - data[0]
      BY <2>0, <2>1, <2>3 DEF Complete, Flow
    <3>. QED  BY <2>0, <3>1
  <2>. QED  BY <2>2, <2>3
<1>. QED  BY <1>1, PipeInvariants, PTL

\* When every fork succeeds and the last command reads to the end, no command of
\* the line is killed by SIGPIPE.
THEOREM NobodyKilledTheorem ==
  Spec => [][fails = 0 /\ wanted > Items => \A c \in Cmds : ~BrokenPipe(c)]_vars
<1>1. TypeOK /\ PlumbInv /\ FlowInv /\ [Next]_vars
        => [fails = 0 /\ wanted > Items => \A c \in Cmds : ~BrokenPipe(c)]_vars
  BY NobodyKilled
<1>. QED  BY <1>1, PipeInvariants, PTL DEF Spec
=============================================================================
