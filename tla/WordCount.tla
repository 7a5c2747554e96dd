------------------------------ MODULE WordCount ------------------------------
(***************************************************************************)
(* twordcount1.c to twordcount4.c, as far as they count: a thread per file *)
(* counts its words, in a counter all threads share (version 1), in the    *)
(* shared counter under a mutex (version 2), or in a counter of its own    *)
(* (versions 3 and 4).  What a thread of version 4 does after its file,    *)
(* and the main of that version, are in Twordcount.                        *)
(*                                                                         *)
(* A file is the sequence of isalnum(c) of its characters.  total_words++  *)
(* is a load and a store.  The main of twordcount2.c returns before it     *)
(* creates a thread: its count_words is run here by the main of version 1. *)
(***************************************************************************)
EXTENDS Integers, Sequences, FiniteSets

CONSTANTS
  Threads,   \* the counting threads
  Versions,  \* those to run: 1 to 4
  Files      \* what may be in a file

Main == "main"
Nobody == "nobody"

ASSUME WordCountAssumption ==
  /\ Versions \subseteq 1 .. 4
  /\ Files \subseteq Seq(BOOLEAN)
  /\ IsFiniteSet(Threads)
  /\ {Main, Nobody} \cap Threads = {}

VARIABLES
  version,       \* which of the four programs this is
  file,          \* the characters of each thread's file
  pc,            \* where main and each thread are
  pos,           \* characters each thread has read so far
  prevc,         \* isalnum(prevc)
  reg,           \* the shared counter as loaded for ++
  total_words,   \* the shared counter; main's sum in version 4
  count,         \* args->count
  lock           \* who holds the mutex (counter_lock in version 2)

inputs == <<version, file>>
scanvars == <<pos, prevc>>
wordvars == <<inputs, pc, scanvars, reg, total_words, count, lock>>

Procs == Threads \cup {Main}

CountStates ==
  {"new", "fopen", "getc", "lock", "load", "store", "unlock", "done"}

WordTypeOK ==
  /\ version \in Versions
  /\ file \in [Threads -> Files]
  /\ pos \in [Threads -> Nat]
  /\ \A t \in Threads : pos[t] <= Len(file[t])
  /\ prevc \in [Threads -> BOOLEAN]
  /\ reg \in [Threads -> Nat]
  /\ total_words \in Nat
  /\ count \in [Threads -> Nat]
  /\ lock \in Procs \cup {Nobody}

\* main of version 4 takes the lock before it creates the threads.
WordInit ==
  /\ version \in Versions
  /\ file \in [Threads -> Files]
  /\ pc = [p \in Procs |-> IF p # Main THEN "new"
                           ELSE IF version = 4 THEN "lock" ELSE "create"]
  /\ pos = [t \in Threads |-> 0]
  /\ prevc = [t \in Threads |-> FALSE]
  /\ reg = [t \in Threads |-> 0]
  /\ total_words = 0
  /\ count = [t \in Threads |-> 0]
  /\ lock = Nobody

Goto(p, from, to) ==
  /\ pc[p] = from
  /\ pc' = [pc EXCEPT ![p] = to]

-----------------------------------------------------------------------------
(* main *)

CreateThread(t) ==
  /\ pc[Main] = "create"
  /\ Goto(t, "new", "fopen")
  /\ UNCHANGED <<inputs, scanvars, reg, total_words, count, lock>>

AllCreated ==
  /\ \A t \in Threads : pc[t] # "new"
  /\ Goto(Main, "create", IF version = 4 THEN "loop" ELSE "join")
  /\ UNCHANGED <<inputs, scanvars, reg, total_words, count, lock>>

\* Versions 1 to 3: both joins return, the total is printed.
JoinAndPrint ==
  /\ version # 4
  /\ \A t \in Threads : pc[t] = "done"
  /\ Goto(Main, "join", "exit")
  /\ UNCHANGED <<inputs, scanvars, reg, total_words, count, lock>>

CountMainNext ==
  (\E t \in Threads : CreateThread(t)) \/ AllCreated \/ JoinAndPrint

-----------------------------------------------------------------------------
(* count_words *)

\* What comes after the file.
FileDone == IF version = 4 THEN "report" ELSE "done"

FopenOK(t) ==
  /\ Goto(t, "fopen", "getc")
  /\ UNCHANGED <<inputs, scanvars, reg, total_words, count, lock>>

FopenFails(t) ==
  /\ Goto(t, "fopen", FileDone)
  /\ UNCHANGED <<inputs, scanvars, reg, total_words, count, lock>>

\* getc returns EOF: fclose.
AtEOF(t) ==
  /\ pos[t] = Len(file[t])
  /\ Goto(t, "getc", FileDone)
  /\ UNCHANGED <<inputs, scanvars, reg, total_words, count, lock>>

\* Wrong on purpose: the end of the file is read as a character.
NextCharPastEOF(t) ==
  /\ pos' = [pos EXCEPT ![t] = @ + 1]
  /\ prevc' = [prevc EXCEPT ![t] = FALSE]

NextChar(t) ==
  /\ pos[t] < Len(file[t])
  /\ pos' = [pos EXCEPT ![t] = @ + 1]
  /\ prevc' = [prevc EXCEPT ![t] = file[t][pos[t] + 1]]

EndsWord(t) == pos[t] < Len(file[t]) /\ prevc[t] /\ ~file[t][pos[t] + 1]

\* The character does not end a word.
Skip(t) ==
  /\ ~EndsWord(t)
  /\ Goto(t, "getc", "getc")
  /\ NextChar(t)
  /\ UNCHANGED <<inputs, reg, total_words, count, lock>>

\* It does; what follows depends on the version.
EndOfWord(t) ==
  /\ EndsWord(t)
  /\ version \in {1, 2}
  /\ Goto(t, "getc", IF version = 1 THEN "load" ELSE "lock")
  /\ NextChar(t)
  /\ UNCHANGED <<inputs, reg, total_words, count, lock>>

\* Versions 3 and 4: args->count++
EndOfOwnWord(t) ==
  /\ EndsWord(t)
  /\ version \in {3, 4}
  /\ Goto(t, "getc", "getc")
  /\ NextChar(t)
  /\ count' = [count EXCEPT ![t] = @ + 1]
  /\ UNCHANGED <<inputs, reg, total_words, lock>>

\* Wrong on purpose: the mutex is not waited for.
LockTaken(t) ==
  /\ Goto(t, "lock", "load")
  /\ lock' = t
  /\ UNCHANGED <<inputs, scanvars, reg, total_words, count>>

Lock(t) ==
  /\ lock = Nobody
  /\ Goto(t, "lock", "load")
  /\ lock' = t
  /\ UNCHANGED <<inputs, scanvars, reg, total_words, count>>

\* Wrong on purpose: ++ on a value loaded before the loop.
LoadOnce(t) ==
  /\ Goto(t, "load", "store")
  /\ UNCHANGED <<inputs, scanvars, reg, total_words, count, lock>>

Load(t) ==
  /\ Goto(t, "load", "store")
  /\ reg' = [reg EXCEPT ![t] = total_words]
  /\ UNCHANGED <<inputs, scanvars, total_words, count, lock>>

\* Wrong on purpose: ++ on the copy of the copy.
StoreTwice(t) ==
  /\ Goto(t, "store", IF version = 1 THEN "getc" ELSE "unlock")
  /\ total_words' = reg[t] + 2
  /\ UNCHANGED <<inputs, scanvars, reg, count, lock>>

Store(t) ==
  /\ Goto(t, "store", IF version = 1 THEN "getc" ELSE "unlock")
  /\ total_words' = reg[t] + 1
  /\ UNCHANGED <<inputs, scanvars, reg, count, lock>>

Unlock(t) ==
  /\ Goto(t, "unlock", "getc")
  /\ lock' = Nobody
  /\ UNCHANGED <<inputs, scanvars, reg, total_words, count>>

CountNext(t) ==
  \/ FopenOK(t) \/ FopenFails(t)
  \/ AtEOF(t) \/ Skip(t) \/ EndOfWord(t) \/ EndOfOwnWord(t)
  \/ Lock(t) \/ Load(t) \/ Store(t) \/ Unlock(t)
=============================================================================
