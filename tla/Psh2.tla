-------------------------------- MODULE Psh2 ---------------------------------
(***************************************************************************)
(* psh2.c, the prompting shell that asks for one word at a time: an empty  *)
(* line, or the end of input, runs the words it has.  arglist keeps the    *)
(* words of earlier commands behind the NULL of the present one.  It was   *)
(* never initialised: an entry nothing was stored in is JUNK.              *)
(*                                                                         *)
(* Not modelled: a line of more than ARGLEN - 1 characters, which fgets    *)
(* gives out in pieces, each of which loses its last character.            *)
(***************************************************************************)
EXTENDS Integers, Sequences, SequencesExt, FiniteSetsExt

CONSTANTS
  MAXARGS,   \* words of a command
  Commands   \* bound: the commands the user means to type, each a sequence
             \* of words; he may run one before its last word

NULL == "NULL"
JUNK == "JUNK"

TypedWords == UNION {ToSet(c) : c \in Commands}

ASSUME Psh2Assumption ==
  /\ MAXARGS \in Nat \ {0}
  /\ Commands \subseteq Seq(TypedWords)
  /\ TypedWords \subseteq STRING
  /\ NULL \notin TypedWords

VARIABLES
  arglist, numargs,
  psh,       \* prompt, run (execute was called), wait (for the child), gone
  eof,       \* has fgets returned NULL?
  child_argv,   \* the words its program was started with
  typed      \* the words typed since the last command ended

pshvars == <<arglist, numargs, psh, eof, child_argv, typed>>

PshTypeOK ==
  /\ arglist \in [0 .. MAXARGS -> TypedWords \cup {NULL, JUNK}]
  /\ numargs \in 0 .. MAXARGS
  /\ psh \in {"prompt", "run", "wait", "gone"}
  /\ eof \in BOOLEAN
  /\ child_argv \in Seq(TypedWords)
  /\ typed \in Seq(TypedWords)

PshInit ==
  /\ arglist = [i \in 0 .. MAXARGS |-> JUNK]
  /\ numargs = 0
  /\ psh = "prompt"
  /\ eof = FALSE
  /\ child_argv = <<>>
  /\ typed = <<>>

\* Wrong on purpose: while(numargs<=MAXARGS).
ReadWordOneMore(w) ==
  /\ psh = "prompt" /\ ~eof
  /\ \E c \in Commands : IsPrefix(Append(typed, w), c)
  /\ arglist' = [arglist EXCEPT ![numargs] = w]
  /\ numargs' = numargs + 1
  /\ psh' = IF numargs' <= MAXARGS THEN "prompt" ELSE "gone"
  /\ typed' = Append(typed, w)
  /\ UNCHANGED <<eof, child_argv>>

\* One more word.  The loop ends, and the program with it, when that makes
\* MAXARGS words: the command is not run.
ReadWord(w) ==
  /\ psh = "prompt" /\ ~eof
  /\ \E c \in Commands : IsPrefix(Append(typed, w), c)
  /\ arglist' = [arglist EXCEPT ![numargs] = w]
  /\ numargs' = numargs + 1
  /\ psh' = IF numargs' < MAXARGS THEN "prompt" ELSE "gone"
  /\ typed' = Append(typed, w)
  /\ UNCHANGED <<eof, child_argv>>

\* fgets returns NULL, now and each time it is called again: after the last
\* command psh2 prompts for ever.
EndOfInput ==
  /\ psh = "prompt" /\ ~eof
  /\ eof' = TRUE
  /\ UNCHANGED <<arglist, numargs, psh, child_argv, typed>>

\* Wrong on purpose: the list is not ended.
EndListUnended == psh' = "run" /\ UNCHANGED arglist

EndList ==
  /\ arglist' = [arglist EXCEPT ![numargs] = NULL]
  /\ psh' = "run"

\* An empty line, or the end of input.  Without words it changes nothing.
EmptyLine ==
  /\ psh = "prompt" /\ numargs > 0
  /\ EndList
  /\ UNCHANGED <<numargs, eof, child_argv, typed>>

\* What execvp makes of arglist: the words up to the first NULL.
Argv ==
  LET ends == {i \in 0 .. MAXARGS : arglist[i] = NULL}
      argc == IF ends = {} THEN MAXARGS + 1 ELSE Min(ends)
  IN [i \in 1 .. argc |-> arglist[i - 1]]

Fork ==
  /\ psh = "run"
  /\ psh' = "wait"
  /\ child_argv' = Argv
  /\ UNCHANGED <<arglist, numargs, eof, typed>>

ForkFails ==
  /\ psh = "run"
  /\ psh' = "gone"
  /\ UNCHANGED <<arglist, numargs, eof, child_argv, typed>>

\* wait() returns the child.
ChildEnds ==
  /\ psh = "wait"
  /\ psh' = "prompt"
  /\ numargs' = 0
  /\ child_argv' = <<>>
  /\ typed' = <<>>
  /\ UNCHANGED <<arglist, eof>>

\* ^C: neither psh2 nor what it runs ignores the signal.
Interrupt ==
  /\ psh \in {"prompt", "run", "wait"}
  /\ psh' = "gone"
  /\ UNCHANGED <<arglist, numargs, eof, child_argv, typed>>

\* A program gets the words typed since the last command, all of them and none
\* of an earlier, longer command, whose words arglist still has (main and
\* execute of psh2.c).
RunsWhatWasTyped == psh = "wait" => child_argv = typed
=============================================================================
