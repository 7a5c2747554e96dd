-------------------------------- MODULE Shell --------------------------------
(***************************************************************************)
(* smsh4: the loop that reads a line and processes it (process.c), the     *)
(* if/then/fi of controlflow.c, the builtin commands of builtin.c over the *)
(* table of varlib.c, and the fork, exec and wait of execute2.c.           *)
(*                                                                         *)
(* "if" calls process() on the rest of its line, which may start with "if" *)
(* again: pending counts the calls that wait for the result of such a call.*)
(***************************************************************************)
EXTENDS VarTable

CONSTANT MaxIfs   \* bound: how many times "if" starts one line

\* "untouched" marks, in typed, a variable the user has not given a text.
ASSUME ShellAssumption == MaxIfs \in Nat /\ "untouched" \notin Texts

VARIABLES
  if_state, if_result,
  pc,        \* where the shell is
  args,      \* the words process() has still to look at
  pending,   \* calls of do_control_command inside process(args + 1)
  rv,        \* what the last process() returned
  environ,   \* the environment the shell was started with
  child,     \* the environment of the program that runs, if one does
  condfailed,   \* did the last command of the last condition fail?
  typed      \* the text the user last gave each variable

control == <<if_state, if_result>>
ghosts == <<condfailed, typed>>
vars == <<tab, control, pc, args, pending, rv, environ, child, ghosts>>

\* prompt   waits for a line          process  at the start of process()
\* return   at the end of process()   wait     a program runs
\* hung     in a call that does not return          exited  end of input
Places_pc == {"prompt", "process", "return", "wait", "hung", "exited"}

Words ==
  [op : {"then", "fi", "set", "run", "export-nothing", "none"}]
    \cup [op : {"assign"}, name : Names, text : Texts]
    \cup [op : {"export"}, name : Names]

\* A line: some "if"s, then another word or none.  What follows that word is
\* not looked at, or goes to the program.
Lines == [ifs : 0 .. MaxIfs, word : Words]
NoLine == [ifs |-> 0, word |-> [op |-> "none"]]
NoChild == <<>>

TypeOK ==
  /\ tab \in Seq(Entries) /\ Len(tab) <= MAXVARS
  /\ if_state \in {"NEUTRAL", "WANT_THEN", "THEN_BLOCK"}
  /\ if_result \in {"SUCCESS", "FALL"}
  /\ pc \in Places_pc
  /\ args \in Lines
  /\ pending \in 0 .. MaxIfs
  /\ rv \in {-1, 0, 1}
  /\ environ \in Environs
  /\ child \in UNION {[S -> Entries] : S \in SUBSET (1 .. MAXVARS)}
  /\ condfailed \in BOOLEAN
  /\ typed \in [Names -> Texts \cup {"untouched"}]

\* setup() loads the environment and does not look at the result.
Init ==
  /\ environ \in Environs
  /\ tab = VLenviron2table(environ)
  /\ if_state = "NEUTRAL"
  /\ if_result = "SUCCESS"
  /\ pc = "prompt"
  /\ args = NoLine
  /\ pending = 0
  /\ rv = 0
  /\ child = NoChild
  /\ condfailed = FALSE
  /\ typed = [n \in Names |-> "untouched"]

ReadLine(l) ==
  /\ pc = "prompt"
  /\ pc' = "process"
  /\ args' = l
  /\ pending' = 0
  /\ UNCHANGED <<tab, control, rv, environ, child, condfailed, typed>>

EndOfInput ==
  /\ pc = "prompt"
  /\ pc' = "exited"
  /\ UNCHANGED <<tab, control, args, pending, rv, environ, child, ghosts>>

\* process(): the word at hand, and the value it returns.
At(op) == pc = "process" /\ args.ifs = 0 /\ args.word.op = op
Return(r) ==
  /\ pc' = "return"
  /\ rv' = r
  /\ UNCHANGED <<args, pending, environ, child>>

\* Inside process(args + 1) this command is the condition of an "if".
Outcome(bad) == condfailed' = IF pending > 0 THEN bad ELSE condfailed

syn_err ==
  /\ if_state' = "NEUTRAL"
  /\ Outcome(TRUE)

EmptyLine ==
  /\ At("none")
  /\ Return(0)
  /\ UNCHANGED <<tab, control, ghosts>>

\* Wrong on purpose: process(args) instead of process(args + 1).
IfSameArgs ==
  /\ pc = "process" /\ args.ifs > 0
  /\ if_state = "NEUTRAL"
  /\ condfailed' = FALSE
  /\ UNCHANGED <<tab, control, pc, args, pending, rv, environ, child, typed>>

\* "if" where it may be: process() the rest of the line.
If ==
  /\ pc = "process" /\ args.ifs > 0
  /\ if_state = "NEUTRAL"
  /\ args' = [args EXCEPT !.ifs = @ - 1]
  /\ pending' = pending + 1
  /\ condfailed' = FALSE
  /\ UNCHANGED <<tab, control, pc, rv, environ, child, typed>>

IfUnexpected ==
  /\ pc = "process" /\ args.ifs > 0
  /\ if_state # "NEUTRAL"
  /\ syn_err
  /\ Return(-1)
  /\ UNCHANGED <<tab, if_result, typed>>

Then ==
  /\ At("then") /\ if_state = "WANT_THEN"
  /\ if_state' = "THEN_BLOCK"
  /\ Return(0)
  /\ UNCHANGED <<tab, if_result, ghosts>>

Fi ==
  /\ At("fi") /\ if_state = "THEN_BLOCK"
  /\ if_state' = "NEUTRAL"
  /\ Return(0)
  /\ UNCHANGED <<tab, if_result, ghosts>>

ControlUnexpected ==
  /\ \/ At("then") /\ if_state # "WANT_THEN"
     \/ At("fi") /\ if_state # "THEN_BLOCK"
  /\ syn_err
  /\ Return(-1)
  /\ UNCHANGED <<tab, if_result, typed>>

\* ok_to_execute() for the words that are commands.
IsCommand == \E op \in {"set", "run", "assign", "export", "export-nothing"} :
               At(op)
Skipped == if_state = "THEN_BLOCK" /\ if_result = "FALL"

OkToExecute == IsCommand /\ if_state # "WANT_THEN" /\ ~Skipped

ThenExpected ==
  /\ IsCommand /\ if_state = "WANT_THEN"
  /\ syn_err
  /\ Return(0)
  /\ UNCHANGED <<tab, if_result, typed>>

Skip ==
  /\ IsCommand /\ Skipped
  /\ Return(0)
  /\ UNCHANGED <<tab, control, ghosts>>

\* The builtin commands.
SetCommand ==
  /\ At("set") /\ OkToExecute
  /\ Return(0)
  /\ Outcome(FALSE)
  /\ UNCHANGED <<tab, control, typed>>

Assign ==
  /\ At("assign") /\ OkToExecute
  /\ LET n == args.word.name
         x == args.word.text IN
       /\ VLstore(n, x)
       /\ Return(IF VLstoreFails(n) THEN 1 ELSE 0)
       /\ Outcome(VLstoreFails(n))
       /\ typed' = IF VLstoreFails(n) THEN typed ELSE [typed EXCEPT ![n] = x]
  /\ UNCHANGED control

Export ==
  /\ At("export") /\ OkToExecute
  /\ LET n == args.word.name IN
       /\ ~VLexportNeverReturns(n)
       /\ VLexport(n)
       /\ Return(VLexportResult(n))
       /\ Outcome(VLexportResult(n) # 0)
       /\ typed' = IF Found(n) THEN typed ELSE [typed EXCEPT ![n] = ""]
  /\ UNCHANGED control

ExportHangs ==
  /\ At("export") /\ OkToExecute
  /\ VLexportNeverReturns(args.word.name)
  /\ pc' = "hung"
  /\ UNCHANGED <<tab, control, args, pending, rv, environ, child, ghosts>>

\* "export" with no name, or with one that okname() refuses.
ExportNothing ==
  /\ At("export-nothing") /\ OkToExecute
  /\ Return(1)
  /\ Outcome(TRUE)
  /\ UNCHANGED <<tab, control, typed>>

\* execute(): any other word, "1x=y" whose name is not legal included.
ForkFails ==
  /\ At("run") /\ OkToExecute
  /\ Return(-1)
  /\ Outcome(TRUE)
  /\ UNCHANGED <<tab, control, typed>>

\* The child builds its environment from its copy of the table.
Fork ==
  /\ At("run") /\ OkToExecute
  /\ pc' = "wait"
  /\ child' = VLtable2environ
  /\ UNCHANGED <<tab, control, args, pending, rv, environ, ghosts>>

\* The program ends by itself, is killed from the terminal, or could not be
\* started and its process exits with 1.
ChildEnds(bad) ==
  /\ pc = "wait"
  /\ child' = NoChild
  /\ pc' = "return"
  /\ rv' = IF bad THEN 1 ELSE 0
  /\ Outcome(bad)
  /\ UNCHANGED <<tab, control, args, pending, environ, typed>>

\* Wrong on purpose: the result of the condition is turned round.
IfReturnsInverted ==
  /\ pc = "return" /\ pending > 0
  /\ if_result' = IF rv = 0 THEN "FALL" ELSE "SUCCESS"
  /\ if_state' = "WANT_THEN"
  /\ pending' = pending - 1
  /\ rv' = 0
  /\ UNCHANGED <<tab, pc, args, environ, child, ghosts>>

\* process(args + 1) has returned to do_control_command.
IfReturns ==
  /\ pc = "return" /\ pending > 0
  /\ if_result' = IF rv = 0 THEN "SUCCESS" ELSE "FALL"
  /\ if_state' = "WANT_THEN"
  /\ pending' = pending - 1
  /\ rv' = 0
  /\ UNCHANGED <<tab, pc, args, environ, child, ghosts>>

LineDone ==
  /\ pc = "return" /\ pending = 0
  /\ pc' = "prompt"
  /\ args' = NoLine
  /\ UNCHANGED <<tab, control, pending, rv, environ, child, ghosts>>

ProcessLine ==
  \/ EmptyLine \/ If \/ IfUnexpected \/ Then \/ Fi \/ ControlUnexpected
  \/ ThenExpected \/ Skip
  \/ SetCommand \/ Assign \/ Export \/ ExportHangs \/ ExportNothing
  \/ ForkFails \/ Fork
  \/ IfReturns \/ LineDone

Next ==
  \/ \E l \in Lines : ReadLine(l)
  \/ EndOfInput
  \/ ProcessLine
  \/ \E bad \in BOOLEAN : ChildEnds(bad)

Spec == Init /\ [][Next]_vars

\* The shell runs when it can, and the programs it starts come to an end.
\* Nobody has to type a line.
FairSpec ==
  /\ Spec
  /\ WF_vars(ProcessLine)
  /\ WF_vars(\E bad \in BOOLEAN : ChildEnds(bad))

-----------------------------------------------------------------------------
Initial(n) == {i \in DOMAIN environ : environ[i].name = n}

\* The text a child should find in a variable: what was last assigned to it,
\* or what the shell was started with.
TextOf(n) == IF typed[n] # "untouched" THEN typed[n]
             ELSE environ[CHOOSE i \in Initial(n) : TRUE].text

\* A program finds every variable that the shell was started with (if the table
\* had room for them all), and each variable it finds is there once, with the
\* text last given to it, however assignments, exports and conditions came
\* before (VLstore and VLexport over find_item, then VLtable2environ in the
\* child).  Only a text that was typed in has the space in front that
\* new_string puts there.
ChildEnvironment ==
  pc = "wait" =>
    /\ Len(environ) <= MAXVARS => \A n \in Names :
         Initial(n) # {} => \E i \in DOMAIN child : child[i].name = n
    /\ \A i \in DOMAIN child :
         /\ child[i].text = TextOf(child[i].name)
         /\ child[i].space => typed[child[i].name] # "untouched"
         /\ \A j \in DOMAIN child : child[i].name = child[j].name => i = j

\* Inside "then ... fi" commands change variables or start programs only if
\* the last command of the condition succeeded, and are passed over only if
\* it failed (if_result as do_control_command leaves it and ok_to_execute
\* reads it, over several lines).
CommandsFollowCondition ==
  [][IsCommand /\ if_state = "THEN_BLOCK" =>
       IF condfailed THEN pc' = "return" /\ UNCHANGED tab
       ELSE ~Skip]_vars

\* Every line that is read is brought to an end and the shell prompts again (no
\* process() call and no wait() in it lasts for ever), but for one place: the
\* call of VLexport for a new name when the table is full.
PromptReturns ==
  pc = "process" ~> pc = "prompt" \/ (pc = "hung" /\ Full)

\* The array implements the store of variables.
InUse == {tab[i].name : i \in DOMAIN tab}
StoredAs(n) == [text |-> tab[FindItem(n)].text, global |-> tab[FindItem(n)].global]
Store == INSTANCE VarStore WITH Room <- MAXVARS,
                                store <- [n \in InUse |-> StoredAs(n)]

\* The table is a bounded map from names to a text and a mark that is never
\* taken back, whatever order variables are added, replaced and exported in.
ImplementsStore == Store!StoreSpec
=============================================================================
