------------------------------- MODULE Session -------------------------------
(***************************************************************************)
(* A user at psh2 (Psh2) who runs programs of this repository: my_ls       *)
(* (DirList), tinybc (TinyBc), and rls or timecInt (StreamServer), whose   *)
(* server other clients call at the same time.                             *)
(*                                                                         *)
(* psh2 waits in wait() for the program it started; the program has the    *)
(* terminal and the words psh2 passed.  A ^C ends both.                    *)
(***************************************************************************)
EXTENDS Psh2, DirList, TinyBc, StreamServer

CONSTANTS
  Here,        \* the client that is started from psh2, if one is
  CommandsOf,  \* bound: for each server, the commands typed while it runs
  AsksOf       \*    and the names other clients ask it for

ASSUME SessionAssumption ==
  /\ Here \in Clients
  /\ CommandsOf \in [Servers -> SUBSET Commands]
  /\ AsksOf \in [Servers -> SUBSET Dirs]
  /\ \A c \in Commands :
       Len(c) >= 3 /\ c[1] \in {"rls", "timecInt"} => c[3] \in Dirs

\* What psh2's child is: none, exec (it has not called execvp yet), my_ls,
\* tinybc, client, ended.
VARIABLE program

vars == <<pshvars, program, lsvars, bcvars, streamvars>>

TypeOK ==
  /\ PshTypeOK
  /\ LsTypeOK
  /\ BcTypeOK
  /\ StreamTypeOK
  /\ program \in {"none", "exec", "my_ls", "tinybc", "client", "ended"}
  /\ psh = "wait" <=> program # "none"

Init ==
  /\ PshInit
  /\ LsInit
  /\ BcInit
  /\ StreamInit
  /\ program = "none"

ClientName == IF server = "timeserv" THEN "timecInt" ELSE "rls"

-----------------------------------------------------------------------------
(* psh2 at its prompt, and its child *)

\* The terminal's user types.  Here is a client that is started once.
Type ==
  /\ \E c \in CommandsOf[server] :
       /\ IsPrefix(typed, c) /\ Len(typed) < Len(c)
       /\ c[1] = ClientName => client[Here] = "idle"
       /\ ReadWord(c[Len(typed) + 1])
  /\ UNCHANGED <<program, lsvars, bcvars, streamvars>>

EndTyping ==
  /\ EndOfInput \/ EmptyLine
  /\ UNCHANGED <<program, lsvars, bcvars, streamvars>>

Execute ==
  /\ \/ Fork /\ program' = "exec"
     \/ ForkFails /\ UNCHANGED program
  /\ UNCHANGED <<lsvars, bcvars, streamvars>>

Runs(name) == program = "exec" /\ child_argv[1] = name

ExecMyLs ==
  /\ Runs("my_ls")
  /\ program' = "my_ls"
  /\ LsStart(Tail(child_argv))
  /\ UNCHANGED <<pshvars, bcvars, streamvars>>

ExecTinyBc ==
  /\ Runs("tinybc")
  /\ program' = "tinybc"
  /\ BcStart \/ BcOops
  /\ UNCHANGED <<pshvars, lsvars, streamvars>>

\* A host, and the directory, or the port number in its place.
ExecClient ==
  /\ Runs(ClientName) /\ Len(child_argv) = 3
  /\ program' = "client"
  /\ Dial(Here, child_argv[3])
  /\ UNCHANGED <<pshvars, lsvars, bcvars>>

\* execvp finds no such program, or it ends when it looks at its words.
ExecEnds ==
  /\ program = "exec"
  /\ \/ child_argv[1] \notin {"my_ls", "tinybc", ClientName}
     \/ child_argv[1] = ClientName /\ Len(child_argv) # 3
  /\ program' = "ended"
  /\ UNCHANGED <<pshvars, lsvars, bcvars, streamvars>>

ProgramExits ==
  /\ \/ program = "my_ls" /\ ls = "exit"
     \/ program = "tinybc" /\ bc = "exit"
     \/ program = "client" /\ client[Here] \in {"done", "failed", "killed"}
  /\ program' = "ended"
  /\ UNCHANGED <<pshvars, lsvars, bcvars, streamvars>>

\* What a process had in memory is gone with it.
ForgetPrograms ==
  /\ program' = "none"
  /\ LsForget
  /\ BcForget

Wait ==
  /\ program = "ended"
  /\ ChildEnds
  /\ ForgetPrograms
  /\ UNCHANGED streamvars

ControlC ==
  /\ Interrupt
  /\ ForgetPrograms
  /\ IF program = "client" /\ client[Here] \notin {"done", "failed", "killed"}
     THEN Kill(Here)
     ELSE UNCHANGED streamvars

-----------------------------------------------------------------------------
(* The programs *)

MyLs == LsNext /\ UNCHANGED <<pshvars, program, bcvars, streamvars>>
Bc == BcStep /\ UNCHANGED <<pshvars, program, lsvars, streamvars>>
Dc == DcStep /\ UNCHANGED <<pshvars, program, lsvars, streamvars>>
Server == ServerStep /\ UNCHANGED <<pshvars, program, lsvars, bcvars>>
Client(c) == ClientStep(c) /\ UNCHANGED <<pshvars, program, lsvars, bcvars>>

\* Somebody starts or kills a client elsewhere.
Elsewhere ==
  /\ server # "none"
  /\ \E c \in Clients \ {Here} :
       (\E d \in AsksOf[server] : Dial(c, d)) \/ Kill(c)
  /\ UNCHANGED <<pshvars, program, lsvars, bcvars>>

Next ==
  \/ Type \/ EndTyping \/ Execute \/ ExecMyLs \/ ExecTinyBc \/ ExecClient
  \/ ExecEnds \/ ProgramExits \/ Wait \/ ControlC
  \/ MyLs \/ Bc \/ Dc \/ Server \/ (\E c \in Clients : Client(c)) \/ Elsewhere

Spec == Init /\ [][Next]_vars

\* Every process that can go on does; so the user of tinybc ends his input, and
\* a client that has called sends its line.  Nobody has to type at psh2.
Process ==
  Execute \/ ExecMyLs \/ ExecTinyBc \/ ExecClient \/ ExecEnds \/ ProgramExits
  \/ Wait \/ MyLs

FairSpec ==
  /\ Spec
  /\ WF_vars(Process) /\ WF_vars(Bc) /\ WF_vars(Dc) /\ WF_vars(Server)
  /\ \A c \in Clients : WF_vars(Client(c))

-----------------------------------------------------------------------------
\* psh2 gets back from each command to its prompt, or ends, whatever program
\* it runs and whatever becomes of dc, of the server and of other clients;
\* except that tinybc may wait for ever for a dc that writes to a full pipe
\* (close(out[2]) in be_dc left out[0] open).
PromptReturns == psh = "wait" ~> (psh # "wait" \/ DcStuck)
=============================================================================
