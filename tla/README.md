# Specifications of unix-linux-study

TLA+ specifications of the programs in this repository: a collection of small
Unix programs written along a book on systems programming. They share hardly
any code, so there is no one machine to model: each program with processes,
threads, signals, datagrams, pipes or connections is a system of its own, and
the interesting behaviour is in how the parts of that system overlap.

Contents: [inventory](#inventory), [modules](#modules-and-how-they-correspond-to-the-code),
[runs](#runs), [fairness](#fairness), [proofs](#proofs), [not modelled](#not-modelled),
[plan](#plan).

To check: `tlc -config X.cfg M` for the pairs in the table of runs,
`tlapm M.tla` for the modules whose name ends in `Proofs`.

## Inventory

Paths are relative to `src/`.

| part | code | state it keeps | operations | what interacts, and how |
|---|---|---|---|---|
| license server, version 2 | `datagram/lserv2.c`, `lserv_funcs2.c` | `ticket_array`, `num_tickets_out`, the alarm | HELO, GBYE, VALD, the SIGALRM handler `ticket_reclaim` | request loop and signal handler share the table; the alarm is switched off around a request |
| license server, version 1 | `datagram/lserv1.c`, `lserv_funcs1.c` | the same table and count | HELO, GBYE | one process, one request at a time |
| licensed program | `datagram/lclnt1.c`, `lclnt_funcs1.c` | `have_ticket`, `ticket_buf` | get a ticket, work, release it | datagrams to the server; may die anywhere, its pid is used again |
| datagram tools | `datagram/dgram.c`, `dgsend*.c`, `dgrecv*.c`, `logfile*.c` | none | send, receive | `dgsend` can send the license server any text |
| word counters | `thread/twordcount1.c` to `3.c` | a shared or an own counter, a mutex | count a file, join, print | threads over one counter |
| word counter with a mailbox | `thread/twordcount4.c` | `mailbox`, mutex, condition variable | count, put, take, join | both sides wait on one condition variable |
| pipelines | `IO/pipe.c`, `pipe3.c`, `pipeAnyArgc.c` | which ends of which pipes each process has open | pipe, fork, dup2, close, exec | end of input and SIGPIPE depend on the descriptors of all processes |
| shell | `my_shell/smsh4.c`, `process.c`, `controlflow.c`, `builtin.c`, `varlib.c`, `execute2.c`, `splitline.c` | `tab`, `if_state`, `if_result` | assign, export, set, if/then/fi, run a program | `if` calls `process` again inside `process`; children get the exported variables |
| web server | `web/webserv.c`, `socklib.c` | the request buffer, descriptors | accept, read, fork, answer | children that do not exit go on as servers |
| stream servers and clients | `socket/timeserv.c`, `rlsd.c`, `rls.c`, `timecInt.c` | a listening socket, the caller's connection | accept, read a name, run `ls`, write, hang up | one caller after the other, the rest wait in the queue; any of them may go at any moment |
| calculator front end | `socket/tinybc.c` | two pipes | read a line, ask `dc`, print | two processes, a line each way; `dc` keeps a stack |
| prompting shell | `my_sh/psh2.c` | `arglist`, `numargs` | a word, an empty line, fork, wait | starts the programs below and above, and waits for them |
| ls | `my_ls/test.c` | the array `L.files`, `buf` | options, read, stat, sort, print | sequential; what one directory leaves is there for the next |
| demos | the rest of `IO`, `thread`, `my_shell`, `my_sh`, `socket` | | one system call each | |

### What is hard, and what makes each part correct

* **License server, version 2.** A signal handler that changes what the main
  loop changes, an alarm that is read and written by both, clients that die with
  a ticket, pids that come back, requests that get lost, a server that is started
  again. Correct when the count agrees with the table, a slot is lent to one
  process at a time, a living process keeps its ticket, and the slot of a dead
  process becomes free.
* **License server, version 1.** The same without the handler, on the same
  abstract pool: what is lost with a dead client stays lost.
* **Word counters.** Lost updates of `total_words++`. Correct when the total is
  what the threads have counted.
* **Mailbox.** One condition variable for two conditions, `if` instead of `while`
  around the wait. Correct when every report is taken once and `main` returns.
* **Pipelines.** Descriptors inherited by processes that do not use them. Correct
  when all commands come to an end.
* **Shell.** Control words in a recursive call whose result is written over by
  the caller; a bounded table. Correct when blocks follow their condition,
  programs get the variables last given to them, and the prompt comes back.
* **Web server.** A static buffer that outlives its request, children that return
  into the loop of the parent. Correct when each client gets one reply, to its
  own request, and its connection is closed.
* **Stream servers.** A caller that goes, before it has sent its line or while it
  is being answered; a caller that cannot tell a server that ended from the end of
  the answer. Correct when a server goes on whatever its callers do, and who was
  served got all of his answer.
* **Calculator.** One line for each question with a partner that may print more,
  that remembers, and that holds an end of a pipe it should have closed. Correct
  when each answer is printed to its own question and both processes end.
* **psh2.** A list of words at its limit, and the words of the command before.
  Correct when a program gets the words typed for it, and the prompt comes back.
* **ls.** A sort stopped by a sentinel, in an array that keeps what was in it.
  Correct when every name is printed once, in order, with its own attributes.

## Modules and how they correspond to the code

`X` named in a comment as *Wrong on purpose* is a plausible mistake in the
operator after it: exchanging the two must make a property fail, which shows that
the property says something about that code. Nothing else uses these operators.

**LicenseClient** - the licensed program and the sockets. One action for each
system call boundary of `get_ticket` and `release_ticket`: `GetTicket`/`GotTicket`
/`NoTicketForMe`, `ReleaseTicket`/`ReleaseReply`; `Killed` at any moment.
`Dgsend` sends one of `Texts`, a constant: a request of any type, for a pid of `Pids` or for 0 (which is
also what `atoi` makes of a word), with a slot of the table or with none (`NoSlot`: `sscanf` finds no
two numbers). The history variable `byhand` remembers that a `HELO` or a `GBYE` was sent that way. The server's socket is a FIFO of `QueueCap` datagrams
that drops what does not fit; each client has a socket of its own. A process is
born with any free pid, so pids are used again as soon as they are free. A ticket
is the pair of pid and slot that `"%d.%d"` prints; `ep` is a history variable (which
server process printed it) that no guard reads. `Validate...` is the client of
version 2, which the repository does not contain: it is modelled from the request
the server handles, and external.

**LicenseServer** - version 2, at the grain of the accesses to what the handler
shares: `main` goes through `spc` (`recv`, `got`, `dispatch`, ... `rearm`);
`num_tickets_out++` is a load and a store (`HelloLoad`, `HelloStore`). `armed` and
`pending` are the kernel's timer and signal, `hi` is the handler's loop variable.
`Expire` is the kernel's timer, `Deliver_SIGALRM` enters the handler before any
instruction of `main` (inside `recvfrom` too), `ReclaimSlot` is one turn of its loop,
`ReclaimDone` sets the alarm again. `AlarmOff` is `alarm(0)`, `AlarmOffTooLate` the same
call when the timer ran out while the kernel executed it, `AlarmBackOn` is
`alarm(time_left)`. `Crash` and `StartServer` are the life of the process. The constant
`AlarmRace` permits the signal inside `alarm(0)`. With it the timer can also run out
while a request is handled, if the server is stopped there for 60 seconds; the
history variable `stalled` remembers that this has happened, and what is false from
then on is stated for `~stalled`.

**LicenseTable** - what both servers keep, the table of tickets, its count and the request at
hand, with what is stated of both. `TicketInBuf` is the test of `do_goodbye` and `do_validate`.

**LicenseServer1** - version 1: a request is one action for each outcome.

**LicensePool** - what both servers promise: a pool of slots. Both state
`ImplementsPool` with `issued` mapped to the taken slots and `working` to the living
processes at work with a ticket of the running server, up to the first step of `byhand`.

**WordCount** - the counting of all four `twordcount` programs; `version`, one of
`Versions`, is chosen in `Init`. A file is the sequence of `isalnum(c)`. The `main` of
`twordcount2.c` returns before it creates a thread; its `count_words` is run by the
`main` of version 1.

**Twordcount** - extends WordCount by the mailbox of `twordcount4.c` and composes the
programs. A word is the pair of its thread and the place behind its end; totals are compared
with the number of words in `AllAdded`.
It has an explicit mutex and set of waiters; `pthread_cond_signal` wakes one of the
waiters, if there is one. `spurious`, chosen in `Init`, says whether waits may end without a
signal, as POSIX allows.

**Pipeline** - the three programs; `program`, one of `Programs`, is chosen in `Init`,
`AnyArgc` is the number of commands given to `pipeAnyArgc`. State: for each command's
process its standard input and output and the *extra* pipe ends it still has open.
`FirstSplit`, `SecondSplit`, `AnySplit` are one fork with the closes and dup2s after
it on both sides (between them nothing else looks at the descriptors). The commands
are external: a command that cannot be run at all is, for the last place, one that stops
at once (`wanted` 0). The first writes `Items` items, the others copy, possibly after
having read everything (`sorts`), the last reads `wanted` items, or all of them if
the program is not in `EarlyStop`.

**VarTable, VarStore** - `varlib.c`, and the bounded store it promises to be.
`VLexportResult` says what the caller sees, `VLexportNeverReturns` when it sees nothing:
`VLexport` then calls itself again and again, until the stack overflows if the compiler has not made
a loop of it.

**Shell** - `smsh4`. A line is a number of `if`s and one more word; `process` is called
again once for each `if` (`If`), and `IfReturns` is what each caller does with the
result. `Fork` gives the child `VLtable2environ`, the marked entries by their place in the table;
`ChildEnds` is its exit status.
`condfailed` and `typed` are history variables.

**WebServer** - `main`'s loop in every process that runs it (`Accept`, `ReadLine`,
`ReadTilCrnl`, `ProcessRq`/`ForkFails`, `CloseCall`) and the child's part of `process_rq`
(`Child`: `NotTwoWords`, `Refuse`, `RunProgram`, `LsFails`, `CgiFails`, `DoCat`). `fd` and `out`
are the connections behind a process's `fd` and its descriptors 1 and 2, `request` is
the line in its buffer, by the client it came from. A client calls once, and the
child forked for it has its name. Whatever a server prints goes at once to its
descriptor 1, as it does when it was started from a terminal.

**Psh2** - `psh2.c`. `ReadWord` is one turn of its loop with a word, `EmptyLine` one that calls
`execute`; `Fork` makes `child_argv` of `arglist` as `execvp` does, up to the first `NULL`.
Entries nothing was stored in are `JUNK`. `typed` is a history variable.

**DirList** - `my_ls`. `Getopt` takes one word of the command line. The eight functions are one
sequence of steps, `Readdir`, `LsSort`, `LsSorted`, `LsPrint`, which differ in `Shown`, `Stat` and `First`.
`LsSort` is one turn of the outer loop of `ls_sort`, `Insert` what it makes of the array. An
entry is a name and what `stat` said; `Stat` gives what is in `buf`, which may be about an earlier name.

**TinyBc** - `tinybc.c`: `Bc...` are the steps of `be_bc`, `Dc...` those of `dc`, which is external but for
its start in `be_dc`. `DcStart` and `DcStartFails` are what `close(out[2])` may do, which reads behind an array: in
builds without optimisation the number found there was no open descriptor, in others it was
`dc`'s standard input. `Power` is `^` as `dc` has it, with 0^0 = 1. `longanswer` is a history variable.

**StreamServer** - `timeserv` or `rlsd` (`server`, chosen in `Init`), and as clients `timecInt` or `rls`. `Sanitize`
is the copying loop of `sanitize()`. `srv` is where
the server is, `caller` whom it serves, `client` where each client is. `got` is what was
written to its connection. `Kill` ends a client anywhere; a server that writes once more after a write to
a caller who was gone may get a SIGPIPE (`BrokenPipe`) or not.

**Session** - composes the last four: a user at `psh2` who runs `my_ls`, `tinybc`, and `rls` or
`timecInt` (the client `Here`) while others call the same server. `program` is what `psh2` waits
for; `ControlC` ends it and `psh2`.

**MCLicenseServer, MCLicenseServer1** - the symmetry of the clients.
**MCTwordcount, MCSession** - files, commands, directories, requests. The other modules are
checked as they are.

**LicenseClientProofs, LicenseServer1Proofs, LicenseServerProofs, TwordcountProofs, PipelineProofs,
ShellProofs, WebServerProofs, SessionProofs** - see [Proofs](#proofs).

## Runs

Runs that pass, with the module each checks:

| run | module | shows | bounds, and why they suffice |
|---|---|---|---|
| `License1` | `MCLicenseServer1` | until a `HELO` or a `GBYE` is typed by hand version 1 implements the pool, its count is right and every THNX is true | 4 clients, 3 pids, 2 slots, 2 starts: pids are used again, tickets of one server meet the table of the next; six texts for `dgsend`, right, wrong and with pid 0 |
| `LicenseSafety` | `MCLicenseServer` | version 2, until a `HELO` or a `GBYE` is typed by hand: count and table agree and the sanity check holds unless a request was stalled; at most `MAXUSERS` programs for each server process, answers are true and the pool is implemented even then | 3 clients, 2 pids, 1 slot, 3 starts, the signal inside `alarm(0)`: a dead holder beside two that want its slot, a slot that is taken again after a restart; five texts for `dgsend` |
| `LicenseReclaim` | `MCLicenseServer` | without that race dead tickets are reclaimed and requests are answered, whatever is typed by hand; living ones are not reclaimed, until a `HELO` or a `GBYE` is | 2 clients, 2 slots, 2 starts: a dead holder beside a living one; no symmetry, since liveness is checked |
| `Twordcount` | `MCTwordcount` | version 1 never exceeds what was counted, and ends at 2 or more when two threads added two each; version 2 loses no update and is exact at every moment; version 4 adds every report once, overwrites none and its `main` returns, if waits end by signals only, and otherwise still adds none twice and prints no total too early; all print and end | 2 threads (no program has more); all files up to 3 characters, and one where two words end: what makes lost updates visible |
| `PipeEnd` | `Pipeline` | what is written arrives and all commands end: both commands of `pipe` and `pipeAnyArgc`, the reader stopping anywhere, and the three of `pipe3` | pipes of 2 items, 6 written: every writer blocks; a fork fails once |
| `ShellLines` | `Shell` | programs find what was last given to each variable; the table implements the store; blocks follow their condition; the prompt comes back | 3 names for 2 entries: full tables, repeated and failing assignments, environments that do not fit; one `if` a line, any sequence of lines |
| `WebCalls` | `WebServer` | who sends a line gets the reply to it, and only that, from whichever of the servers takes the call; calls end | 2 clients, all kinds of request, clients that hang up, a fork and programs that fail: the first call may leave a stray server that takes the second |
| `Session` | `MCSession` | a program gets the words typed for it and no older ones; `my_ls` prints each name once, in order, with its attributes in the current directory; `tinybc` prints the answer to the last question unless one took several lines; who was served by `rlsd` got the whole listing; `timeserv` never ends and `rlsd` only for three reasons; the prompt comes back, but for one reason | a full command and one that is too long, each command after each other; two directories in any order of reading; 3 questions of 7 kinds, among them an answer that fills the pipe; 3 clients with 1 place in the queue (one served, one queued, one in `connect`), answers of 0 to 2 blocks: a client may go before, between and after them |

Runs in which the code does something else than a text of the repository says; the
counterexamples are short and the text is quoted in `PROJECT.json`:

| run | module | what happens |
|---|---|---|
| `LicenseAlarmRace` | `MCLicenseServer` | SIGALRM pending at the return of `alarm(0)`: the handler sets the alarm again, and a request is handled with the alarm on |
| `LicenseByHand` | `MCLicenseServer` | `GBYE 0 . 0` from `dgsend` gives back a slot that is free, as 0 marks free slots: the count is one too low from then on, and the sanity check of `do_hello`, which "should never happen", fails |
| `PipeAnyThree` | `Pipeline` | with three commands a reader holds a later pipe's write end: no end of input |
| `WebSilent` | `WebServer` | the first client is served; the second hangs up without a line and is sent the first one's file |

Other places where the programs do not do what one would expect. The models
behave as the code does there, and the properties say what holds in spite of it:

* After the race of `LicenseAlarmRace`, `alarm(time_left)` with `time_left` 0 cancels the
  alarm that the handler has set, and nothing is reclaimed any more. So liveness is
  stated with `AlarmRace` FALSE.
* A license server stopped for an interval in the middle of a request runs the handler over a
  half-made change: count and table disagree, and "should never happen" happens. `CountMatchesTable` and
  `NeverCorrupt` are stated for `~stalled`; `WithinLicense`, `AnswersTrue` and
  `ImplementsPool` hold in any case.
* Nothing tells the license server a text typed with `dgsend` from a client's request. A `HELO` for pid 0
  takes a ticket and no slot, a `GBYE` for pid 0 gives back a slot that was free, a `GBYE` with the ticket of a
  process that works frees its slot, and more than `MAXUSERS` work. So what is stated of tickets and of the count is
  stated for `~byhand`: only such a text, and a stall, can break it. Types, answers to every request,
  reclaiming and the alarm do not depend on it.
* A word that ends with its file is not counted; what the totals are compared with is what
  `count_words` has counted (`Added`).
* If a wait ends without a signal, `main` of `twordcount4` reads a report through a null
  mailbox. What is stated for `spurious` too is that no report is added twice, and that no total is
  printed before all are.
* `pipe3 yes cat head`: the first command holds the read end of the second pipe, so all
  hang when the last one stops early, or cannot be run at all. `pipe3` is not in `EarlyStop`.
* `if if command` on one line: `do_control_command` returns 0 for the inner `if` whatever the command
  returned, so the outer condition succeeds and the block is run. `help.md` leaves open whether `if`s may be
  nested; `CommandsFollowCondition` is stated for one `if` a line (`MaxIfs`).
* `if then` on one line: after the error message the shell is left waiting for `then`. The
  lines after it are in the run like any others.
* Exporting a new name adds it and does not mark it; into a full table `VLexport` never
  returns. The store has `Add` for the first, `PromptReturns` excepts the second.
* Of an environment larger than the table the rest is dropped: `ChildEnvironment` asks for
  all of it only if it fits.
* An assigned text gets a space in front in the child's environment:
  `ChildEnvironment` allows it for assigned texts and no others.
* A child of the web server that has refused a request, or could not run its program, does not
  exit but takes calls of its own, in the second case with its client as its output.
  `AnswerFits` excepts what such a client gets after its own reply, `CallsEnd` that its
  connection stays open.

* The word that makes `MAXARGS` ends `psh2`, and the command is not run. At the end of its input
  `psh2` prompts for ever (`EndOfInput`).
* `my_ls -l` prints a first line for entry 0 of its array, which is zeros or what the last sort left
  there: `Listed` leaves it out. `stat` is called with the bare name, so in another directory a line has the
  attributes of the file of that name in the current one, or those of the name before:
  `OwnAttributes` is about the current directory. More than `MAXSIZE` names are written behind
  the array: `DirListAssumption` excludes them.
* A client of `rlsd` that goes before its line ends the server, one that goes during a long
  listing may (SIGPIPE), and so does a `popen` that fails. `rls` takes each for the end of its
  listing. `WholeReply` is stated while the server runs, `ServerLives` lists the reasons.
* After an answer of several lines `tinybc` prints each answer one question late, as the head of
  `tinybc.c` warns: `AnswersInStep` is stated for `~longanswer`. A sign is an operator of `dc`, and a
  division by zero prints the divisor: the value is compared for other questions (`Plain`).
* `dc` keeps a read end of the pipe it writes, since `be_dc` closes `out[2]` for `out[0]`. When an
  answer does not fit into that pipe and the user ends his input, `dc` and `tinybc` wait for ever:
  `DcStuck`, which `PromptReturns` excepts, and nothing else.

`CHECK_DEADLOCK FALSE` everywhere: these systems stop when all clients, threads, commands
or lines are used up.

Bounds named in the modules: `MaxStarts`, `QueueCap` (LicenseClient), `Files` (WordCount),
`Items`, `Cap`, `MaxFails` (Pipeline), `MaxEnviron` (VarTable), `MaxIfs`
(Shell), `Backlog`, `MaxFails` (WebServer), `Commands` (Psh2), `Requests`, `MaxRequests` (TinyBc), `Dirs`
(StreamServer), `CommandsOf`, `AsksOf` (Session). `psh2` starts one network client in a session.
In the run a pipe holds 3 lines and a number from 10 on takes a second line. Clients that run once stand for any number of them only
as far as the interplay of two or three goes; the theorems below have no bound.

## Fairness

* **License server.** `WF` of the handler: once it runs, it goes on. `SF` of `main`: it
  cannot move while the handler runs, but that takes microseconds in every 60 seconds.
  `SF` of `Expire`: the timer is stopped and started with the seconds that were left, so
  it runs out in the end, unless all requests follow each other within half a
  second, since `alarm` rounds the seconds left. Nobody has to crash or restart the
  server, and no client has to do anything.
* **Threads, commands, processes.** `WF` of each: the scheduler runs who can run. For the
  mutex of `Twordcount` no more is needed because it is wanted finitely often. The commands of
  a pipeline read, write and end.
* **Shell.** The programs it runs end; nobody has to type a line.
* **Web server.** Clients that have called send their request or hang up, as the server
  has no timeout; nobody has to call.
* **Session.** `WF` of each process. So the user of `tinybc` ends his input at last, and clients that have called
  send their line; `rlsd` has no timeout either. Nobody has to type at `psh2`, to call or to
  kill. A client in `connect` needs no more than `WF` as each calls once.

## Proofs

Every invariant the runs check, every action property and both refinements are also theorems: of
`Spec`, without fairness, for every value of the constants that the modules' assumptions
admit. So they hold for any number of clients, pids, slots, queue places, restarts, threads,
commands of a pipeline, variables, names in a directory, and so on.

What the theorems assume besides:

| theorem | hypothesis | why |
|---|---|---|
| `RacyTheorem` | `Threads # {}` | `twordcount1.c` makes two; a program without threads has a total of 0 |
| `OverwriteTheorem` | `Cardinality(Threads) <= 2` | `twordcount4.c` makes two; a third would put its report over that of a second |
| `ConditionTheorem` | `MaxIfs <= 1` | the condition is then a command; of `if if command` the code forgets how the command ended |
| `AlarmTheorem` | `~AlarmRace` | with the signal inside `alarm(0)` it is false: the run `LicenseAlarmRace` |

### License servers

`LicenseClientProofs` has what the clients and the sockets preserve, whichever server answers, once
for both. Its `ServiceInv` is what makes tickets mean something although pids come back:

* `LineInv`: a client has one request under way at most (`OneAtATime`), which is the one its state says
  (`OwnRequests`), and one answer at most (`OneAnswer`); two living clients have two pids
  (`DistinctPids`); and `OldRequests`: when a new process has got the pid of a dead one, what the dead
  one sent is in the queue *before* the HELO of the new one, or the HELO was lost. Without that
  order a GBYE of the dead process could free the slot of the new one, and neither
  `HolderKeepsTicket` nor `AnswersTrue` would be inductive.
* `TicketInv`: a ticket that was given and is not being given back is on the books of the server process
  that printed it (`OnTheBooks`); of a ticket of an earlier process the books say nothing that it could
  be mistaken for. `OneHolder`: no slot is on two tickets of one server process.
* `LifeInv`: no table without a server.

`KeepsBooks` and `DueReply` are what a step of a server owes to its clients for this to stay.

`ServiceInv` is an invariant as long as no `HELO` or `GBYE` is sent with `dgsend`: with one, all of it that is about the
table may break. `DgsendRequest` and `ChangesTable` say that any other text leaves the table alone, and
`ByHandStays` that `byhand` is for good; so what is proved inductive is `ByHandInv`: the types, and the
rest for `~byhand`. Then:

* `LicenseServer1Proofs`, with `ServerInv` (the count is that of the slots taken; who is about to be
  freed, `ByeInv`, still is on the books): `TypeTheorem`, `CountTheorem`, `AnswersTheorem`,
  `LicenseTheorem` and `PoolRefinement`.
* `LicenseServerProofs!TypeTheorem`, with `TypeInv`, which adds that living clients have a pid
  and that `buf` and `response` hold a request and a reply where they are used.
* `LicenseServerProofs!CountTheorem` and `SanityTheorem` (`CountMatchesTable`, `NeverCorrupt`).
  `CountInv` says how far the count is off at each place of `main` (`CountOffset`), what the register
  holds, what `do_hello` knows of its slot, and that the handler does not run, and no signal is
  pending, from the first instruction after dispatch to the end of the request. The last part holds
  although the signal may come inside `alarm(0)`, since the handler then runs before the request is
  dispatched, and the alarm it sets runs out before the request is over only if the request is
  stalled. Nothing holds of count and table once a request was stalled (`StalledStays`) or the table was changed
  by hand, so the invariant proved is `Unstalled`: the types, and `CountInv` for `~stalled /\ ~byhand`.
* `AnswersTheorem`, `HolderTheorem`, `LicenseTheorem`, `PoolRefinement` (`AnswersTrue`,
  `HolderKeepsTicket`, `WithinLicense`, `ImplementsPool`) hold of a stalled server too, until `byhand`. `AnswerInv` is
  `ServiceInv` and `BusyInv`: what is known of the slot and the answer (`Due`) at each place of
  `handle_request`, in spite of what the handler frees meanwhile.
* `AlarmTheorem`: without the race the alarm is off while a request is handled, and no request is
  ever handled over a half-made change.
* `LicenseClientProofs!PoolTheorem`: the pool that both implement until `byhand` never lends a slot twice, and who works
  has a slot.

### Word counters

`TwordcountProofs`. `ControlInv` says who is where in which version, that the lock's owner is
where the code holds it, and that `waiting` are those who sleep. `ScanInv`: a thread on its way to `++`
is just behind a word. On these:

* `ExactInv` (version 2: a value loaded is still the counter's) gives `ExactTheorem` and
  `NoLostUpdateTheorem`.
* `RacyInv` (version 1) gives `RacyTheorem`. That the total is 2 at least comes from its last part: if the
  counter is 1, somebody has added no more than one word so far.
* `ReportInv` (version 4): there is a set `T` of threads whose reports were added, the counter is the number
  of their words, none of them is in the box unless `main` is about to empty it. `TypeTheorem` (as many
  reports as threads at most) and `ReportTheorem` follow.
* `BoxInv` (version 4, two threads, no spurious wakeup): the box is full just while `main` is on its way
  to empty it; a thread that was woken is the last one. Hence `OverwriteTheorem`.

The totals are cardinalities of sets of words, which the library's theorems about finite sets reach;
a recursive sum they would not.

### Pipelines

`PipelineProofs`. `PlumbInv`: in which order the commands are started, and on which pipes. `FlowInv`: there is
a number of items written into each pipe, such that the first command has sent what went into the first,
each other has taken what went into its pipe and is no longer there, and has passed on what it does
not hold; if all goes well, whoever saw the end of its input saw all items. So a sum over the pipes is
not needed. `TypeTheorem`, `ArriveTheorem`, and `NobodyKilledTheorem`: under the conditions of
`AllArrive` nobody gets a SIGPIPE, for `pipeAnyArgc` with any number of commands.

### Shell

`ShellProofs`. `TypeInv` adds that names are in the table once and that the nested calls and the `if`s
to come are no more than the line had: `TypeTheorem`. `TextInv`: an entry has the text last given to its
name, and all variables the shell was started with are there if they fitted: `ChildTheorem`.
`CondInv`: while a condition is evaluated no `if` is open; afterwards `if_result` is what it came to:
`ConditionTheorem`. `StoreRefinement`: every step on the array is a step of the store, or none
(`VarStore` under the map `Stored`).

### Web server

`WebServerProofs`. `CallInv`: a call is in one place, the queue, one process or one child. `ReadInv`: the
buffer of a process that goes on with a line holds that line; `OutInv`: nothing is written to a connection
before its child is there, and later only by what a failed cgi program left. `PlaceInv`: a call that was made
is pending, or there is a reason for its end. They give `TypeTheorem`, `AnswerTheorem` and
`AnsweredTheorem`, whoever became a server and whatever their buffers held.

### Session

`SessionProofs`, each part with an invariant of its own:

* `WordsInv`, `psh2`: the first `numargs` entries of `arglist` are the words typed, then comes the `NULL`:
  `RunsTheorem`. `ProgInv`: a child is started with one word at least.
* `StreamInv` (`CallInv`, `ServeInv`, `DoneInv`): the caller has got the beginning of the listing he asked for,
  as long as what is left; who was hung up on has all: `WholeTheorem`. A failed write is followed by
  another only if there is more: `LivesTheorem`.
* `TalkInv`, `tinybc`: between the requests both pipes are empty and `dc` does not write; during one, the question
  or its answer is in one place (`UnderWay`), and what `dc` computes from it does not depend on what earlier questions
  left on its stack: `StepTheorem`.
* `ListInv`, `my_ls`: from `readdir` on the names to show are in the array, each once (`AllThere`), with their
  attributes if the directory is the current one; the entries before the present turn of the sort are
  in order. A turn only moves entries (`InsertMoves`, `MovedPlaces`): `SortedTheorem`, `OwnTheorem`.
* All together are `TypeTheorem`.

### Induction over data

The library's theorems of induction are about an operator, which the installed provers cannot instantiate.
`SessionProofs!Least` replaces them: a set of numbers that is not empty has a least element, from the
library's theorem about well-founded relations, which is about a set. With it a claim about all numbers
is proved by looking at the least one for which it fails. So what the loops of `sanitize()` and of
`Power` compute is proved (`Loop`, `CleanStays`, `Powers`), and that `Max` and `Min` are what they
should be.

### Only model-checked

* All liveness: `DeadTicketsReclaimed`, `RequestsAnswered`, `MainReturns`, `AllEnd`, `CallsEnd`, and
  `PromptReturns` of the shell and of the session. Fairness and `ENABLED` are out of the provers' reach.
* The counterexamples of the four runs that expect one.

## Not modelled

* Texts sent with `dgsend` that name a slot outside the table (the server compares and writes whatever memory
  is there) or a negative pid, and texts of `MSGLEN` bytes or more (`buf[ret]` is behind the
  array). `dgsend2`, which waits for the answers to its texts, which `dgsend` does not get.
* The wording of datagrams, lines and replies, `stdio` streams and their buffers, memory
  allocation, name lookup and the making of sockets.
* The seconds of the license server's timer.
* Zombie processes: no program here runs out of process slots.
* `smsh1` to `smsh3`, which are `smsh4` without builtins or without variables.
* `hello_single`, `hello_multi`, `incrprint`, `pipedemo`, `stdinredir`,
  `showenv`, `changeenv`, `forkdemo`, `waitdemo`, `popendemo`: one system call each, in a
  straight line.
* `logfiled`, `logfilec`, `dgrecv`, `dgrecv2`, `dgsend2`: one datagram after the other. Worth knowing:
  an empty datagram ends both receivers, `dgsend2` never ends by itself, and `logfiled` cannot
  bind again while the file of an earlier socket is there.
* Lines of more than `ARGLEN - 1` characters in `psh2`, which lose a character at each cut.
* Inode numbers and the layout of a line in `my_ls`; more than `MAXSIZE` names.
* `psh1` (`psh2` without the fork), and `socket/test.c`, which is for another system.

## Plan

Extending the model:

1. `Logger`: `logfiled` with several clients, and `dgrecv2`, which an empty datagram ends.
2. The license pool with the client of version 2 in place of `Validate`.
3. `splitline` at the grain of its buffers.

These join the run of a neighbour: the loggers that of the license client, whose sockets they
use, `splitline` that of the shell.

Proving: the liveness properties need fairness, which stays with TLC, but each rests on an invariant
that can be proved, that nobody waits for everybody:

1. `Twordcount`: while `main` sleeps the box is empty and some counter is on its way to fill it.
2. `Session`: `DcStuck` is the only state in which `tinybc` and `dc` wait for each other; a caller in
   the queue has a server that is reading or writing.
3. `Pipeline`: a command that waits on an empty pipe has a living writer that does not wait for it.
4. `LicenseServer`: with the alarm off, `main` is handling a request, or a signal is pending, or the
   handler runs.
