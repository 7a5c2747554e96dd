------------------------------ MODULE Twordcount ------------------------------
(***************************************************************************)
(* The threaded word counters.  Versions 1 to 3 are WordCount; here are    *)
(* the mailbox of twordcount4.c and all four programs as one system.       *)
(*                                                                         *)
(* In version 4 every counting thread puts its report into one mailbox and *)
(* raises a flag; main empties the box.  One mutex, one condition variable *)
(* on which both sides wait, main for a report and a counter for an empty  *)
(* box.  Neither side looks again at the box when it wakes up.             *)
(***************************************************************************)
EXTENDS WordCount

NULL == "null"
ASSUME NullAssumption == NULL \notin Threads

VARIABLES
  spurious,      \* may pthread_cond_wait return without a signal?
  waiting,       \* who waits on the condition variable flag
  mailbox,       \* whose arg_set the mailbox points to, or NULL
  reports_in     \* reports main has taken

boxvars == <<spurious, waiting, mailbox, reports_in>>
vars == <<wordvars, boxvars>>

\* What version 4 leaves alone once a file is counted.
countvars == <<inputs, scanvars, reg, count>>

\* Of main:     lock    pthread_mutex_lock         create  pthread_create
\*              loop    the test of reports_in
\*              wake    in pthread_cond_wait, signalled, wants the lock back
\*              read    prints and adds the report  join   pthread_join
\*              clear   empties the box and signals exit   has returned
\* Of a thread, besides the states of WordCount:
\*              report  wants the lock              check  looks at the box
\*              wake    as above                    put    stores its report
\*              leave   unlocks
\* Both:        sleep   in pthread_cond_wait, not signalled
MainStates ==
  {"lock", "create", "loop", "sleep", "wake", "read", "join", "clear", "exit"}
ThreadStates ==
  CountStates \cup {"report", "check", "sleep", "wake", "put", "leave"}

TypeOK ==
  /\ WordTypeOK
  /\ pc \in [Procs -> MainStates \cup ThreadStates]
  /\ pc[Main] \in MainStates
  /\ \A t \in Threads : pc[t] \in ThreadStates
  /\ spurious \in BOOLEAN
  /\ waiting \subseteq Procs
  /\ mailbox \in Threads \cup {NULL}
  /\ reports_in \in 0 .. Cardinality(Threads)

Init ==
  /\ WordInit
  /\ spurious \in IF version = 4 THEN BOOLEAN ELSE {FALSE}
  /\ waiting = {}
  /\ mailbox = NULL
  /\ reports_in = 0

-----------------------------------------------------------------------------
(* The condition variable *)

\* pthread_cond_wait: give the lock up and sleep, in one step.
Sleep(p, from) ==
  /\ Goto(p, from, "sleep")
  /\ lock' = Nobody
  /\ waiting' = waiting \cup {p}
  /\ UNCHANGED <<countvars, total_words, spurious, mailbox, reports_in>>

\* pthread_cond_signal by somebody who goes on at pc "to": one sleeper, if
\* there is any, will try to get the lock back.
Signal(p, from, to) ==
  /\ pc[p] = from
  /\ IF waiting = {}
     THEN /\ pc' = [pc EXCEPT ![p] = to]
          /\ UNCHANGED waiting
     ELSE \E w \in waiting :
            /\ pc' = [pc EXCEPT ![p] = to, ![w] = "wake"]
            /\ waiting' = waiting \ {w}

\* POSIX lets pthread_cond_wait return although nobody signalled.
WakeSpuriously(p) ==
  /\ spurious
  /\ Goto(p, "sleep", "wake")
  /\ waiting' = waiting \ {p}
  /\ UNCHANGED <<countvars, total_words, lock, spurious, mailbox, reports_in>>

\* pthread_mutex_lock, and the end of pthread_cond_wait.
TakeLock(p, from, to) ==
  /\ lock = Nobody
  /\ Goto(p, from, to)
  /\ lock' = p
  /\ UNCHANGED <<countvars, total_words, boxvars>>

-----------------------------------------------------------------------------
(* main of version 4 *)

LockBeforeCreate == version = 4 /\ TakeLock(Main, "lock", "create")

WaitForReport == reports_in < Cardinality(Threads) /\ Sleep(Main, "loop")

\* main returns with the lock in its hands, and the process ends.
Exit ==
  /\ reports_in = Cardinality(Threads)
  /\ Goto(Main, "loop", "exit")
  /\ UNCHANGED <<countvars, total_words, lock, boxvars>>

MainWakes == TakeLock(Main, "wake", "read")

\* mailbox is dereferenced: without a report the program crashes here.
TakeReport ==
  /\ mailbox # NULL
  /\ Goto(Main, "read", "join")
  /\ total_words' = total_words + count[mailbox]
  /\ UNCHANGED <<countvars, lock, boxvars>>

\* pthread_join of the reporter, which needs the lock no more.
Join ==
  /\ version = 4
  /\ mailbox \in Threads /\ pc[mailbox] = "done"
  /\ Goto(Main, "join", "clear")
  /\ UNCHANGED <<countvars, total_words, lock, boxvars>>

\* Wrong on purpose: the box is emptied but nobody is told.
ClearSilently ==
  /\ Goto(Main, "clear", "loop")
  /\ mailbox' = NULL
  /\ reports_in' = reports_in + 1
  /\ UNCHANGED <<countvars, total_words, lock, spurious, waiting>>

\* Wrong on purpose: the box is not emptied.
SignalFull ==
  /\ Signal(Main, "clear", "loop")
  /\ reports_in' = reports_in + 1
  /\ UNCHANGED <<countvars, total_words, lock, spurious, mailbox>>

Clear ==
  /\ Signal(Main, "clear", "loop")
  /\ mailbox' = NULL
  /\ reports_in' = reports_in + 1
  /\ UNCHANGED <<countvars, total_words, lock, spurious>>

BoxMainNext ==
  \/ LockBeforeCreate \/ WaitForReport \/ Exit \/ MainWakes
  \/ TakeReport \/ Join \/ Clear

-----------------------------------------------------------------------------
(* The end of count_words in version 4 *)

LockBox(t) == TakeLock(t, "report", "check")

\* Wrong on purpose: the report in the box is not waited for.
BoxIgnored(t) ==
  /\ Goto(t, "check", "put")
  /\ UNCHANGED <<countvars, total_words, lock, boxvars>>

BoxEmpty(t) ==
  /\ mailbox = NULL
  /\ Goto(t, "check", "put")
  /\ UNCHANGED <<countvars, total_words, lock, boxvars>>

BoxFull(t) == mailbox # NULL /\ Sleep(t, "check")

\* After the wait the counter goes on to store, whatever is in the box: it is
\* an if, not a while.
CounterWakes(t) == TakeLock(t, "wake", "put")

PutReport(t) ==
  /\ mailbox' = t
  /\ Signal(t, "put", "leave")
  /\ UNCHANGED <<countvars, total_words, lock, spurious, reports_in>>

UnlockBox(t) ==
  /\ Goto(t, "leave", "done")
  /\ lock' = Nobody
  /\ UNCHANGED <<countvars, total_words, boxvars>>

ReportNext(t) ==
  \/ LockBox(t) \/ BoxEmpty(t) \/ BoxFull(t)
  \/ CounterWakes(t) \/ PutReport(t) \/ UnlockBox(t)

-----------------------------------------------------------------------------
(* The programs *)

MainNext == BoxMainNext \/ (CountMainNext /\ UNCHANGED boxvars)
ThreadNext(t) == ReportNext(t) \/ (CountNext(t) /\ UNCHANGED boxvars)

\* Nothing runs any more once main has returned.
Next ==
  /\ pc[Main] # "exit"
  /\ \/ MainNext
     \/ \E t \in Threads : ThreadNext(t)
     \/ \E p \in Procs : WakeSpuriously(p)

Spec == Init /\ [][Next]_vars

\* The scheduler runs main and every thread that can run.  A lock is wanted
\* finitely often, so the order in which it is handed out does not matter.
FairSpec ==
  /\ Spec
  /\ WF_vars(pc[Main] # "exit" /\ MainNext)
  /\ \A t \in Threads : WF_vars(pc[Main] # "exit" /\ ThreadNext(t))

-----------------------------------------------------------------------------
(* What must hold *)

\* The words of a file that something follows: count_words counts a word at
\* the character after it.
EndedWords(f) == {i \in 1 .. Len(f) : i > 1 /\ f[i - 1] /\ ~f[i]}

\* Those this thread has added, or tried to add, to its counter.
Added(t) == {i \in EndedWords(file[t]) :
               /\ i <= pos[t]
               /\ i = pos[t] => pc[t] \notin {"lock", "load", "store"}}

AllAdded == UNION {{t} \X Added(t) : t \in Threads}

Done == pc[Main] = "exit"

\* Version 2: under the mutex no thread's ++ overwrites another's.
NoLostUpdate ==
  [][version = 2 /\ total_words' # total_words
       => total_words' = total_words + 1]_vars

\* Version 2 at every moment: the counter is what the threads have added.
ExactTotal == version = 2 => total_words = Cardinality(AllAdded)

\* Version 1 loses updates but never invents any; and when two threads have at
\* least two words each the printed total is at least 2: to store 1 last, a
\* thread must load 0, that is before the other stores anything, and this was
\* its only ++.
RacyTotal ==
  version = 1 =>
    /\ total_words <= Cardinality(AllAdded)
    /\ Done /\ (\A t \in Threads : Cardinality(Added(t)) >= 2)
         => total_words >= 2

\* Version 4: no report is added twice, and when main returns it has added the
\* words of every file, though one flag serves two conditions, and even when
\* waits end without a signal.
EveryReportOnce ==
  version = 4 =>
    /\ total_words <= Cardinality(AllAdded)
    /\ Done => total_words = Cardinality(AllAdded)

\* Version 4: a report in the box is not overwritten before main has taken it,
\* though a counter that wakes up does not look at the box again.
NotOverwritten ==
  [][~spurious /\ mailbox # NULL /\ mailbox' # mailbox
       => pc[Main] = "clear"]_vars

\* Main returns: no report is waited for that cannot come, no thread sleeps
\* that nobody will wake, and nobody holds a mutex for ever.
MainReturns == ~spurious => <>Done
=============================================================================
