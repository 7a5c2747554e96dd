--------------------------- MODULE TwordcountProofs ---------------------------
(***************************************************************************)
(* Proofs about the threaded word counters (Twordcount): that the shared   *)
(* counter is exact under the mutex and how wrong it can be without, and   *)
(* that main of version 4 adds each report once.                           *)
(***************************************************************************)
EXTENDS Twordcount, FiniteSetTheorems, TLAPS

-----------------------------------------------------------------------------
(* Sets of words *)

\* The words the threads of T have added.
WordsOf(T) == UNION {{t} \X Added(t) : t \in T}

\* The main, the threads and nobody are told apart.
LEMMA Apart ==
  /\ Main \notin Threads /\ Nobody \notin Threads /\ NULL \notin Threads
  /\ Main # Nobody /\ Main \in Procs /\ Threads \subseteq Procs
  /\ IsFiniteSet(Threads) /\ Files \subseteq Seq(BOOLEAN)
BY WordCountAssumption, NullAssumption
DEF WordCountAssumption, NullAssumption, Procs, Main, Nobody

\* Membership in WordsOf.
LEMMA WordsOfMember ==
  ASSUME NEW T, NEW w
  PROVE  w \in WordsOf(T) <=> \E t \in T : \E i \in Added(t) : w = <<t, i>>
BY DEF WordsOf

\* If nobody in T adds a word, T's words stay.
LEMMA NoWordMore ==
  ASSUME NEW T, \A t \in T : Added(t)' = Added(t)
  PROVE  WordsOf(T)' = WordsOf(T)
BY DEF WordsOf

\* If one of T adds a word, T's words are one more.
LEMMA OneWordMore ==
  ASSUME NEW T, IsFiniteSet(WordsOf(T)), NEW t \in T, NEW i,
         i \notin Added(t), Added(t)' = Added(t) \cup {i},
         \A u \in T : u # t => Added(u)' = Added(u)
  PROVE  /\ IsFiniteSet(WordsOf(T)')
         /\ Cardinality(WordsOf(T)') = Cardinality(WordsOf(T)) + 1
<1>1. <<t, i>> \notin WordsOf(T)
  BY DEF WordsOf
<1>2. WordsOf(T)' = WordsOf(T) \cup {<<t, i>>}
  <2>1. ASSUME NEW w \in WordsOf(T)'  PROVE w \in WordsOf(T) \cup {<<t, i>>}
    <3>1. PICK u \in T : \E j \in Added(u)' : w = <<u, j>>
      BY DEF WordsOf
    <3>2. PICK j \in Added(u)' : w = <<u, j>>
      BY <3>1
    <3>3. CASE u = t
      BY <3>2, <3>3 DEF WordsOf
    <3>4. CASE u # t
      BY <3>2, <3>4 DEF WordsOf
    <3>. QED  BY <3>3, <3>4
  <2>2. ASSUME NEW w \in WordsOf(T) \cup {<<t, i>>}  PROVE w \in WordsOf(T)'
    <3>1. CASE w = <<t, i>>
      <4>1. i \in Added(t)'
        OBVIOUS
      <4>. QED  BY <3>1, <4>1 DEF WordsOf
    <3>2. CASE w \in WordsOf(T)
      <4>1. PICK u \in T : \E j \in Added(u) : w = <<u, j>>
        BY <3>2 DEF WordsOf
      <4>2. PICK j \in Added(u) : w = <<u, j>>
        BY <4>1
      <4>3. j \in Added(u)'
        BY <4>2
      <4>. QED  BY <4>2, <4>3 DEF WordsOf
    <3>. QED  BY <3>1, <3>2
  <2>. QED  BY <2>1, <2>2
<1>. QED  BY <1>1, <1>2, FS_AddElement

\* One thread more in T brings its words along.
LEMMA OneThreadMore ==
  ASSUME NEW T, IsFiniteSet(WordsOf(T)), NEW t, t \notin T, IsFiniteSet(Added(t))
  PROVE  Cardinality(WordsOf(T \cup {t}))
           = Cardinality(WordsOf(T)) + Cardinality(Added(t))
<1>1. WordsOf(T \cup {t}) = WordsOf(T) \cup ({t} \X Added(t))
  BY DEF WordsOf
<1>2. WordsOf(T) \cap ({t} \X Added(t)) = {}
  BY DEF WordsOf
<1>3. IsFiniteSet({t}) /\ Cardinality({t}) = 1 /\ Cardinality(Added(t)) \in Nat
  BY FS_Singleton, FS_CardinalityType
<1>4. /\ IsFiniteSet({t} \X Added(t))
      /\ Cardinality({t} \X Added(t)) = Cardinality({t}) * Cardinality(Added(t))
  BY <1>3, FS_Product
<1>5. Cardinality(WordsOf(T)) \in Nat /\ Cardinality({}) = 0
  BY FS_CardinalityType, FS_EmptySet
<1>6. Cardinality(WordsOf(T) \cup ({t} \X Added(t)))
        = Cardinality(WordsOf(T)) + Cardinality({t} \X Added(t)) - Cardinality({})
  BY <1>2, <1>4, FS_Union
<1>7. Cardinality({t} \X Added(t)) = Cardinality(Added(t))
  BY <1>3, <1>4
<1>8. Cardinality(WordsOf(T \cup {t}))
        = Cardinality(WordsOf(T)) + Cardinality({t} \X Added(t)) - Cardinality({})
  BY <1>1, <1>6
<1>. HIDE DEF WordsOf
<1>. QED  BY <1>3, <1>5, <1>7, <1>8

\* Fewer threads, fewer words.
LEMMA WordsOfFewer ==
  ASSUME IsFiniteSet(AllAdded), NEW T \in SUBSET Threads
  PROVE  /\ IsFiniteSet(WordsOf(T)) /\ Cardinality(WordsOf(T)) \in Nat
         /\ Cardinality(WordsOf(T)) <= Cardinality(AllAdded)
         /\ Cardinality(AllAdded) \in Nat
<1>1. WordsOf(T) \subseteq AllAdded
  BY DEF WordsOf, AllAdded
<1>. QED  BY <1>1, FS_Subset, FS_CardinalityType

-----------------------------------------------------------------------------
(* The inductive invariants *)

\* Who holds the lock, by where it is.
MainHolds == pc[Main] \in {"create", "loop", "read", "join", "clear", "exit"}
Holds(t) == pc[t] \in IF version = 4 THEN {"check", "put", "leave"}
                      ELSE {"load", "store", "unlock"}

ControlInv ==
  /\ WordTypeOK
  /\ pc \in [Procs -> MainStates \cup ThreadStates]
  /\ pc[Main] \in IF version = 4 THEN MainStates ELSE {"create", "join", "exit"}
  /\ \A t \in Threads :
       \/ pc[t] \in {"new", "fopen", "getc", "done"}
       \/ version = 1 /\ pc[t] \in {"load", "store"}
       \/ version = 2 /\ pc[t] \in {"lock", "load", "store", "unlock"}
       \/ version = 4 /\ pc[t] \in {"report", "check", "sleep", "wake", "put",
                                     "leave"}
  /\ spurious \in BOOLEAN
  /\ mailbox \in Threads \cup {NULL}
  /\ reports_in \in Nat
  /\ version # 4 => mailbox = NULL /\ reports_in = 0
  /\ version = 2 => lock # Main
  /\ version = 4 => (lock = Main <=> MainHolds)
  /\ version \in {2, 4} => \A t \in Threads : lock = t <=> Holds(t)
  /\ waiting = {p \in Procs : pc[p] = "sleep"}
  /\ version = 4 /\ pc[Main] = "lock" => \A t \in Threads : pc[t] = "new"

\* prevc is the character before the present place; a thread on its way to add a word is just
\* behind that word.
ScanInv ==
  /\ \A t \in Threads :
       /\ prevc[t] <=> pos[t] > 0 /\ file[t][pos[t]]
       /\ pc[t] \in {"lock", "load", "store"} => pos[t] \in EndedWords(file[t])
  /\ IsFiniteSet(AllAdded)

\* Version 2.
ExactInv ==
  version = 2 =>
    /\ total_words = Cardinality(AllAdded)
    /\ \A t \in Threads : pc[t] = "store" => reg[t] = total_words

\* Version 1: a value that was loaded is not above the words added since; the
\* counter is 0 only before any word, a thread that loaded 0 has added none
\* yet, and if the counter is 1 then somebody has added no more than one.
RacyInv ==
  version = 1 =>
    /\ total_words <= Cardinality(AllAdded)
    /\ total_words = 0 => AllAdded = {}
    /\ \A t \in Threads : pc[t] = "store" =>
         /\ reg[t] <= Cardinality(AllAdded)
         /\ reg[t] = 0 => Added(t) = {}
    /\ total_words = 1 => \E t \in Threads : Cardinality(Added(t)) = 1

\* Version 4: T are the threads whose reports main has added.  None of them is
\* in the box, unless main is about to empty it, and each is through with it.
Emptying == pc[Main] \in {"join", "clear"}

Taken(T) ==
  /\ \A t \in T : pc[t] \in {"leave", "done"}
  /\ total_words = Cardinality(WordsOf(T))
  /\ Cardinality(T) = reports_in + (IF Emptying THEN 1 ELSE 0)
  /\ mailbox \in T <=> Emptying

ReportInv ==
  version = 4 =>
    /\ \A t \in Threads : count[t] = Cardinality(Added(t))
    /\ mailbox # NULL => pc[mailbox] \in {"leave", "done"}
    /\ \E T \in SUBSET Threads : Taken(T)
    /\ Done => reports_in = Cardinality(Threads)

\* Version 4 with two counters and no spurious wakeups: the box is full just
\* while main is on its way to empty it.  A counter sleeps only then, and one
\* that was woken is the last.
BoxInv ==
  version = 4 /\ ~spurious =>
    /\ mailbox # NULL <=> pc[Main] \in {"wake", "read", "join", "clear"}
    /\ pc[Main] = "clear" => pc[mailbox] = "done"
    /\ \A t \in Threads :
         /\ pc[t] = "sleep" => mailbox # NULL
         /\ pc[t] = "put" => mailbox = NULL
         /\ pc[t] = "wake" =>
              /\ mailbox = NULL
              /\ \A u \in Threads \ {t} : pc[u] = "done"

-----------------------------------------------------------------------------
(* Control *)

\* At the start.
LEMMA ControlStart == Init => ControlInv
<1>. SUFFICES ASSUME Init  PROVE ControlInv
  OBVIOUS
<1>. USE Apart DEF Init, WordInit
<1>1. WordTypeOK
  <2>1. \A f \in Files : Len(f) \in Nat
    OBVIOUS
  <2>2. \A t \in Threads : pos[t] <= Len(file[t])
    BY <2>1
  <2>. QED  BY <2>2 DEF WordTypeOK
<1>2. pc \in [Procs -> MainStates \cup ThreadStates]
  BY DEF MainStates, ThreadStates, CountStates
<1>3. \A p \in Procs : pc[p] # "sleep"
  OBVIOUS
<1>. QED
  BY <1>1, <1>2, <1>3 DEF ControlInv, MainStates, MainHolds, Holds, Procs

\* pthread_cond_signal moves the caller on and wakes one sleeper if there is one.
LEMMA SignalWakes ==
  ASSUME NEW States, pc \in [Procs -> States], NEW p \in Procs, NEW from, NEW to,
         from # "sleep", to # "sleep", to \in States, "wake" \in States,
         waiting = {q \in Procs : pc[q] = "sleep"}, Signal(p, from, to)
  PROVE  /\ pc[p] = from /\ pc'[p] = to /\ pc' \in [Procs -> States]
         /\ waiting' = {q \in Procs : pc'[q] = "sleep"}
         /\ \/ /\ waiting = {} /\ \A q \in Procs \ {p} : pc'[q] = pc[q]
            \/ \E w \in waiting :
                 /\ w # p /\ pc'[w] = "wake"
                 /\ \A q \in Procs \ {p, w} : pc'[q] = pc[q]
<1>1. CASE waiting = {}
  BY <1>1 DEF Signal
<1>2. CASE waiting # {}
  <2>1. PICK w \in waiting : /\ pc' = [pc EXCEPT ![p] = to, ![w] = "wake"]
                             /\ waiting' = waiting \ {w}
    BY <1>2 DEF Signal
  <2>2. w # p /\ w \in Procs /\ pc[p] = from
    BY <1>2 DEF Signal
  <2>3. pc'[p] = to /\ pc'[w] = "wake"
        /\ \A q \in Procs \ {p, w} : pc'[q] = pc[q]
    BY <2>1, <2>2
  <2>4. pc' \in [Procs -> States]
    BY <2>1, <2>2
  <2>5. waiting' = {q \in Procs : pc'[q] = "sleep"}
    BY <2>1, <2>2, <2>3
  <2>. QED  BY <2>2, <2>3, <2>4, <2>5
<1>. QED  BY <1>1, <1>2

\* main's steps.
LEMMA ControlMain == ControlInv /\ MainNext => ControlInv'
<1>. SUFFICES ASSUME ControlInv, MainNext  PROVE ControlInv'
  OBVIOUS
<1>. USE Apart DEF ControlInv, WordTypeOK, Goto, countvars, inputs, scanvars, boxvars,
         MainHolds, Holds, MainStates, ThreadStates, CountStates
<1>1. CASE LockBeforeCreate
  BY <1>1 DEF LockBeforeCreate, TakeLock
<1>2. CASE WaitForReport
  BY <1>2 DEF WaitForReport, Sleep
<1>3. CASE Exit
  BY <1>3 DEF Exit
<1>4. CASE MainWakes
  BY <1>4 DEF MainWakes, TakeLock
<1>5. CASE TakeReport
  BY <1>5 DEF TakeReport
<1>6. CASE Join
  BY <1>6 DEF Join
<1>7. CASE Clear
  <2>1. Signal(Main, "clear", "loop")
    BY <1>7 DEF Clear
  <2>. DEFINE States == MainStates \cup ThreadStates
  <2>0. pc \in [Procs -> States] /\ "loop" \in States /\ "wake" \in States
        /\ Main \in Procs /\ waiting = {q \in Procs : pc[q] = "sleep"}
    OBVIOUS
  <2>. HIDE DEF States, ControlInv
  <2>2. /\ pc[Main] = "clear" /\ pc'[Main] = "loop" /\ pc' \in [Procs -> States]
        /\ waiting' = {q \in Procs : pc'[q] = "sleep"}
        /\ \/ \A q \in Procs \ {Main} : pc'[q] = pc[q]
           \/ \E w \in waiting :
                /\ w # Main /\ pc'[w] = "wake"
                /\ \A q \in Procs \ {Main, w} : pc'[q] = pc[q]
    BY <2>1, <2>0, SignalWakes
  <2>3. ASSUME NEW t \in Threads
        PROVE  \/ pc'[t] = pc[t]
               \/ pc[t] = "sleep" /\ pc'[t] = "wake"
    BY <2>2, <2>0
  <2>4. version = 4
    BY <2>2 DEF ControlInv
  <2>. QED  BY <1>7, <2>2, <2>3, <2>4 DEF Clear, ControlInv, States
<1>8. ASSUME NEW t \in Threads, CreateThread(t), UNCHANGED boxvars
      PROVE  ControlInv'
  BY <1>8 DEF CreateThread
<1>9. CASE AllCreated /\ UNCHANGED boxvars
  BY <1>9 DEF AllCreated
<1>10. CASE JoinAndPrint /\ UNCHANGED boxvars
  BY <1>10 DEF JoinAndPrint
<1>. QED
  BY <1>1, <1>2, <1>3, <1>4, <1>5, <1>6, <1>7, <1>8, <1>9, <1>10
  DEF MainNext, BoxMainNext, CountMainNext

\* What one counter does to the order of the threads: it moves, and holds the
\* lock just where it should.
LEMMA ControlThread ==
  ControlInv /\ (\E t \in Threads : ThreadNext(t)) => ControlInv'
<1>. SUFFICES ASSUME ControlInv, NEW t \in Threads, ThreadNext(t)  PROVE ControlInv'
  OBVIOUS
<1>. USE Apart DEF ControlInv, WordTypeOK, Goto, countvars, inputs, scanvars, boxvars,
         MainHolds, Holds, MainStates, ThreadStates, CountStates
<1>1. CASE LockBox(t)
  BY <1>1 DEF LockBox, TakeLock
<1>2. CASE BoxEmpty(t)
  BY <1>2 DEF BoxEmpty
<1>3. CASE BoxFull(t)
  <2>1. /\ version = 4 /\ lock = t /\ pc[t] = "check" /\ pc[Main] # "lock"
        /\ pc' = [pc EXCEPT ![t] = "sleep"] /\ lock' = Nobody
        /\ waiting' = waiting \cup {t}
        /\ UNCHANGED <<version, file, pos, prevc, reg, count, total_words,
                       spurious, mailbox, reports_in>>
    BY <1>3 DEF BoxFull, Sleep
  <2>2. waiting' = {p \in Procs : pc'[p] = "sleep"}
    BY <2>1
  <2>3. /\ lock' = Main <=> MainHolds'
        /\ \A u \in Threads : lock' = u <=> Holds(u)'
    BY <2>1
  <2>4. pc' \in [Procs -> MainStates \cup ThreadStates] /\ WordTypeOK'
    BY <2>1
  <2>. QED  BY <2>1, <2>2, <2>3, <2>4
<1>4. CASE CounterWakes(t)
  BY <1>4 DEF CounterWakes, TakeLock
<1>5. CASE PutReport(t)
  <2>1. Signal(t, "put", "leave")
    BY <1>5 DEF PutReport
  <2>. DEFINE States == MainStates \cup ThreadStates
  <2>2. pc \in [Procs -> States] /\ "leave" \in States /\ "wake" \in States
        /\ t \in Procs /\ waiting = {q \in Procs : pc[q] = "sleep"}
    OBVIOUS
  <2>. HIDE DEF States, ControlInv
  <2>3. /\ pc[t] = "put" /\ pc'[t] = "leave" /\ pc' \in [Procs -> States]
        /\ waiting' = {q \in Procs : pc'[q] = "sleep"}
        /\ \/ \A q \in Procs \ {t} : pc'[q] = pc[q]
           \/ \E w \in waiting :
                /\ w # t /\ pc'[w] = "wake"
                /\ \A q \in Procs \ {t, w} : pc'[q] = pc[q]
    BY <2>1, <2>2, SignalWakes
  <2>4. ASSUME NEW u \in Procs, u # t
        PROVE  \/ pc'[u] = pc[u]
               \/ pc[u] = "sleep" /\ pc'[u] = "wake"
    <3>1. CASE \A q \in Procs \ {t} : pc'[q] = pc[q]
      BY <2>4, <3>1
    <3>2. ASSUME NEW w \in waiting, pc'[w] = "wake",
                 \A q \in Procs \ {t, w} : pc'[q] = pc[q]
          PROVE  \/ pc'[u] = pc[u]
                 \/ pc[u] = "sleep" /\ pc'[u] = "wake"
      <4>1. pc[w] = "sleep"
        BY <2>2
      <4>. QED  BY <2>4, <3>2, <4>1
    <3>. QED  BY <2>3, <3>1, <3>2
  <2>5. version = 4
    BY <2>3 DEF ControlInv
  <2>. QED  BY <1>5, <2>3, <2>4, <2>5 DEF PutReport, ControlInv, States
<1>6. CASE UnlockBox(t)
  BY <1>6 DEF UnlockBox
<1>. USE DEF FileDone
<1>7. CASE FopenOK(t) /\ UNCHANGED boxvars
  BY <1>7 DEF FopenOK
<1>8. CASE FopenFails(t) /\ UNCHANGED boxvars
  BY <1>8 DEF FopenFails
<1>9. CASE AtEOF(t) /\ UNCHANGED boxvars
  BY <1>9 DEF AtEOF
<1>. USE DEF NextChar
<1>10. CASE Skip(t) /\ UNCHANGED boxvars
  BY <1>10 DEF Skip
<1>11. CASE EndOfWord(t) /\ UNCHANGED boxvars
  <2>1. version \in {1, 2} /\ pc[t] = "getc"
    BY <1>11 DEF EndOfWord
  <2>2. WordTypeOK'
    BY <1>11 DEF EndOfWord
  <2>3. CASE version = 1
    BY <1>11, <2>1, <2>2, <2>3 DEF EndOfWord
  <2>4. CASE version = 2
    BY <1>11, <2>1, <2>2, <2>4 DEF EndOfWord
  <2>. QED  BY <2>1, <2>3, <2>4
<1>12. CASE EndOfOwnWord(t) /\ UNCHANGED boxvars
  BY <1>12 DEF EndOfOwnWord
<1>13. CASE Lock(t) /\ UNCHANGED boxvars
  <2>1. version = 2 /\ pc[t] = "lock"
    BY <1>13 DEF Lock
  <2>. QED  BY <1>13, <2>1 DEF Lock
<1>14. CASE Load(t) /\ UNCHANGED boxvars
  BY <1>14 DEF Load
<1>15. CASE Store(t) /\ UNCHANGED boxvars
  <2>1. version \in {1, 2} /\ pc[t] = "store"
    BY <1>15 DEF Store
  <2>2. reg[t] + 1 \in Nat
    OBVIOUS
  <2>3. CASE version = 1
    BY <1>15, <2>1, <2>2, <2>3 DEF Store
  <2>4. CASE version = 2
    BY <1>15, <2>1, <2>2, <2>4 DEF Store
  <2>. QED  BY <2>1, <2>3, <2>4
<1>16. CASE Unlock(t) /\ UNCHANGED boxvars
  <2>1. version = 2 /\ pc[t] = "unlock"
    BY <1>16 DEF Unlock
  <2>. QED  BY <1>16, <2>1 DEF Unlock
<1>. QED
  BY <1>1, <1>2, <1>3, <1>4, <1>5, <1>6, <1>7, <1>8, <1>9, <1>10, <1>11,
     <1>12, <1>13, <1>14, <1>15, <1>16
  DEF ThreadNext, ReportNext, CountNext

\* A wait that ends without a signal.
LEMMA ControlSpurious ==
  ControlInv /\ (\E p \in Procs : WakeSpuriously(p)) => ControlInv'
<1>. SUFFICES ASSUME ControlInv, NEW p \in Procs, WakeSpuriously(p)
              PROVE  ControlInv'
  OBVIOUS
<1>. USE Apart DEF ControlInv, WordTypeOK, Goto, countvars, inputs, scanvars,
         MainHolds, Holds, MainStates, ThreadStates, CountStates, WakeSpuriously
<1>1. pc[p] = "sleep" /\ pc' = [pc EXCEPT ![p] = "wake"] /\ version = 4
  <2>1. version = 4
    BY DEF Procs
  <2>. QED  BY <2>1
<1>2. waiting' = {q \in Procs : pc'[q] = "sleep"}
  BY <1>1
<1>3. CASE p = Main
  BY <1>1, <1>2, <1>3
<1>4. CASE p \in Threads
  BY <1>1, <1>2, <1>4
<1>. QED  BY <1>3, <1>4 DEF Procs

\* Every step keeps the order.
LEMMA ControlStep == ControlInv /\ [Next]_vars => ControlInv'
<1>. SUFFICES ASSUME ControlInv, [Next]_vars  PROVE ControlInv'
  OBVIOUS
<1>1. CASE UNCHANGED vars
  BY <1>1 DEF vars, wordvars, boxvars, inputs, scanvars, ControlInv, WordTypeOK,
     MainHolds, Holds
<1>. QED  BY <1>1, ControlMain, ControlThread, ControlSpurious DEF Next

-----------------------------------------------------------------------------
(* Scanning *)

Adding(t) == pc[t] \in {"lock", "load", "store"}

\* A thread that neither reads nor starts or ends ++ has added what it had.
LEMMA AddedStays ==
  ASSUME NEW t, file' = file, pos'[t] = pos[t], Adding(t)' <=> Adding(t)
  PROVE  Added(t)' = Added(t)
BY DEF Added, Adding

\* A word ends before the character after place i.
LEMMA EndedWordAt ==
  ASSUME NEW f \in Seq(BOOLEAN), NEW i \in Nat, i < Len(f)
  PROVE  i + 1 \in EndedWords(f) <=> i > 0 /\ f[i] /\ ~f[i + 1]
<1>1. i + 1 \in 1 .. Len(f) /\ i + 1 - 1 = i
  OBVIOUS
<1>. QED  BY <1>1 DEF EndedWords

\* The character at hand ends a word, as count_words sees it, just if it is the
\* one after a word.
LEMMA WordEnds ==
  ASSUME ControlInv, ScanInv, NEW t \in Threads, pos[t] < Len(file[t])
  PROVE  /\ pos[t] + 1 \in EndedWords(file[t]) <=> EndsWord(t)
         /\ pos[t] + 1 \notin Added(t)
         /\ pos[t] \in Nat /\ pos[t] + 1 \in 1 .. Len(file[t])
<1>1. pos[t] \in Nat /\ file[t] \in Seq(BOOLEAN)
  BY Apart DEF ControlInv, WordTypeOK
<1>2. Len(file[t]) \in Nat /\ pos[t] + 1 \in 1 .. Len(file[t])
  BY <1>1
<1>3. prevc[t] <=> pos[t] > 0 /\ file[t][pos[t]]
  BY DEF ScanInv
<1>4. pos[t] + 1 > 1 <=> pos[t] > 0
  BY <1>1
<1>5. pos[t] + 1 - 1 = pos[t]
  BY <1>1
<1>6. pos[t] + 1 \in EndedWords(file[t])
        <=> pos[t] > 0 /\ file[t][pos[t]] /\ ~file[t][pos[t] + 1]
  BY <1>1, EndedWordAt
<1>7. pos[t] + 1 \notin Added(t)
  BY <1>1 DEF Added
<1>. QED  BY <1>1, <1>2, <1>3, <1>6, <1>7 DEF EndsWord

\* Reading a character: a word that ends is added at once, or when ++ is done.
LEMMA Reading ==
  ASSUME ControlInv, ScanInv, NEW t \in Threads, pc[t] = "getc",
         NextChar(t), file' = file
  PROVE  /\ pos'[t] = pos[t] + 1
         /\ prevc'[t] <=> pos'[t] > 0 /\ file'[t][pos'[t]]
         /\ EndsWord(t) => pos'[t] \in EndedWords(file'[t])
         /\ ~EndsWord(t) \/ Adding(t)' => Added(t)' = Added(t)
         /\ EndsWord(t) /\ ~Adding(t)' => Added(t)' = Added(t) \cup {pos[t] + 1}
<1>1. /\ pos[t] + 1 \in EndedWords(file[t]) <=> EndsWord(t)
      /\ pos[t] + 1 \notin Added(t) /\ pos[t] \in Nat
      /\ pos[t] + 1 \in 1 .. Len(file[t])
  BY WordEnds DEF NextChar
<1>2. pos'[t] = pos[t] + 1 /\ prevc'[t] = file[t][pos[t] + 1]
  BY DEF NextChar, ControlInv, WordTypeOK
<1>3. prevc'[t] <=> pos'[t] > 0 /\ file'[t][pos'[t]]
  BY <1>1, <1>2
<1>4. ~Adding(t)
  BY DEF Adding
<1>5. \A i \in EndedWords(file[t]) : i \in Int
  BY DEF EndedWords
<1>6. Added(t) = {i \in EndedWords(file[t]) : i <= pos[t]}
  BY <1>4 DEF Added, Adding
<1>7. Added(t)' = {i \in EndedWords(file[t]) :
                     i <= pos[t] + 1 /\ (i = pos[t] + 1 => ~Adding(t)')}
  BY <1>2 DEF Added, Adding
<1>8. ASSUME NEW i \in EndedWords(file[t])
      PROVE  i <= pos[t] + 1 <=> i <= pos[t] \/ i = pos[t] + 1
  BY <1>1, <1>5
<1>9. ~(pos[t] + 1 <= pos[t])
  BY <1>1
<1>10. ~EndsWord(t) \/ Adding(t)' => Added(t)' = Added(t)
  BY <1>1, <1>6, <1>7, <1>8, <1>9
<1>11. EndsWord(t) /\ ~Adding(t)' => Added(t)' = Added(t) \cup {pos[t] + 1}
  BY <1>1, <1>6, <1>7, <1>8, <1>9
<1>. QED  BY <1>1, <1>2, <1>3, <1>10, <1>11

\* A file has finitely many words.
LEMMA AddedFinite ==
  ASSUME ControlInv, NEW t \in Threads
  PROVE  IsFiniteSet(Added(t)) /\ Cardinality(Added(t)) \in Nat
<1>1. file[t] \in Seq(BOOLEAN)
  BY Apart DEF ControlInv, WordTypeOK
<1>2. IsFiniteSet(1 .. Len(file[t]))
  BY <1>1, FS_Interval
<1>3. Added(t) \subseteq 1 .. Len(file[t])
  BY DEF Added, EndedWords
<1>. QED  BY <1>2, <1>3, FS_Subset, FS_CardinalityType

\* The end of ++ adds the word the thread is behind.
LEMMA Storing ==
  ASSUME ControlInv, ScanInv, NEW t \in Threads, pc[t] = "store",
         UNCHANGED <<file, pos>>, ~Adding(t)'
  PROVE  /\ pos[t] \notin Added(t)
         /\ Added(t)' = Added(t) \cup {pos[t]}
<1>1. pos[t] \in EndedWords(file[t]) /\ pos[t] \in Nat
  BY DEF ScanInv, ControlInv, WordTypeOK
<1>2. Added(t) = {i \in EndedWords(file[t]) : i <= pos[t] /\ i # pos[t]}
  BY DEF Added
<1>3. Added(t)' = {i \in EndedWords(file[t]) : i <= pos[t]}
  BY DEF Added, Adding
<1>4. pos[t] <= pos[t]
  BY <1>1
<1>. QED  BY <1>1, <1>2, <1>3, <1>4

\* Nobody is moved by a signal but one sleeper.
LEMMA SignalMoves ==
  ASSUME ControlInv, NEW p \in Procs, NEW from, NEW to \in MainStates \cup ThreadStates,
         from # "sleep", to # "sleep", Signal(p, from, to)
  PROVE  /\ pc[p] = from /\ pc'[p] = to
         /\ \A q \in Procs \ {p} :
              pc'[q] = pc[q] \/ (pc[q] = "sleep" /\ pc'[q] = "wake")
<1>. DEFINE States == MainStates \cup ThreadStates
<1>1. /\ pc \in [Procs -> States] /\ "wake" \in States /\ to \in States
      /\ waiting = {q \in Procs : pc[q] = "sleep"}
  BY DEF ControlInv, MainStates
<1>. HIDE DEF States
<1>2. /\ pc[p] = from /\ pc'[p] = to
      /\ \/ \A q \in Procs \ {p} : pc'[q] = pc[q]
         \/ \E w \in waiting :
              /\ w # p /\ pc'[w] = "wake"
              /\ \A q \in Procs \ {p, w} : pc'[q] = pc[q]
  BY <1>1, SignalWakes
<1>3. ASSUME NEW w \in waiting, pc'[w] = "wake",
             \A q \in Procs \ {p, w} : pc'[q] = pc[q]
      PROVE  \A q \in Procs \ {p} :
               pc'[q] = pc[q] \/ (pc[q] = "sleep" /\ pc'[q] = "wake")
  <2>1. pc[w] = "sleep"
    BY <1>1
  <2>. QED  BY <1>3, <2>1
<1>. QED  BY <1>2, <1>3

\* The counters keep their hands off each other's variables.
LEMMA OthersStay ==
  ASSUME ControlInv, NEW t \in Threads, ThreadNext(t), NEW u \in Threads, u # t
  PROVE  /\ pos'[u] = pos[u] /\ prevc'[u] = prevc[u]
         /\ reg'[u] = reg[u] /\ count'[u] = count[u]
         /\ pc'[u] = pc[u] \/ (pc[u] = "sleep" /\ pc'[u] = "wake")
<1>. USE Apart DEF Goto, countvars, inputs, scanvars
<1>1. CASE PutReport(t)
  <2>1. pc'[u] = pc[u] \/ (pc[u] = "sleep" /\ pc'[u] = "wake")
    BY <1>1, SignalMoves DEF PutReport, ThreadStates
  <2>. QED  BY <1>1, <2>1 DEF PutReport
<1>2. CASE ~PutReport(t)
  BY <1>2 DEF ThreadNext, ReportNext, CountNext, LockBox, BoxEmpty, BoxFull,
     CounterWakes, UnlockBox, TakeLock, Sleep, FopenOK, FopenFails, AtEOF, Skip,
     EndOfWord, EndOfOwnWord, NextChar, Lock, Load, Store, Unlock,
     ControlInv, WordTypeOK
<1>. QED  BY <1>1, <1>2

\* Everything about the files stays when main or the lock moves.
LEMMA ScanStays ==
  ASSUME ControlInv, \/ MainNext \/ UNCHANGED vars
                     \/ \E p \in Procs : WakeSpuriously(p)
  PROVE  /\ UNCHANGED <<version, file, pos, prevc, reg, count>>
         /\ version # 4 => total_words' = total_words
         /\ \A t \in Threads : /\ Adding(t)' <=> Adding(t)
                               /\ Added(t)' = Added(t)
                               /\ pc'[t] = "store" => pc[t] = "store"
         /\ AllAdded' = AllAdded
<1>1. UNCHANGED <<version, file, pos, prevc, reg, count>>
  BY DEF MainNext, BoxMainNext, CountMainNext, LockBeforeCreate, WaitForReport,
     Exit, MainWakes, TakeReport, Join, Clear, TakeLock, Sleep, CreateThread,
     AllCreated, JoinAndPrint, WakeSpuriously, countvars, inputs, scanvars,
     vars, wordvars
<1>2. ASSUME NEW t \in Threads
      PROVE  \/ pc'[t] = pc[t]
             \/ pc[t] = "new" /\ pc'[t] = "fopen"
             \/ pc[t] = "sleep" /\ pc'[t] = "wake"
  <2>. USE Apart DEF Goto
  <2>1. CASE Clear
    BY <2>1, SignalMoves DEF Clear, MainStates
  <2>2. CASE MainNext /\ ~Clear
    BY <2>2 DEF MainNext, BoxMainNext, CountMainNext, LockBeforeCreate,
       WaitForReport, Exit, MainWakes, TakeReport, Join, TakeLock, Sleep,
       CreateThread, AllCreated, JoinAndPrint, ControlInv
  <2>3. CASE UNCHANGED vars
    BY <2>3 DEF vars, wordvars
  <2>4. CASE \E p \in Procs : WakeSpuriously(p)
    BY <2>4 DEF WakeSpuriously, ControlInv
  <2>. QED  BY <2>1, <2>2, <2>3, <2>4
<1>3. \A t \in Threads : Adding(t)' <=> Adding(t)
  BY <1>2 DEF Adding
<1>4. \A t \in Threads : Added(t)' = Added(t)
  BY <1>1, <1>3, AddedStays
<1>5. version # 4 => total_words' = total_words
  <2>1. version # 4 => pc[Main] \notin {"clear", "read"}
    BY DEF ControlInv
  <2>. QED
    BY <2>1 DEF MainNext, BoxMainNext, CountMainNext, LockBeforeCreate,
       WaitForReport, Exit, MainWakes, TakeReport, Join, Clear, Signal, TakeLock,
       Sleep, CreateThread, AllCreated, JoinAndPrint, WakeSpuriously, countvars,
       Goto, vars, wordvars
<1>6. \A t \in Threads : pc'[t] = "store" => pc[t] = "store"
  BY <1>2
<1>. QED  BY <1>1, <1>3, <1>4, <1>5, <1>6 DEF AllAdded

\* A step of a counter adds one word of its own at the end of ++, or none.
AddsOne(t) == Store(t) \/ EndOfOwnWord(t)

LEMMA ThreadScans ==
  ASSUME ControlInv, ScanInv, NEW t \in Threads, ThreadNext(t)
  PROVE  /\ file' = file /\ version' = version
         /\ prevc'[t] <=> pos'[t] > 0 /\ file'[t][pos'[t]]
         /\ Adding(t)' => pos'[t] \in EndedWords(file'[t])
         /\ ~AddsOne(t) => Added(t)' = Added(t)
         /\ AddsOne(t) =>
              \E i : i \notin Added(t) /\ Added(t)' = Added(t) \cup {i}
<1>. DEFINE Goal == /\ file' = file /\ version' = version
                    /\ prevc'[t] <=> pos'[t] > 0 /\ file'[t][pos'[t]]
                    /\ Adding(t)' => pos'[t] \in EndedWords(file'[t])
                    /\ ~AddsOne(t) => Added(t)' = Added(t)
                    /\ AddsOne(t) =>
                         \E i : i \notin Added(t) /\ Added(t)' = Added(t) \cup {i}
<1>1. t \in Procs /\ DOMAIN pc = Procs
  BY Apart DEF ControlInv
<1>2. /\ prevc[t] <=> pos[t] > 0 /\ file[t][pos[t]]
      /\ Adding(t) => pos[t] \in EndedWords(file[t])
  BY DEF ScanInv, Adding
\* A step that moves the thread, but not through the file or out of ++.
<1>3. ASSUME UNCHANGED <<version, file, pos, prevc>>, Adding(t)' <=> Adding(t),
             ~AddsOne(t)
      PROVE  Goal
  BY <1>2, <1>3, AddedStays
<1>4. CASE ReportNext(t)
  <2>1. pc[t] \in {"report", "check", "wake", "put", "leave"} /\ ~Adding(t)'
        /\ UNCHANGED <<version, file, pos, prevc>>
    <3>1. CASE PutReport(t)
      <4>1. pc[t] = "put" /\ pc'[t] = "leave"
        BY <1>1, <3>1, SignalMoves DEF PutReport, ThreadStates
      <4>. QED  BY <3>1, <4>1 DEF PutReport, Adding, countvars, inputs, scanvars
    <3>2. CASE ~PutReport(t)
      BY <1>1, <1>4, <3>2 DEF ReportNext, LockBox, BoxEmpty, BoxFull, CounterWakes,
         UnlockBox, TakeLock, Sleep, Goto, Adding, countvars, inputs, scanvars
    <3>. QED  BY <3>1, <3>2
  <2>2. ~AddsOne(t)
    BY <2>1 DEF AddsOne, Store, EndOfOwnWord, Goto
  <2>. QED  BY <1>3, <2>1, <2>2 DEF Adding
<1>5. CASE FopenOK(t) \/ FopenFails(t) \/ AtEOF(t) \/ Lock(t) \/ Load(t) \/ Unlock(t)
  <2>1. /\ UNCHANGED <<version, file, pos, prevc>>
        /\ \/ pc[t] \in {"fopen", "getc", "unlock"} /\ ~Adding(t)'
           \/ pc[t] \in {"lock", "load"} /\ Adding(t)'
    BY <1>1, <1>5 DEF FopenOK, FopenFails, AtEOF, Lock, Load, Unlock, Goto, Adding,
       FileDone, inputs, scanvars
  <2>2. ~AddsOne(t)
    BY <1>5 DEF AddsOne, Store, EndOfOwnWord, Goto, FopenOK, FopenFails, AtEOF,
       Lock, Load, Unlock, EndsWord
  <2>. QED  BY <1>3, <2>1, <2>2 DEF Adding
<1>6. CASE Skip(t)
  <2>1. /\ pc[t] = "getc" /\ NextChar(t) /\ ~EndsWord(t) /\ ~Adding(t)'
        /\ UNCHANGED <<version, file>>
    BY <1>1, <1>6 DEF Skip, Goto, Adding, inputs
  <2>2. ~AddsOne(t)
    BY <2>1 DEF AddsOne, Store, EndOfOwnWord, Goto
  <2>. QED  BY <2>1, <2>2, Reading
<1>7. CASE EndOfWord(t)
  <2>1. /\ pc[t] = "getc" /\ NextChar(t) /\ EndsWord(t) /\ Adding(t)'
        /\ UNCHANGED <<version, file>> /\ version \in {1, 2}
    BY <1>1, <1>7 DEF EndOfWord, Goto, Adding, inputs
  <2>2. ~AddsOne(t)
    BY <2>1 DEF AddsOne, Store, EndOfOwnWord, Goto
  <2>. QED  BY <2>1, <2>2, Reading
<1>8. CASE EndOfOwnWord(t)
  <2>1. /\ pc[t] = "getc" /\ NextChar(t) /\ EndsWord(t) /\ ~Adding(t)'
        /\ UNCHANGED <<version, file>> /\ AddsOne(t)
    BY <1>1, <1>8 DEF EndOfOwnWord, Goto, Adding, inputs, AddsOne
  <2>2. pos[t] + 1 \notin Added(t)
    BY <2>1, WordEnds DEF NextChar
  <2>. QED  BY <2>1, <2>2, Reading
<1>9. CASE Store(t)
  <2>1. /\ pc[t] = "store" /\ ~Adding(t)' /\ AddsOne(t)
        /\ UNCHANGED <<version, file, pos, prevc>>
    BY <1>1, <1>9 DEF Store, Goto, Adding, inputs, scanvars, AddsOne
  <2>. QED  BY <1>2, <2>1, Storing
<1>. HIDE DEF Goal
<1>10. ReportNext(t) \/ CountNext(t)
  BY DEF ThreadNext
<1>11. CASE CountNext(t)
  BY <1>5, <1>6, <1>7, <1>8, <1>9, <1>11 DEF CountNext
<1>. QED  BY <1>4, <1>10, <1>11

\* Where the others' words stay and the thread's grow by one, all words grow by
\* one.
LEMMA WordsGrow ==
  ASSUME ControlInv, ScanInv, NEW t \in Threads, ThreadNext(t)
  PROVE  /\ \A u \in Threads \ {t} : Added(u)' = Added(u)
         /\ IsFiniteSet(AllAdded')
         /\ Cardinality(AllAdded') =
              Cardinality(AllAdded) + (IF AddsOne(t) THEN 1 ELSE 0)
         /\ ~AddsOne(t) => AllAdded' = AllAdded
         /\ AddsOne(t) => AllAdded' # {}
<1>1. \A u \in Threads \ {t} : Added(u)' = Added(u)
  <2>1. ASSUME NEW u \in Threads \ {t}  PROVE Added(u)' = Added(u)
    <3>1. file' = file /\ pos'[u] = pos[u]
          /\ (pc'[u] = pc[u] \/ (pc[u] = "sleep" /\ pc'[u] = "wake"))
      BY OthersStay, ThreadScans
    <3>2. Adding(u)' <=> Adding(u)
      BY <3>1 DEF Adding
    <3>. QED  BY <3>1, <3>2, AddedStays
  <2>. QED  BY <2>1
<1>2. AllAdded = WordsOf(Threads) /\ AllAdded' = WordsOf(Threads)'
  BY DEF AllAdded, WordsOf
<1>3. IsFiniteSet(AllAdded) /\ Cardinality(AllAdded) \in Nat
  BY FS_CardinalityType DEF ScanInv
<1>4. CASE AddsOne(t)
  <2>1. PICK i : i \notin Added(t) /\ Added(t)' = Added(t) \cup {i}
    BY <1>4, ThreadScans
  <2>2. /\ IsFiniteSet(WordsOf(Threads)')
        /\ Cardinality(WordsOf(Threads)') = Cardinality(WordsOf(Threads)) + 1
    BY <1>1, <1>2, <1>3, <2>1, OneWordMore
  <2>3. AllAdded' # {}
    <3>1. i \in Added(t)'
      BY <2>1
    <3>2. <<t, i>> \in {t} \X Added(t)'
      BY <3>1
    <3>3. <<t, i>> \in AllAdded'
      BY <3>2 DEF AllAdded
    <3>. QED  BY <3>3
  <2>. QED  BY <1>1, <1>2, <1>4, <2>2, <2>3
<1>5. CASE ~AddsOne(t)
  <2>1. \A u \in Threads : Added(u)' = Added(u)
    BY <1>1, <1>5, ThreadScans
  <2>2. AllAdded' = AllAdded
    BY <1>2, <2>1, NoWordMore
  <2>. QED  BY <1>1, <1>3, <1>5, <2>2
<1>. QED  BY <1>4, <1>5

\* At the start nothing was read.
LEMMA ScanStart == Init => ScanInv /\ \A t \in Threads : Added(t) = {}
<1>. SUFFICES ASSUME Init  PROVE ScanInv /\ \A t \in Threads : Added(t) = {}
  OBVIOUS
<1>1. \A t \in Threads : pos[t] = 0 /\ prevc[t] = FALSE /\ pc[t] = "new"
  BY Apart DEF Init, WordInit
<1>2. \A t \in Threads : Added(t) = {}
  <2>1. \A f : \A i \in EndedWords(f) : ~(i <= 0)
    BY DEF EndedWords
  <2>. QED  BY <1>1, <2>1 DEF Added
<1>3. AllAdded = {}
  BY <1>2 DEF AllAdded
<1>. QED  BY <1>1, <1>2, <1>3, FS_EmptySet DEF ScanInv

\* Every step keeps the place in the file and the words that can be counted.
LEMMA ScanStep == ControlInv /\ ScanInv /\ [Next]_vars => ScanInv'
<1>. SUFFICES ASSUME ControlInv, ScanInv, [Next]_vars  PROVE ScanInv'
  OBVIOUS
<1>1. CASE \/ MainNext \/ UNCHANGED vars
           \/ \E p \in Procs : WakeSpuriously(p)
  BY <1>1, ScanStays DEF ScanInv, Adding
<1>2. ASSUME NEW t \in Threads, ThreadNext(t)  PROVE ScanInv'
  <2>1. ASSUME NEW u \in Threads
        PROVE  /\ prevc'[u] <=> pos'[u] > 0 /\ file'[u][pos'[u]]
               /\ Adding(u)' => pos'[u] \in EndedWords(file'[u])
    <3>1. CASE u = t
      BY <1>2, <3>1, ThreadScans
    <3>2. CASE u # t
      <4>1. file' = file /\ pos'[u] = pos[u] /\ prevc'[u] = prevc[u]
            /\ (pc'[u] = pc[u] \/ (pc[u] = "sleep" /\ pc'[u] = "wake"))
        BY <1>2, <3>2, OthersStay, ThreadScans
      <4>. QED  BY <4>1 DEF ScanInv, Adding
    <3>. QED  BY <3>1, <3>2
  <2>. QED  BY <1>2, <2>1, WordsGrow DEF ScanInv, Adding
<1>. QED  BY <1>1, <1>2 DEF Next

-----------------------------------------------------------------------------
(* The shared counter *)

\* Versions 1 and 2: the counter changes when ++ stores, and what is stored was
\* loaded before.
LEMMA SharedCounter ==
  ASSUME ControlInv, NEW t \in Threads, ThreadNext(t), version \in {1, 2}
  PROVE  /\ AddsOne(t) => /\ pc[t] = "store" /\ pc'[t] # "store"
                          /\ total_words' = reg[t] + 1
         /\ ~AddsOne(t) => total_words' = total_words
         /\ pc'[t] = "store" => reg'[t] = total_words
<1>1. t \in Procs /\ DOMAIN pc = Procs /\ DOMAIN reg = Threads
  BY Apart DEF ControlInv, WordTypeOK
<1>2. ~ReportNext(t)
  <2>1. pc[t] \notin {"report", "check", "sleep", "wake", "put", "leave"}
    BY DEF ControlInv
  <2>. QED
    BY <2>1 DEF ReportNext, LockBox, BoxEmpty, BoxFull, CounterWakes, PutReport,
       Signal, UnlockBox, TakeLock, Sleep, Goto
<1>3. ~EndOfOwnWord(t)
  BY DEF EndOfOwnWord
<1>. QED
  BY <1>1, <1>2, <1>3
  DEF ThreadNext, CountNext, FopenOK, FopenFails, AtEOF, Skip, EndOfWord, Lock,
      Load, Store, Unlock, AddsOne, Goto, FileDone

\* At the start.
LEMMA CounterStart == Init => ExactInv /\ RacyInv
<1>. SUFFICES ASSUME Init  PROVE ExactInv /\ RacyInv
  OBVIOUS
<1>1. AllAdded = {} /\ Cardinality(AllAdded) = 0
  BY ScanStart, FS_EmptySet DEF AllAdded
<1>2. total_words = 0 /\ \A t \in Threads : pc[t] # "store"
  BY Apart DEF Init, WordInit
<1>. QED  BY <1>1, <1>2 DEF ExactInv, RacyInv

\* Version 2: between load and store nobody else stores.
LEMMA ExactStep == ControlInv /\ ScanInv /\ ExactInv /\ [Next]_vars => ExactInv'
<1>. SUFFICES ASSUME ControlInv, ScanInv, ExactInv, [Next]_vars, version' = 2
              PROVE  /\ total_words' = Cardinality(AllAdded')
                     /\ \A u \in Threads : pc'[u] = "store" => reg'[u] = total_words'
  BY DEF ExactInv
<1>1. CASE \/ MainNext \/ UNCHANGED vars
           \/ \E p \in Procs : WakeSpuriously(p)
  BY <1>1, ScanStays DEF ExactInv
<1>2. ASSUME NEW t \in Threads, ThreadNext(t)
      PROVE  /\ total_words' = Cardinality(AllAdded')
             /\ \A u \in Threads : pc'[u] = "store" => reg'[u] = total_words'
  <2>1. version = 2 /\ total_words = Cardinality(AllAdded)
        /\ \A u \in Threads : pc[u] = "store" => reg[u] = total_words
    BY <1>2, ThreadScans DEF ExactInv
  <2>2. /\ AddsOne(t) => /\ pc[t] = "store" /\ pc'[t] # "store"
                         /\ total_words' = reg[t] + 1
        /\ ~AddsOne(t) => total_words' = total_words
        /\ pc'[t] = "store" => reg'[t] = total_words
    BY <1>2, <2>1, SharedCounter
  <2>3. Cardinality(AllAdded') =
          Cardinality(AllAdded) + (IF AddsOne(t) THEN 1 ELSE 0)
    BY <1>2, WordsGrow
  <2>4. ASSUME NEW u \in Threads, u # t, pc'[u] = "store"
        PROVE  pc[u] = "store" /\ reg'[u] = reg[u] /\ ~AddsOne(t)
    <3>1. pc[u] = "store" /\ reg'[u] = reg[u]
      BY <1>2, <2>4, OthersStay
    <3>2. lock = u
      BY <2>1, <3>1 DEF ControlInv, Holds
    <3>3. pc[t] = "store" => lock = t
      BY <2>1 DEF ControlInv, Holds
    <3>. QED  BY <2>2, <2>4, <3>1, <3>2, <3>3
  <2>. QED  BY <2>1, <2>2, <2>3, <2>4, FS_CardinalityType DEF ScanInv
<1>. QED  BY <1>1, <1>2 DEF Next

\* Version 1: whoever stores loaded no more than was added by then.
LEMMA RacyStep == ControlInv /\ ScanInv /\ RacyInv /\ [Next]_vars => RacyInv'
<1>. SUFFICES ASSUME ControlInv, ScanInv, RacyInv, [Next]_vars, version' = 1
              PROVE  RacyInv'
  BY DEF RacyInv
<1>1. CASE \/ MainNext \/ UNCHANGED vars
           \/ \E p \in Procs : WakeSpuriously(p)
  BY <1>1, ScanStays DEF RacyInv
<1>2. ASSUME NEW t \in Threads, ThreadNext(t)  PROVE RacyInv'
  <2>1. /\ version = 1
        /\ total_words <= Cardinality(AllAdded)
        /\ total_words = 0 => AllAdded = {}
        /\ \A u \in Threads : pc[u] = "store" =>
             /\ reg[u] <= Cardinality(AllAdded)
             /\ reg[u] = 0 => Added(u) = {}
        /\ total_words = 1 => \E u \in Threads : Cardinality(Added(u)) = 1
    BY <1>2, ThreadScans DEF RacyInv
  <2>2. /\ AddsOne(t) => /\ pc[t] = "store" /\ pc'[t] # "store"
                         /\ total_words' = reg[t] + 1
        /\ ~AddsOne(t) => total_words' = total_words
        /\ pc'[t] = "store" => reg'[t] = total_words
    BY <1>2, <2>1, SharedCounter
  <2>3. /\ Cardinality(AllAdded') =
             Cardinality(AllAdded) + (IF AddsOne(t) THEN 1 ELSE 0)
        /\ \A u \in Threads \ {t} : Added(u)' = Added(u)
        /\ ~AddsOne(t) => AllAdded' = AllAdded
        /\ AddsOne(t) => AllAdded' # {}
    BY <1>2, WordsGrow
  <2>4. Cardinality(AllAdded) \in Nat /\ total_words \in Nat
        /\ \A u \in Threads : reg[u] \in Nat
    BY FS_CardinalityType DEF ScanInv, ControlInv, WordTypeOK
  <2>5. \A u \in Threads \ {t} : pc'[u] = "store" =>
          /\ reg'[u] = reg[u] /\ reg[u] <= Cardinality(AllAdded)
          /\ reg[u] = 0 => Added(u)' = {}
    BY <1>2, <2>1, <2>3, OthersStay
  <2>6. CASE AddsOne(t)
    <3>1. total_words' = reg[t] + 1 /\ pc'[t] # "store" /\ pc[t] = "store"
      BY <2>2, <2>6
    <3>2. total_words' <= Cardinality(AllAdded') /\ total_words' # 0
      BY <2>1, <2>3, <2>4, <2>6, <3>1
    <3>3. \A u \in Threads : pc'[u] = "store" =>
            /\ reg'[u] <= Cardinality(AllAdded')
            /\ reg'[u] = 0 => Added(u)' = {}
      BY <2>3, <2>4, <2>5, <2>6, <3>1
    <3>4. total_words' = 1 => Cardinality(Added(t)') = 1
      <4>1. PICK i : i \notin Added(t) /\ Added(t)' = Added(t) \cup {i}
        BY <1>2, <2>6, ThreadScans
      <4>2. total_words' = 1 => Added(t)' = {i}
        BY <2>1, <2>4, <3>1, <4>1
      <4>. QED  BY <4>2, FS_Singleton
    <3>. QED  BY <3>2, <3>3, <3>4 DEF RacyInv
  <2>7. CASE ~AddsOne(t)
    <3>1. total_words' = total_words /\ AllAdded' = AllAdded
          /\ \A u \in Threads : Added(u)' = Added(u)
      BY <1>2, <2>2, <2>3, <2>7, ThreadScans
    <3>2. AllAdded = {} => Added(t) = {}
      <4>1. \A i \in Added(t) : <<t, i>> \in {t} \X Added(t)
        OBVIOUS
      <4>2. \A i \in Added(t) : <<t, i>> \in AllAdded
        BY <4>1 DEF AllAdded
      <4>. QED  BY <4>2
    <3>3. \A u \in Threads : pc'[u] = "store" =>
            /\ reg'[u] <= Cardinality(AllAdded')
            /\ reg'[u] = 0 => Added(u)' = {}
      BY <2>1, <2>2, <2>5, <3>1, <3>2
    <3>. QED  BY <2>1, <3>1, <3>3 DEF RacyInv
  <2>. QED  BY <2>6, <2>7
<1>. QED  BY <1>1, <1>2 DEF Next

-----------------------------------------------------------------------------
(* The mailbox *)

\* What a counter of version 4 does to the box, to main and to its own count.
LEMMA BoxThread ==
  ASSUME ControlInv, NEW t \in Threads, ThreadNext(t), version = 4
  PROVE  /\ total_words' = total_words /\ reports_in' = reports_in
         /\ spurious' = spurious
         /\ mailbox' = IF PutReport(t) THEN t ELSE mailbox
         /\ PutReport(t) => pc[t] = "put" /\ pc'[t] = "leave"
         /\ pc[t] \in {"leave", "done"} => pc[t] = "leave" /\ pc'[t] = "done"
         /\ count'[t] = IF AddsOne(t) THEN count[t] + 1 ELSE count[t]
         /\ pc'[Main] = pc[Main] \/ (pc[Main] = "sleep" /\ pc'[Main] = "wake")
         /\ pc'[Main] # pc[Main] => PutReport(t)
<1>. USE Apart
<1>1. t \in Procs /\ DOMAIN pc = Procs /\ t # Main /\ DOMAIN count = Threads
  BY DEF ControlInv, WordTypeOK
<1>2. ~Store(t) /\ ~Load(t) /\ ~Lock(t) /\ ~Unlock(t) /\ ~EndOfWord(t)
  BY DEF ControlInv, Store, Load, Lock, Unlock, EndOfWord, Goto
<1>3. CASE PutReport(t)
  <2>1. /\ pc[t] = "put" /\ pc'[t] = "leave"
        /\ pc'[Main] = pc[Main] \/ (pc[Main] = "sleep" /\ pc'[Main] = "wake")
    BY <1>1, <1>3, SignalMoves DEF PutReport, ThreadStates
  <2>2. ~AddsOne(t)
    BY <1>2, <2>1 DEF AddsOne, EndOfOwnWord, Goto
  <2>. QED  BY <1>3, <2>1, <2>2 DEF PutReport, countvars
<1>4. CASE ~PutReport(t) /\ ReportNext(t)
  <2>1. pc[t] \in {"report", "check", "wake", "leave"}
    BY <1>4 DEF ReportNext, LockBox, BoxEmpty, BoxFull, CounterWakes, UnlockBox,
       TakeLock, Sleep, Goto
  <2>2. ~AddsOne(t)
    BY <1>2, <2>1 DEF AddsOne, EndOfOwnWord, Goto
  <2>. QED
    BY <1>1, <1>4, <2>1, <2>2 DEF ReportNext, LockBox, BoxEmpty, BoxFull,
       CounterWakes, UnlockBox, TakeLock, Sleep, Goto, countvars, boxvars
<1>5. CASE CountNext(t) /\ UNCHANGED boxvars
  <2>1. pc[t] \in {"fopen", "getc"} /\ pc'[Main] = pc[Main]
        /\ total_words' = total_words
    BY <1>1, <1>2, <1>5 DEF CountNext, FopenOK, FopenFails, AtEOF, Skip,
       EndOfOwnWord, Goto
  <2>2. ~PutReport(t)
    BY <2>1 DEF PutReport, Signal
  <2>3. count'[t] = IF AddsOne(t) THEN count[t] + 1 ELSE count[t]
    BY <1>1, <1>2, <1>5 DEF CountNext, FopenOK, FopenFails, AtEOF, Skip,
       EndOfOwnWord, AddsOne, EndsWord
  <2>. QED  BY <1>5, <2>1, <2>2, <2>3 DEF boxvars
<1>. QED  BY <1>3, <1>4, <1>5 DEF ThreadNext

\* The reports that were taken stay taken.
LEMMA TakenStays ==
  ASSUME NEW T, Taken(T), \A t \in T : Added(t)' = Added(t),
         \A t \in T : pc'[t] \in {"leave", "done"},
         total_words' = total_words, reports_in' = reports_in,
         mailbox' \in T <=> mailbox \in T, Emptying' <=> Emptying
  PROVE  Taken(T)'
<1>1. WordsOf(T)' = WordsOf(T)
  BY NoWordMore
<1>. QED  BY <1>1 DEF Taken

\* At the start.
LEMMA ReportStart == Init => ReportInv
<1>. SUFFICES ASSUME Init  PROVE ReportInv
  OBVIOUS
<1>1. \A t \in Threads : count[t] = 0 /\ Cardinality(Added(t)) = 0
  BY ScanStart, FS_EmptySet DEF Init, WordInit
<1>2. pc[Main] \in {"lock", "create"} /\ mailbox = NULL /\ reports_in = 0
      /\ total_words = 0
  BY Apart DEF Init, WordInit
<1>3. Taken({})
  BY <1>2, FS_EmptySet DEF Taken, WordsOf, Emptying
<1>. QED  BY <1>1, <1>2, <1>3 DEF ReportInv, Done

\* main takes the report in the box, which it has not taken before.
LEMMA TakeTaken ==
  ASSUME ControlInv, ScanInv, ReportInv, version = 4, TakeReport
  PROVE  /\ mailbox \in Threads
         /\ \E T \in SUBSET Threads : Taken(T)'
<1>1. PICK T \in SUBSET Threads : Taken(T)
  BY DEF ReportInv
<1>2. /\ mailbox \in Threads /\ pc[Main] = "read" /\ pc'[Main] = "join"
      /\ total_words' = total_words + count[mailbox]
      /\ UNCHANGED <<mailbox, reports_in, file, pos>>
      /\ \A t \in Threads : pc'[t] = pc[t]
  BY Apart DEF TakeReport, Goto, ControlInv, countvars, inputs, scanvars, boxvars
<1>3. mailbox \notin T /\ ~Emptying /\ Emptying'
  BY <1>1, <1>2 DEF Taken, Emptying
<1>4. \A t \in Threads : Added(t)' = Added(t)
  BY <1>2, AddedStays DEF Adding
<1>. DEFINE U == T \cup {mailbox}
<1>5. WordsOf(U)' = WordsOf(U)
  <2>1. WordsOf(U)' = UNION {{t} \X Added(t)' : t \in U}
    BY <1>2 DEF WordsOf
  <2>2. \A t \in U : Added(t)' = Added(t)
    BY <1>2, <1>4
  <2>. QED  BY <2>1, <2>2 DEF WordsOf
<1>6. Cardinality(WordsOf(U)) = Cardinality(WordsOf(T)) + Cardinality(Added(mailbox))
  <2>1. IsFiniteSet(WordsOf(T))
    BY WordsOfFewer DEF ScanInv
  <2>2. IsFiniteSet(Added(mailbox))
    BY <1>2, AddedFinite
  <2>. QED  BY <1>3, <2>1, <2>2, OneThreadMore
<1>7. IsFiniteSet(T) /\ Cardinality(U) = Cardinality(T) + 1
  <2>1. IsFiniteSet(T)
    BY Apart, FS_Subset
  <2>. QED  BY <1>3, <2>1, FS_AddElement
<1>8. /\ total_words = Cardinality(WordsOf(T)) /\ Cardinality(T) = reports_in
      /\ count[mailbox] = Cardinality(Added(mailbox))
  <2>1. reports_in \in Nat
    BY DEF ControlInv
  <2>. QED  BY <1>1, <1>2, <1>3, <2>1 DEF Taken, ReportInv
<1>9. \A t \in U : pc'[t] \in {"leave", "done"}
  <2>1. \A t \in T : pc'[t] \in {"leave", "done"}
    BY <1>1, <1>2 DEF Taken
  <2>2. pc[mailbox] \in {"leave", "done"}
    BY <1>2, Apart DEF ReportInv
  <2>. QED  BY <1>2, <2>1, <2>2
<1>. HIDE DEF U
<1>10. Taken(U)'
  BY <1>2, <1>3, <1>5, <1>6, <1>7, <1>8, <1>9 DEF Taken, U
<1>. QED  BY <1>2, <1>10 DEF U

\* A counter that is done stays out of the way of the reports: it is not the
\* one that moves, unless it unlocks.
LEMMA ReportThread ==
  ASSUME ControlInv, ScanInv, ReportInv, version = 4,
         NEW t \in Threads, ThreadNext(t)
  PROVE  ReportInv'
<1>. USE Apart
<1>0. t \in Procs /\ t # Main /\ t # NULL
  OBVIOUS
<1>1. /\ total_words' = total_words /\ reports_in' = reports_in
      /\ mailbox' = IF PutReport(t) THEN t ELSE mailbox
      /\ PutReport(t) => pc[t] = "put" /\ pc'[t] = "leave"
      /\ pc[t] \in {"leave", "done"} => pc[t] = "leave" /\ pc'[t] = "done"
      /\ count'[t] = IF AddsOne(t) THEN count[t] + 1 ELSE count[t]
      /\ pc'[Main] = pc[Main] \/ (pc[Main] = "sleep" /\ pc'[Main] = "wake")
  BY BoxThread
<1>2. \A u \in Threads \ {t} :
        /\ Added(u)' = Added(u) /\ count'[u] = count[u]
        /\ pc[u] \in {"leave", "done"} => pc'[u] = pc[u]
  <2>1. \A u \in Threads \ {t} : Added(u)' = Added(u)
    BY WordsGrow
  <2>. QED  BY <2>1, OthersStay
<1>3. \A u \in Threads : pc[u] \in {"leave", "done"} => pc'[u] \in {"leave", "done"}
  BY <1>1, <1>2
<1>4. count'[t] = Cardinality(Added(t)')
  <2>1. count[t] = Cardinality(Added(t)) /\ IsFiniteSet(Added(t))
    BY AddedFinite DEF ReportInv
  <2>2. CASE AddsOne(t)
    <3>1. PICK i : i \notin Added(t) /\ Added(t)' = Added(t) \cup {i}
      BY <2>2, ThreadScans
    <3>2. Cardinality(Added(t) \cup {i}) = Cardinality(Added(t)) + 1
      BY <2>1, <3>1, FS_AddElement
    <3>. QED  BY <1>1, <2>1, <2>2, <3>1, <3>2
  <2>3. CASE ~AddsOne(t)
    BY <1>1, <2>1, <2>3, ThreadScans
  <2>. QED  BY <2>2, <2>3
<1>5. \A u \in Threads : count'[u] = Cardinality(Added(u)')
  BY <1>2, <1>4 DEF ReportInv
<1>6. mailbox' # NULL => pc'[mailbox'] \in {"leave", "done"}
  <2>1. mailbox # NULL => mailbox \in Threads /\ pc[mailbox] \in {"leave", "done"}
    BY DEF ReportInv, ControlInv
  <2>. QED  BY <1>1, <1>3, <2>1
<1>7. Emptying' <=> Emptying
  BY <1>1 DEF Emptying
<1>8. PutReport(t) => ~Emptying
  <2>1. pc[t] = "put" => lock = t
    BY DEF ControlInv, Holds
  <2>2. Emptying => lock = Main
    BY DEF ControlInv, MainHolds, Emptying
  <2>. QED  BY <1>0, <1>1, <2>1, <2>2
<1>9. PICK T \in SUBSET Threads : Taken(T)
  BY DEF ReportInv
<1>10. \A u \in T : pc[u] \in {"leave", "done"}
  BY <1>9 DEF Taken
<1>11. t \in T => Added(t)' = Added(t)
  <2>1. pc[t] = "leave" => ~AddsOne(t)
    BY DEF AddsOne, Store, EndOfOwnWord, Goto
  <2>2. t \in T => pc[t] = "leave"
    BY <1>1, <1>10
  <2>. QED  BY <2>1, <2>2, ThreadScans
<1>12. \A u \in T : Added(u)' = Added(u) /\ pc'[u] \in {"leave", "done"}
  BY <1>2, <1>3, <1>10, <1>11
<1>13. mailbox' \in T <=> mailbox \in T
  <2>1. CASE PutReport(t)
    <3>1. t \notin T
      BY <1>1, <1>10, <2>1
    <3>2. mailbox \notin T
      BY <1>8, <1>9, <2>1 DEF Taken
    <3>. QED  BY <1>1, <2>1, <3>1, <3>2
  <2>2. CASE ~PutReport(t)
    BY <1>1, <2>2
  <2>. QED  BY <2>1, <2>2
<1>14. Taken(T)'
  BY <1>1, <1>7, <1>9, <1>12, <1>13, TakenStays
<1>15. Done' => reports_in' = Cardinality(Threads)
  <2>1. Done' => Done
    BY <1>1 DEF Done
  <2>. QED  BY <1>1, <2>1 DEF ReportInv
<1>. QED  BY <1>5, <1>6, <1>14, <1>15 DEF ReportInv

\* main's other steps leave the reports it has taken alone.
LEMMA ReportMain ==
  ASSUME ControlInv, ScanInv, ReportInv, version = 4, ~TakeReport, ~Clear,
         \/ MainNext \/ UNCHANGED vars
         \/ \E p \in Procs : WakeSpuriously(p)
  PROVE  ReportInv'
<1>. USE Apart
<1>1. /\ UNCHANGED <<file, pos, count>>
      /\ \A t \in Threads : Added(t)' = Added(t)
  BY ScanStays
<1>2. /\ total_words' = total_words /\ reports_in' = reports_in
      /\ mailbox' = mailbox
      /\ Emptying' <=> Emptying
      /\ Done' => reports_in = Cardinality(Threads)
      /\ \A t \in Threads : pc[t] \in {"leave", "done"} => pc'[t] = pc[t]
  <2>. USE DEF Emptying, Done, Goto, ControlInv
  <2>1. CASE MainNext
    <3>1. ~JoinAndPrint
      BY DEF JoinAndPrint
    <3>2. CASE LockBeforeCreate \/ MainWakes
      BY <3>2 DEF LockBeforeCreate, MainWakes, TakeLock, boxvars
    <3>3. CASE WaitForReport \/ Exit \/ Join
      BY <3>3 DEF WaitForReport, Exit, Join, Sleep, boxvars
    <3>4. ASSUME NEW t \in Threads, CreateThread(t), UNCHANGED boxvars
          PROVE  /\ total_words' = total_words /\ reports_in' = reports_in
                 /\ mailbox' = mailbox
                 /\ Emptying' <=> Emptying
                 /\ Done' => reports_in = Cardinality(Threads)
                 /\ \A u \in Threads : pc[u] \in {"leave", "done"} => pc'[u] = pc[u]
      BY <3>4 DEF CreateThread, boxvars
    <3>5. CASE AllCreated /\ UNCHANGED boxvars
      BY <3>5 DEF AllCreated, boxvars
    <3>. QED
      BY <2>1, <3>1, <3>2, <3>3, <3>4, <3>5 DEF MainNext, BoxMainNext, CountMainNext
  <2>2. CASE UNCHANGED vars
    BY <2>2 DEF vars, wordvars, boxvars, ReportInv
  <2>3. ASSUME NEW p \in Procs, WakeSpuriously(p)
        PROVE  /\ total_words' = total_words /\ reports_in' = reports_in
               /\ mailbox' = mailbox
               /\ Emptying' <=> Emptying
               /\ Done' => reports_in = Cardinality(Threads)
               /\ \A u \in Threads : pc[u] \in {"leave", "done"} => pc'[u] = pc[u]
    BY <2>3 DEF WakeSpuriously, ReportInv, Procs
  <2>. QED  BY <2>1, <2>2, <2>3
<1>3. \E T \in SUBSET Threads : Taken(T)'
  <2>1. PICK T \in SUBSET Threads : Taken(T)
    BY DEF ReportInv
  <2>2. \A t \in T : pc'[t] \in {"leave", "done"} /\ Added(t)' = Added(t)
    BY <1>1, <1>2, <2>1 DEF Taken
  <2>3. Taken(T)'
    BY <1>2, <2>1, <2>2, TakenStays
  <2>. QED  BY <2>3
<1>4. mailbox' # NULL => pc'[mailbox'] \in {"leave", "done"}
  <2>1. mailbox # NULL => mailbox \in Threads /\ pc[mailbox] \in {"leave", "done"}
    BY DEF ReportInv, ControlInv
  <2>. QED  BY <1>2, <2>1
<1>5. \A t \in Threads : count'[t] = Cardinality(Added(t)')
  BY <1>1 DEF ReportInv
<1>. QED  BY <1>2, <1>3, <1>4, <1>5 DEF ReportInv

\* main empties the box when the report in it is taken.
LEMMA ReportClear ==
  ASSUME ControlInv, ScanInv, ReportInv, version = 4, Clear
  PROVE  ReportInv'
<1>. USE Apart
<1>1. /\ pc[Main] = "clear" /\ pc'[Main] = "loop" /\ mailbox' = NULL
      /\ reports_in' = reports_in + 1 /\ total_words' = total_words
      /\ \A t \in Threads : pc'[t] = pc[t] \/ (pc[t] = "sleep" /\ pc'[t] = "wake")
      /\ UNCHANGED <<file, pos, count>>
  BY SignalMoves DEF Clear, MainStates, countvars, inputs, scanvars
<1>2. \A t \in Threads : Added(t)' = Added(t)
  <2>1. \A t \in Threads : Adding(t)' <=> Adding(t)
    BY <1>1 DEF Adding
  <2>. QED  BY <1>1, <2>1, AddedStays
<1>3. PICK T \in SUBSET Threads : Taken(T)
  BY DEF ReportInv
<1>4. WordsOf(T)' = WordsOf(T)
  <2>1. \A t \in T : Added(t)' = Added(t)
    BY <1>2
  <2>. QED  BY <2>1, NoWordMore
<1>5. \A t \in T : pc'[t] \in {"leave", "done"}
  BY <1>1, <1>3 DEF Taken
<1>6. Cardinality(T) = reports_in + 1 /\ total_words = Cardinality(WordsOf(T))
  BY <1>1, <1>3 DEF Taken, Emptying
<1>7. ~Emptying' /\ NULL \notin T /\ ~Done' /\ reports_in' \in Nat
  BY <1>1 DEF Emptying, Done, ControlInv
<1>8. Taken(T)'
  BY <1>1, <1>4, <1>5, <1>6, <1>7 DEF Taken
<1>9. \A t \in Threads : count'[t] = Cardinality(Added(t)')
  BY <1>1, <1>2 DEF ReportInv
<1>. QED  BY <1>1, <1>7, <1>8, <1>9 DEF ReportInv

\* Every step keeps the account of the reports.
LEMMA ReportStep == ControlInv /\ ScanInv /\ ReportInv /\ [Next]_vars => ReportInv'
<1>. SUFFICES ASSUME ControlInv, ScanInv, ReportInv, [Next]_vars  PROVE ReportInv'
  OBVIOUS
<1>1. version' = version
  <2>1. ASSUME NEW t \in Threads, ThreadNext(t)  PROVE version' = version
    BY <2>1, ThreadScans
  <2>. QED  BY <2>1, ScanStays DEF Next
<1>2. CASE version # 4
  BY <1>1, <1>2 DEF ReportInv
<1>3. CASE version = 4 /\ TakeReport
  <2>1. /\ pc[Main] = "read" /\ pc'[Main] = "join" /\ mailbox \in Threads
        /\ UNCHANGED <<mailbox, count, file, pos>>
        /\ \A t \in Threads : pc'[t] = pc[t]
    BY <1>3, Apart DEF TakeReport, Goto, ControlInv, countvars, inputs, scanvars, boxvars
  <2>2. \A t \in Threads : Added(t)' = Added(t)
    BY <2>1, AddedStays DEF Adding
  <2>3. \E T \in SUBSET Threads : Taken(T)'
    BY <1>3, TakeTaken
  <2>4. ~Done'
    BY <2>1 DEF Done
  <2>5. \A t \in Threads : count'[t] = Cardinality(Added(t)')
    BY <1>3, <2>1, <2>2 DEF ReportInv
  <2>6. pc'[mailbox'] \in {"leave", "done"}
    BY <1>3, <2>1, Apart DEF ReportInv
  <2>. QED  BY <2>3, <2>4, <2>5, <2>6 DEF ReportInv
<1>4. CASE version = 4 /\ ~TakeReport
  <2>1. CASE Clear
    BY <1>4, <2>1, ReportClear
  <2>2. ASSUME NEW t \in Threads, ThreadNext(t)  PROVE ReportInv'
    BY <1>4, <2>2, ReportThread
  <2>. QED  BY <1>4, <2>1, <2>2, ReportMain DEF Next
<1>. QED  BY <1>2, <1>3, <1>4

-----------------------------------------------------------------------------
(* Two counters and no spurious wakeups *)

\* Of three threads two are the same.
LEMMA TwoThreads ==
  ASSUME Cardinality(Threads) <= 2,
         NEW t \in Threads, NEW u \in Threads, NEW w \in Threads, t # u, w # t
  PROVE  w = u
<1>. SUFFICES ASSUME w # u  PROVE FALSE
  OBVIOUS
<1>1. IsFiniteSet({t}) /\ Cardinality({t}) = 1
  BY FS_Singleton
<1>2. /\ IsFiniteSet({t} \cup {u})
      /\ Cardinality({t} \cup {u}) = Cardinality({t}) + 1
  <2>1. u \notin {t}
    OBVIOUS
  <2>. QED  BY <1>1, <2>1, FS_AddElement
<1>3. Cardinality(({t} \cup {u}) \cup {w}) = Cardinality({t} \cup {u}) + 1
  <2>1. w \notin {t} \cup {u}
    OBVIOUS
  <2>. QED  BY <1>2, <2>1, FS_AddElement
<1>4. Cardinality(({t} \cup {u}) \cup {w}) <= Cardinality(Threads)
  <2>1. ({t} \cup {u}) \cup {w} \in SUBSET Threads
    OBVIOUS
  <2>. QED  BY <2>1, Apart, FS_Subset
<1>5. Cardinality(Threads) \in Nat
  BY Apart, FS_CardinalityType
<1>. QED  BY <1>1, <1>2, <1>3, <1>4, <1>5

\* Whom a signal wakes.
LEMMA SignalWhom ==
  ASSUME ControlInv, NEW p \in Procs, NEW from, NEW to \in MainStates \cup ThreadStates,
         from # "sleep", to # "sleep", Signal(p, from, to)
  PROVE  \/ /\ \A q \in Procs : pc[q] # "sleep"
            /\ \A q \in Procs \ {p} : pc'[q] = pc[q]
         \/ \E w \in Procs :
              /\ pc[w] = "sleep" /\ pc'[w] = "wake"
              /\ \A q \in Procs \ {p, w} : pc'[q] = pc[q]
<1>. DEFINE States == MainStates \cup ThreadStates
<1>1. /\ pc \in [Procs -> States] /\ "wake" \in States /\ to \in States
      /\ waiting = {q \in Procs : pc[q] = "sleep"}
  BY DEF ControlInv, MainStates
<1>. HIDE DEF States
<1>2. \/ waiting = {} /\ \A q \in Procs \ {p} : pc'[q] = pc[q]
      \/ \E w \in waiting :
           /\ w # p /\ pc'[w] = "wake"
           /\ \A q \in Procs \ {p, w} : pc'[q] = pc[q]
  BY <1>1, SignalWakes
<1>. QED  BY <1>1, <1>2

\* A report is put into an empty box, and main is woken to take it.
LEMMA BoxPut ==
  ASSUME ControlInv, BoxInv, version = 4, ~spurious, NEW t \in Threads, PutReport(t)
  PROVE  BoxInv'
<1>. USE Apart
<1>1. pc[t] = "put" /\ mailbox = NULL /\ lock = t /\ mailbox' = t
  BY DEF PutReport, Signal, BoxInv, ControlInv, Holds
<1>2. pc[Main] = "sleep"
  BY <1>1 DEF ControlInv, MainHolds, MainStates, BoxInv
<1>3. \A u \in Threads : pc[u] \notin {"sleep", "wake"}
  BY <1>1 DEF BoxInv
<1>4. \A u \in Threads \ {t} : pc[u] # "put"
  BY <1>1 DEF ControlInv, Holds
<1>5. /\ pc'[t] = "leave" /\ pc'[Main] = "wake"
      /\ \A u \in Threads \ {t} : pc'[u] = pc[u]
  <2>1. pc'[t] = "leave" /\ Signal(t, "put", "leave") /\ t \in Procs
    BY SignalMoves DEF PutReport, ThreadStates
  <2>2. \/ \A q \in Procs : pc[q] # "sleep"
        \/ \E w \in Procs : /\ pc[w] = "sleep" /\ pc'[w] = "wake"
                            /\ \A q \in Procs \ {t, w} : pc'[q] = pc[q]
    BY <2>1, SignalWhom DEF ThreadStates
  <2>3. PICK w \in Procs : /\ pc[w] = "sleep" /\ pc'[w] = "wake"
                           /\ \A q \in Procs \ {t, w} : pc'[q] = pc[q]
    BY <1>2, <2>2
  <2>4. w = Main
    BY <1>3, <2>3 DEF Procs
  <2>. QED  BY <2>1, <2>3, <2>4
<1>. QED  BY <1>1, <1>3, <1>4, <1>5 DEF BoxInv

\* main empties the box: the one counter that may sleep is woken, and the other
\* is the one whose report it was.
LEMMA BoxClear ==
  ASSUME Cardinality(Threads) <= 2, ControlInv, BoxInv, version = 4, ~spurious, Clear
  PROVE  BoxInv'
<1>. USE Apart
<1>1. pc[Main] = "clear" /\ pc'[Main] = "loop" /\ mailbox' = NULL
      /\ Signal(Main, "clear", "loop")
  BY SignalMoves DEF Clear, MainStates
<1>2. mailbox \in Threads /\ pc[mailbox] = "done"
  BY <1>1 DEF BoxInv, ControlInv
<1>3. \A t \in Threads : pc[t] \notin {"put", "wake"}
  BY <1>2 DEF BoxInv
<1>4. CASE \A q \in Procs : pc[q] # "sleep"
  <2>1. \A t \in Threads : pc'[t] = pc[t] /\ pc[t] # "sleep"
    BY <1>1, <1>4, SignalMoves DEF MainStates
  <2>. QED  BY <1>1, <1>3, <2>1 DEF BoxInv
<1>5. CASE \E w \in Procs : /\ pc[w] = "sleep" /\ pc'[w] = "wake"
                            /\ \A q \in Procs \ {Main, w} : pc'[q] = pc[q]
  <2>1. PICK w \in Procs : /\ pc[w] = "sleep" /\ pc'[w] = "wake"
                           /\ \A q \in Procs \ {Main, w} : pc'[q] = pc[q]
    BY <1>5
  <2>2. w \in Threads /\ w # mailbox
    BY <1>1, <1>2, <2>1 DEF Procs
  <2>3. \A u \in Threads \ {w} : u = mailbox
    BY <1>2, <2>2, TwoThreads
  <2>4. \A u \in Threads \ {w} : pc'[u] = "done"
    BY <1>2, <2>1, <2>2, <2>3
  <2>. QED  BY <1>1, <2>1, <2>2, <2>4 DEF BoxInv
<1>. QED  BY <1>1, <1>4, <1>5, SignalWhom DEF MainStates

\* Every step keeps the order of the box.
LEMMA BoxStep ==
  ASSUME Cardinality(Threads) <= 2, ControlInv, BoxInv, [Next]_vars
  PROVE  BoxInv'
<1>. USE Apart
<1>1. version' = version /\ spurious' = spurious
  BY DEF Next, MainNext, BoxMainNext, CountMainNext, LockBeforeCreate, WaitForReport,
     Exit, MainWakes, TakeReport, Join, Clear, TakeLock, Sleep, CreateThread,
     AllCreated, JoinAndPrint, ThreadNext, ReportNext, CountNext, LockBox, BoxEmpty,
     BoxFull, CounterWakes, PutReport, UnlockBox, FopenOK, FopenFails, AtEOF, Skip,
     EndOfWord, EndOfOwnWord, Lock, Load, Store, Unlock, WakeSpuriously, countvars,
     inputs, boxvars, vars, wordvars
<1>2. CASE version # 4 \/ spurious
  BY <1>1, <1>2 DEF BoxInv
<1>3. CASE version = 4 /\ ~spurious
  <2>1. CASE Clear
    BY <1>3, <2>1, BoxClear
  <2>2. ASSUME NEW t \in Threads, PutReport(t)  PROVE BoxInv'
    BY <1>3, <2>2, BoxPut
  <2>. USE <1>3 DEF BoxInv, ControlInv, Goto
  <2>3. CASE LockBeforeCreate \/ MainWakes
    BY <2>3 DEF LockBeforeCreate, MainWakes, TakeLock, boxvars
  <2>4. CASE WaitForReport
    BY <2>4 DEF WaitForReport, Sleep
  <2>5. CASE Exit
    BY <2>5 DEF Exit, boxvars
  <2>6. CASE TakeReport
    BY <2>6 DEF TakeReport, boxvars
  <2>7. CASE Join
    BY <2>7 DEF Join, boxvars
  <2>8. ASSUME NEW t \in Threads, CreateThread(t), UNCHANGED boxvars
        PROVE  BoxInv'
    BY <2>8 DEF CreateThread, boxvars
  <2>11. CASE AllCreated /\ UNCHANGED boxvars
    BY <2>11 DEF AllCreated, boxvars
  <2>12. CASE MainNext
    BY <2>1, <2>3, <2>4, <2>5, <2>6, <2>7, <2>8, <2>11, <2>12
    DEF MainNext, BoxMainNext, CountMainNext, JoinAndPrint
  <2>13. ~\E p \in Procs : WakeSpuriously(p)
    BY DEF WakeSpuriously
  <2>9. CASE UNCHANGED vars
    BY <2>9 DEF vars, wordvars, boxvars
  <2>10. ASSUME NEW t \in Threads, ThreadNext(t), ~PutReport(t)  PROVE BoxInv'
    <3>1. ~Load(t) /\ ~Store(t) /\ ~Lock(t) /\ ~Unlock(t) /\ ~EndOfWord(t)
      BY DEF Load, Store, Lock, Unlock, EndOfWord
    <3>2. /\ mailbox' = mailbox /\ pc[t] \notin {"done", "sleep"}
          /\ \A q \in Procs \ {t} : pc'[q] = pc[q]
          /\ pc'[t] # "wake"
          /\ pc'[t] = "sleep" => mailbox # NULL
          /\ pc'[t] = "put" => mailbox = NULL
      BY <2>10, <3>1 DEF ThreadNext, ReportNext, CountNext, LockBox, BoxEmpty,
         BoxFull, CounterWakes, UnlockBox, TakeLock, Sleep, FopenOK, FopenFails,
         AtEOF, Skip, EndOfOwnWord, FileDone, boxvars
    <3>3. \A u \in Threads \ {t} : pc[u] # "wake"
      BY <3>2
    <3>4. mailbox \in Threads \cup {NULL} /\ pc'[Main] = pc[Main]
          /\ \A u \in Threads \ {t} : pc'[u] = pc[u]
      BY <3>2
    <3>5. pc[Main] = "clear" => pc'[mailbox] = "done"
      BY <3>2, <3>4
    <3>. HIDE DEF ControlInv
    <3>. QED  BY <3>2, <3>3, <3>4, <3>5
  <2>. QED
    BY <2>2, <2>9, <2>10, <2>12, <2>13 DEF Next
<1>. QED  BY <1>2, <1>3

\* At the start.
LEMMA BoxStart == Init => BoxInv
BY Apart DEF Init, WordInit, BoxInv

-----------------------------------------------------------------------------
(* Theorems *)

\* The invariants that hold of every program.
IInv == ControlInv /\ ScanInv /\ ReportInv

\* They hold all the time.
LEMMA Invariance == Spec => []IInv
<1>1. Init => IInv
  BY ControlStart, ScanStart, ReportStart DEF IInv
<1>2. IInv /\ [Next]_vars => IInv'
  BY ControlStep, ScanStep, ReportStep DEF IInv
<1>. QED  BY <1>1, <1>2, PTL DEF Spec

\* main takes no more reports than there are threads.
LEMMA TakenBound == IInv => reports_in \in 0 .. Cardinality(Threads)
<1>. SUFFICES ASSUME IInv  PROVE reports_in \in 0 .. Cardinality(Threads)
  OBVIOUS
<1>1. reports_in \in Nat /\ Cardinality(Threads) \in Nat
  BY Apart, FS_CardinalityType DEF IInv, ControlInv
<1>2. CASE version # 4
  BY <1>1, <1>2 DEF IInv, ControlInv
<1>3. CASE version = 4
  <2>1. PICK T \in SUBSET Threads : Taken(T)
    BY <1>3 DEF IInv, ReportInv
  <2>2. Cardinality(T) <= Cardinality(Threads) /\ Cardinality(T) \in Nat
    BY Apart, FS_Subset, FS_CardinalityType
  <2>3. CASE Emptying
    BY <1>1, <2>1, <2>2, <2>3 DEF Taken
  <2>4. CASE ~Emptying
    BY <1>1, <2>1, <2>2, <2>4 DEF Taken
  <2>. QED  BY <2>3, <2>4
<1>. QED  BY <1>2, <1>3

\* Type correctness: whatever the threads' order, everybody is where it can be,
\* nobody but a process waits, and main counts no more reports than threads.
THEOREM TypeTheorem == Spec => []TypeOK
<1>1. IInv => TypeOK
  <2>. SUFFICES ASSUME IInv  PROVE TypeOK
    OBVIOUS
  <2>1. pc[Main] \in MainStates /\ \A t \in Threads : pc[t] \in ThreadStates
    BY DEF IInv, ControlInv, MainStates, ThreadStates, CountStates
  <2>2. waiting \subseteq Procs
    BY DEF IInv, ControlInv
  <2>. QED  BY <2>1, <2>2, TakenBound DEF IInv, ControlInv, TypeOK
<1>. QED  BY <1>1, Invariance, PTL

\* Version 2, twordcount2.c: no ++ under the mutex is lost.
THEOREM NoLostUpdateTheorem == Spec => NoLostUpdate
<1>1. IInv /\ ExactInv /\ [Next]_vars
        => [version = 2 /\ total_words' # total_words
              => total_words' = total_words + 1]_vars
  <2>. SUFFICES ASSUME IInv, ExactInv, Next, version = 2, total_words' # total_words
                PROVE  total_words' = total_words + 1
    OBVIOUS
  <2>1. PICK t \in Threads : ThreadNext(t)
    BY ScanStays DEF Next, IInv
  <2>2. AddsOne(t) /\ pc[t] = "store" /\ total_words' = reg[t] + 1
    BY <2>1, SharedCounter DEF IInv
  <2>. QED  BY <2>2 DEF ExactInv
<1>2. Init => ExactInv
  BY CounterStart
<1>3. IInv /\ ExactInv /\ [Next]_vars => ExactInv'
  BY ExactStep DEF IInv
<1>. QED  BY <1>1, <1>2, <1>3, Invariance, PTL DEF Spec, NoLostUpdate

\* Version 2: at every moment the counter is the number of words the threads
\* have added, whatever the files and however many threads.
THEOREM ExactTheorem == Spec => []ExactTotal
<1>1. Init => ExactInv
  BY CounterStart
<1>2. IInv /\ ExactInv /\ [Next]_vars => ExactInv'
  BY ExactStep DEF IInv
<1>3. ExactInv => ExactTotal
  BY DEF ExactInv, ExactTotal
<1>. QED  BY <1>1, <1>2, <1>3, Invariance, PTL DEF Spec

\* Version 1, twordcount1.c: the race loses words but never makes one up, and
\* if every thread has two words the total is two at least.  There are threads:
\* twordcount1.c always makes two.
THEOREM RacyTheorem == ASSUME Threads # {}  PROVE Spec => []RacyTotal
<1>1. Init => RacyInv
  BY CounterStart
<1>2. IInv /\ RacyInv /\ [Next]_vars => RacyInv'
  BY RacyStep DEF IInv
<1>3. IInv /\ RacyInv => RacyTotal
  <2>. SUFFICES ASSUME IInv, RacyInv, version = 1,
                       \A t \in Threads : Cardinality(Added(t)) >= 2
                PROVE  total_words >= 2
    BY DEF RacyTotal, RacyInv
  <2>1. total_words \in Nat /\ \A t \in Threads : Cardinality(Added(t)) \in Nat
    BY AddedFinite DEF IInv, ControlInv, WordTypeOK
  <2>2. total_words # 1
    BY <2>1 DEF RacyInv
  <2>3. total_words # 0
    <3>1. SUFFICES ASSUME total_words = 0  PROVE FALSE
      OBVIOUS
    <3>2. AllAdded = {}
      BY <3>1 DEF RacyInv
    <3>3. PICK t : t \in Threads
      OBVIOUS
    <3>4. Added(t) = {}
      <4>1. ASSUME NEW i \in Added(t)  PROVE FALSE
        <5>1. <<t, i>> \in {t} \X Added(t)
          OBVIOUS
        <5>. QED  BY <3>2, <3>3, <5>1 DEF AllAdded
      <4>. QED  BY <4>1
    <3>5. Cardinality(Added(t)) = 0
      BY <3>4, FS_EmptySet
    <3>. QED  BY <3>3, <3>5
  <2>. QED  BY <2>1, <2>2, <2>3
<1>. QED  BY <1>1, <1>2, <1>3, Invariance, PTL DEF Spec

\* Version 4, twordcount4.c: no report is added twice, and main prints no total
\* before all are added, for any number of threads, and also when waits end
\* without a signal.
THEOREM ReportTheorem == Spec => []EveryReportOnce
<1>1. IInv => EveryReportOnce
  <2>. SUFFICES ASSUME IInv, version = 4
                PROVE  /\ total_words <= Cardinality(AllAdded)
                       /\ Done => total_words = Cardinality(AllAdded)
    BY DEF EveryReportOnce
  <2>1. PICK T \in SUBSET Threads : Taken(T)
    BY DEF IInv, ReportInv
  <2>2. total_words = Cardinality(WordsOf(T))
    BY <2>1 DEF Taken
  <2>3. total_words <= Cardinality(AllAdded)
    BY <2>2, WordsOfFewer DEF IInv, ScanInv
  <2>4. ASSUME Done  PROVE total_words = Cardinality(AllAdded)
    <3>1. ~Emptying /\ reports_in = Cardinality(Threads) /\ reports_in \in Nat
      BY <2>4 DEF IInv, ControlInv, ReportInv, Done, Emptying
    <3>2. Cardinality(T) = Cardinality(Threads)
      BY <2>1, <3>1 DEF Taken
    <3>3. T = Threads
      BY <3>2, Apart, FS_Subset
    <3>. QED  BY <2>2, <3>3 DEF AllAdded, WordsOf
  <2>. QED  BY <2>3, <2>4
<1>. QED  BY <1>1, Invariance, PTL

\* Version 4 without spurious wakeups: a report in the box is not overwritten,
\* though a counter that wakes up does not look.  The reason is that there are
\* two counters, as in twordcount4.c: with three a report can be lost.
THEOREM OverwriteTheorem ==
  ASSUME Cardinality(Threads) <= 2
  PROVE  Spec => NotOverwritten
<1>1. Init => BoxInv
  BY BoxStart
<1>2. IInv /\ BoxInv /\ [Next]_vars => BoxInv'
  BY BoxStep DEF IInv
<1>3. IInv /\ BoxInv /\ [Next]_vars
        => [~spurious /\ mailbox # NULL /\ mailbox' # mailbox
              => pc[Main] = "clear"]_vars
  <2>. SUFFICES ASSUME IInv, BoxInv, Next, ~spurious, mailbox # NULL,
                       mailbox' # mailbox
                PROVE  pc[Main] = "clear"
    OBVIOUS
  <2>1. version = 4
    BY DEF IInv, ControlInv
  <2>2. ASSUME NEW t \in Threads, ThreadNext(t)  PROVE FALSE
    <3>1. PutReport(t) /\ pc[t] = "put"
      BY <2>1, <2>2, BoxThread DEF IInv
    <3>. QED  BY <2>1, <3>1 DEF BoxInv
  <2>3. MainNext \/ \E p \in Procs : WakeSpuriously(p)
    BY <2>2 DEF Next
  <2>. QED
    BY <2>3 DEF MainNext, BoxMainNext, CountMainNext, LockBeforeCreate, WaitForReport,
       Exit, MainWakes, TakeReport, Join, Clear, Signal, TakeLock, Sleep,
       WakeSpuriously, boxvars
<1>. QED  BY <1>1, <1>2, <1>3, Invariance, PTL DEF Spec, NotOverwritten
=============================================================================
