---------------------------- MODULE SessionProofs ----------------------------
(***************************************************************************)
(* Proofs about the session (Session): that psh2 runs the words that were  *)
(* typed, that rls shows a whole listing and the servers die only of what  *)
(* the code lets them die of, that tinybc prints the answer to the request *)
(* it was asked last, that my_ls prints the names in order and each with   *)
(* its attributes, and that no variable leaves its type.                   *)
(***************************************************************************)
EXTENDS Session, SequenceTheorems, FiniteSetTheorems, WellFoundedInduction, TLAPS

-----------------------------------------------------------------------------
(* Induction and loops.  The library's induction theorems are about an       *)
(* operator, which the provers cannot supply; this one is about a set: the   *)
(* set of the numbers for which a claim fails has no least one.              *)

\* A set of natural numbers that is not empty has a least one.
LEMMA Least ==
  ASSUME NEW T \in SUBSET Nat, T # {}
  PROVE  \E m \in T : \A n \in T : m <= n
<1>. DEFINE R == {p \in Nat \X Nat : p[1] < p[2]}
<1>1. IsWellFoundedOn(R, Nat)
  BY NatLessThanWellFounded DEF OpToRel
<1>2. PICK m \in T : \A n \in T : ~(<<n, m>> \in R)
  <2>. HIDE DEF R
  <2>. QED BY <1>1, WFMin
<1>3. ASSUME NEW n \in T PROVE m <= n
  <2>1. <<n, m>> \in Nat \X Nat => (<<n, m>> \in R <=> n < m)
    OBVIOUS
  <2>2. n \in Nat /\ m \in Nat /\ ~(<<n, m>> \in R)
    BY <1>2
  <2>. HIDE DEF R
  <2>. QED  BY <2>1, <2>2
<1>. QED  BY <1>3

\* A loop whose turn n makes G[n][x] of x.
Loops(S) == [Nat -> [S -> S]]

\* What n turns of a loop make of a, if turn i makes G[i][x] of x.
Turns(S, a, G, n) ==
  {f \in [0 .. n -> S] : f[0] = a /\ \A i \in 0 .. n - 1 : f[i + 1] = G[i][f[i]]}

\* A loop can be run for any number of turns, ...
LEMMA TurnsExist ==
  ASSUME NEW S, NEW a \in S, NEW G \in Loops(S), NEW n \in Nat
  PROVE  Turns(S, a, G, n) # {}
<1>. DEFINE T == {k \in Nat : Turns(S, a, G, k) = {}}
<1>1. SUFFICES ASSUME T # {}  PROVE FALSE
  OBVIOUS
<1>2. PICK m \in T : \A k \in T : m <= k
  BY <1>1, Least
<1>3. m # 0
  <2>1. [i \in 0 .. 0 |-> a] \in Turns(S, a, G, 0)
    BY DEF Turns
  <2>. QED  BY <2>1
<1>4. m - 1 \in Nat /\ m - 1 \notin T
  BY <1>2, <1>3
<1>5. PICK f : f \in Turns(S, a, G, m - 1)
  BY <1>4
<1>6. /\ f \in [0 .. m - 1 -> S] /\ f[0] = a
      /\ \A i \in 0 .. m - 1 - 1 : f[i + 1] = G[i][f[i]]
  BY <1>5 DEF Turns
<1>. DEFINE g == [i \in 0 .. m |-> IF i = m THEN G[m - 1][f[m - 1]] ELSE f[i]]
<1>7. G[m - 1][f[m - 1]] \in S
  BY <1>4, <1>6 DEF Loops
<1>8. g \in [0 .. m -> S] /\ g[0] = a
  BY <1>3, <1>4, <1>6, <1>7
<1>9. ASSUME NEW i \in 0 .. m - 1  PROVE g[i + 1] = G[i][g[i]]
  BY <1>4, <1>6
<1>10. g \in Turns(S, a, G, m)
  <2>. HIDE DEF g
  <2>. QED  BY <1>8, <1>9 DEF Turns
<1>. QED  BY <1>2, <1>10

\* ... in one way.
LEMMA TurnsAgree ==
  ASSUME NEW S, NEW a, NEW G, NEW m \in Nat, NEW n \in Nat,
         NEW f \in Turns(S, a, G, m), NEW h \in Turns(S, a, G, n),
         NEW i \in Nat, i <= m, i <= n
  PROVE  f[i] = h[i]
<1>. DEFINE T == {k \in Nat : k <= m /\ k <= n /\ f[k] # h[k]}
<1>1. SUFFICES ASSUME T # {}  PROVE FALSE
  OBVIOUS
<1>2. PICK k \in T : \A l \in T : k <= l
  <2>1. T \in SUBSET Nat
    OBVIOUS
  <2>. HIDE DEF T
  <2>. QED  BY <1>1, <2>1, Least
<1>3. /\ f[0] = a /\ h[0] = a
      /\ \A l \in 0 .. m - 1 : f[l + 1] = G[l][f[l]]
      /\ \A l \in 0 .. n - 1 : h[l + 1] = G[l][h[l]]
  BY DEF Turns
<1>4. k # 0
  BY <1>2, <1>3
<1>5. k - 1 \in Nat /\ k - 1 \notin T /\ k - 1 + 1 = k
  BY <1>2, <1>4
<1>6. f[k - 1] = h[k - 1] /\ k - 1 \in 0 .. m - 1 /\ k - 1 \in 0 .. n - 1
  BY <1>2, <1>5
<1>7. f[k] = h[k]
  BY <1>3, <1>5, <1>6
<1>. QED  BY <1>2, <1>7

\* So all turns together are a function of their number.
LEMMA Loop ==
  ASSUME NEW S, NEW a \in S, NEW G \in Loops(S)
  PROVE  \E f \in [Nat -> S] : f[0] = a /\ \A n \in Nat : f[n + 1] = G[n][f[n]]
<1>. DEFINE Run(n) == CHOOSE f : f \in Turns(S, a, G, n)
<1>1. \A n \in Nat : Run(n) \in Turns(S, a, G, n)
  BY TurnsExist
<1>. HIDE DEF Run
<1>2. \A n \in Nat : /\ Run(n) \in [0 .. n -> S] /\ Run(n)[0] = a
                     /\ \A i \in 0 .. n - 1 : Run(n)[i + 1] = G[i][Run(n)[i]]
  BY <1>1 DEF Turns
<1>. DEFINE F == [n \in Nat |-> Run(n)[n]]
<1>3. F \in [Nat -> S] /\ F[0] = a
  BY <1>2
<1>4. ASSUME NEW n \in Nat  PROVE F[n + 1] = G[n][F[n]]
  <2>1. Run(n + 1)[n + 1] = G[n][Run(n + 1)[n]]
    BY <1>2
  <2>2. Run(n + 1)[n] = Run(n)[n]
    BY <1>1, TurnsAgree
  <2>3. F[n + 1] = Run(n + 1)[n + 1] /\ F[n] = Run(n)[n]
    OBVIOUS
  <2>. QED  BY <2>1, <2>2, <2>3
<1>. QED  BY <1>3, <1>4

\* Max of a set of numbers with a bound is its greatest element.
LEMMA MaxIs ==
  ASSUME NEW S \in SUBSET Int, S # {}, NEW b \in Int, \A x \in S : x <= b
  PROVE  Max(S) \in S /\ \A x \in S : x <= Max(S)
<1>. DEFINE T == {k \in Nat : b - k \in S}
<1>1. T # {}
  <2>1. PICK x \in S : TRUE
    OBVIOUS
  <2>2. b - x \in Nat /\ b - (b - x) = x
    BY <2>1
  <2>3. b - x \in T
    BY <2>1, <2>2
  <2>. QED  BY <2>3
<1>2. PICK m \in T : \A k \in T : m <= k
  <2>1. T \in SUBSET Nat
    OBVIOUS
  <2>. HIDE DEF T
  <2>. QED  BY <1>1, <2>1, Least
<1>3. ASSUME NEW x \in S  PROVE x <= b - m
  <2>1. b - x \in Nat /\ b - (b - x) = x /\ x \in Int
    OBVIOUS
  <2>2. b - x \in T
    BY <2>1
  <2>3. m \in Nat /\ m <= b - x
    BY <1>2, <2>2
  <2>. QED  BY <2>1, <2>3
<1>4. b - m \in S
  BY <1>2
<1>. DEFINE greatest == CHOOSE x \in S : \A y \in S : x >= y
<1>5. \E x \in S : \A y \in S : x >= y
  <2>1. \A y \in S : b - m >= y
    BY <1>3, <1>4
  <2>. QED  BY <1>4, <2>1
<1>6. greatest \in S /\ \A y \in S : greatest >= y
  BY <1>5
<1>7. Max(S) = greatest
  BY DEF Max
<1>. HIDE DEF greatest
<1>8. \A y \in S : y <= greatest
  BY <1>6
<1>. QED  BY <1>6, <1>7, <1>8

-----------------------------------------------------------------------------
(* psh2 *)

\* The first numargs entries of arglist are the words typed since the last
\* command ended, at the beginning of a command the user means to type; when
\* execute is called the entry after them is NULL, and what execvp makes of
\* the list is what the child has.
WordsInv ==
  /\ PshTypeOK
  /\ typed # <<>> => \E c \in Commands : IsPrefix(typed, c)
  /\ numargs = Len(typed)
  /\ \A i \in 1 .. numargs : arglist[i - 1] = typed[i]
  /\ psh \in {"prompt", "run"} => numargs < MAXARGS
  /\ psh = "run" => arglist[numargs] = NULL
  /\ psh = "wait" => child_argv = typed
  /\ child_argv # <<>> => \E c \in Commands : IsPrefix(child_argv, c)

\* Min of a set of numbers is its least element.
LEMMA MinIs ==
  ASSUME NEW S \in SUBSET Int, NEW m \in S, \A x \in S : m <= x
  PROVE  Min(S) = m
<1>1. \A x \in S : (\A y \in S : x <= y) => x = m
  <2>. SUFFICES ASSUME NEW x \in S, \A y \in S : x <= y  PROVE x = m
    OBVIOUS
  <2>1. x <= m /\ m <= x /\ x \in Int /\ m \in Int
    OBVIOUS
  <2>. QED  BY <2>1
<1>2. \E x \in S : \A y \in S : x <= y
  OBVIOUS
<1>. DEFINE least == CHOOSE x \in S : \A y \in S : x <= y
<1>3. least \in S /\ \A y \in S : least <= y
  BY <1>2
<1>4. Min(S) = least
  BY DEF Min
<1>. QED  BY <1>1, <1>3, <1>4

\* A beginning of a command has the command's words.
LEMMA PrefixWords ==
  ASSUME NEW S, NEW s \in Seq(S), NEW c \in Commands, IsPrefix(s, c)
  PROVE  /\ Len(s) <= Len(c)
         /\ \A i \in 1 .. Len(s) : s[i] = c[i] /\ c[i] \in TypedWords
<1>1. c \in Seq(TypedWords)
  BY Psh2Assumption DEF Psh2Assumption
<1>2. /\ Len(s) \in Nat /\ Len(c) \in Nat /\ Len(s) <= Len(c)
      /\ SubSeq(s, 1, Len(s)) = SubSeq(c, 1, Len(s))
  BY <1>1, LenProperties DEF IsPrefix
<1>3. SubSeq(s, 1, Len(s)) = s
  BY SubSeqFull
<1>4. \A i \in 1 .. Len(s) : c[i] \in TypedWords
  BY <1>1, <1>2, ElementOfSeq
<1>5. \A i \in 1 .. Len(s) - 1 + 1 : SubSeq(c, 1, Len(s))[i] = c[1 + i - 1]
  BY <1>2, <1>4, SubSeqProperties
<1>. QED  BY <1>2, <1>3, <1>4, <1>5

\* A word that makes a beginning of a command is one of the words of commands.
LEMMA PrefixWord ==
  ASSUME NEW s \in Seq(TypedWords), NEW w, NEW c \in Commands,
         IsPrefix(Append(s, w), c)
  PROVE  w \in TypedWords
<1>. DEFINE u == Append(s, w)
<1>1. s \in Seq(TypedWords \cup {w}) /\ w \in TypedWords \cup {w}
  BY SeqMonotonic
<1>2. /\ u \in Seq(TypedWords \cup {w}) /\ Len(u) = Len(s) + 1
      /\ u[Len(s) + 1] = w /\ Len(s) \in Nat
  BY <1>1, AppendProperties, LenProperties
<1>3. Len(u) \in 1 .. Len(u)
  BY <1>2
<1>4. u[Len(u)] \in TypedWords
  BY <1>2, <1>3, PrefixWords
<1>. QED  BY <1>2, <1>4

\* execvp sees the words of the command and none behind the NULL.
LEMMA ArgvIsTyped ==
  ASSUME WordsInv, psh = "run"
  PROVE  Argv = typed
<1>1. /\ numargs \in Nat /\ numargs < MAXARGS /\ MAXARGS \in Nat
      /\ typed \in Seq(TypedWords) /\ Len(typed) = numargs
      /\ arglist[numargs] = NULL
      /\ \A i \in 1 .. numargs : arglist[i - 1] = typed[i]
  BY Psh2Assumption DEF WordsInv, PshTypeOK, Psh2Assumption
<1>. DEFINE ends == {i \in 0 .. MAXARGS : arglist[i] = NULL}
<1>2. numargs \in ends /\ ends \in SUBSET Int
  BY <1>1
<1>3. ASSUME NEW x \in ends  PROVE numargs <= x
  <2>. SUFFICES ASSUME x < numargs  PROVE FALSE
    BY <1>1
  <2>1. x \in 0 .. MAXARGS /\ x + 1 \in 1 .. numargs /\ arglist[x] = NULL
    BY <1>1
  <2>2. arglist[(x + 1) - 1] = typed[x + 1]
    BY <1>1, <2>1
  <2>3. typed[x + 1] = NULL
    BY <2>1, <2>2
  <2>4. typed[x + 1] \in TypedWords
    BY <1>1, <2>1, ElementOfSeq
  <2>. QED  BY <2>3, <2>4, Psh2Assumption DEF Psh2Assumption
<1>4. Min(ends) = numargs
  BY <1>2, <1>3, MinIs
<1>5. ends # {}
  BY <1>2
<1>. HIDE DEF ends
<1>6. Argv = [i \in 1 .. numargs |-> arglist[i - 1]]
  BY <1>4, <1>5 DEF Argv, ends
<1>7. typed = [i \in 1 .. numargs |-> typed[i]]
  BY <1>1, LenProperties
<1>. QED  BY <1>1, <1>6, <1>7

\* What a step of the session is for psh2.
LEMMA PshSteps ==
  ASSUME Next
  PROVE  \/ \E w : ReadWord(w)
         \/ EndOfInput \/ EmptyLine \/ Fork \/ ForkFails \/ ChildEnds \/ Interrupt
         \/ UNCHANGED pshvars
BY DEF Next, Type, EndTyping, Execute, ExecMyLs, ExecTinyBc, ExecClient, ExecEnds,
       ProgramExits, Wait, ControlC, MyLs, Bc, Dc, Server, Client, Elsewhere

\* Every step keeps the invariant.
LEMMA WordsStep ==
  ASSUME WordsInv, [Next]_vars
  PROVE  WordsInv'
<1>0. /\ numargs \in 0 .. MAXARGS /\ MAXARGS \in Nat \ {0}
      /\ typed \in Seq(TypedWords) /\ numargs = Len(typed)
      /\ arglist \in [0 .. MAXARGS -> TypedWords \cup {NULL, JUNK}]
      /\ child_argv \in Seq(TypedWords)
  BY Psh2Assumption DEF WordsInv, PshTypeOK, Psh2Assumption
<1>1. ASSUME NEW w, ReadWord(w)  PROVE WordsInv'
  <2>1. PICK c \in Commands : IsPrefix(Append(typed, w), c)
    BY <1>1 DEF ReadWord
  <2>2. w \in TypedWords
    BY <1>0, <2>1, PrefixWord
  <2>3. /\ psh = "prompt" /\ numargs < MAXARGS
        /\ arglist' = [arglist EXCEPT ![numargs] = w]
        /\ numargs' = numargs + 1
        /\ psh' = IF numargs' < MAXARGS THEN "prompt" ELSE "gone"
        /\ typed' = Append(typed, w)
        /\ eof' = eof /\ child_argv' = child_argv
    BY <1>1 DEF ReadWord, WordsInv
  <2>4. /\ typed' \in Seq(TypedWords) /\ Len(typed') = numargs'
        /\ \A i \in 1 .. numargs : typed'[i] = typed[i]
        /\ typed'[numargs + 1] = w
    BY <1>0, <2>2, <2>3, AppendProperties
  <2>5. /\ arglist' \in [0 .. MAXARGS -> TypedWords \cup {NULL, JUNK}]
        /\ arglist'[numargs] = w
        /\ \A i \in 0 .. MAXARGS : i # numargs => arglist'[i] = arglist[i]
    BY <1>0, <2>2, <2>3
  <2>6. PshTypeOK'
    BY <1>0, <2>3, <2>4, <2>5 DEF WordsInv, PshTypeOK
  <2>7. ASSUME NEW i \in 1 .. numargs'  PROVE arglist'[i - 1] = typed'[i]
    <3>1. CASE i = numargs + 1
      BY <1>0, <2>4, <2>5, <3>1
    <3>2. CASE i # numargs + 1
      <4>1. i \in 1 .. numargs /\ i - 1 \in 0 .. MAXARGS /\ i - 1 # numargs
        BY <1>0, <2>3, <3>2
      <4>2. arglist[i - 1] = typed[i]
        BY <4>1 DEF WordsInv
      <4>. QED  BY <2>4, <2>5, <4>1, <4>2
    <3>. QED  BY <3>1, <3>2
  <2>8. \E d \in Commands : IsPrefix(typed', d)
    BY <2>1, <2>3
  <2>9. psh' \in {"prompt", "gone"} /\ (psh' = "prompt" => numargs' < MAXARGS)
    BY <2>3
  <2>10. child_argv' # <<>> => \E d \in Commands : IsPrefix(child_argv', d)
    BY <2>3 DEF WordsInv
  <2>. QED  BY <2>4, <2>6, <2>7, <2>8, <2>9, <2>10 DEF WordsInv
<1>2. CASE EndOfInput
  BY <1>2 DEF EndOfInput, WordsInv, PshTypeOK
<1>3. CASE EmptyLine
  <2>1. /\ psh = "prompt" /\ psh' = "run" /\ numargs < MAXARGS
        /\ arglist' = [arglist EXCEPT ![numargs] = NULL]
        /\ UNCHANGED <<numargs, eof, child_argv, typed>>
    BY <1>3 DEF EmptyLine, EndList, WordsInv
  <2>2. /\ arglist' \in [0 .. MAXARGS -> TypedWords \cup {NULL, JUNK}]
        /\ arglist'[numargs] = NULL
        /\ \A i \in 0 .. MAXARGS : i # numargs => arglist'[i] = arglist[i]
    BY <1>0, <2>1
  <2>3. \A i \in 1 .. numargs : i - 1 \in 0 .. MAXARGS /\ i - 1 # numargs
    BY <1>0
  <2>. QED  BY <2>1, <2>2, <2>3 DEF WordsInv, PshTypeOK
<1>4. CASE Fork
  <2>1. /\ psh = "run" /\ psh' = "wait" /\ child_argv' = typed
        /\ UNCHANGED <<arglist, numargs, eof, typed>>
    BY <1>4, ArgvIsTyped DEF Fork
  <2>2. child_argv' # <<>> => \E c \in Commands : IsPrefix(child_argv', c)
    BY <2>1 DEF WordsInv
  <2>. QED  BY <1>0, <2>1, <2>2 DEF WordsInv, PshTypeOK
<1>5. CASE ForkFails \/ Interrupt
  BY <1>5 DEF ForkFails, Interrupt, WordsInv, PshTypeOK
<1>6. CASE ChildEnds
  <2>1. <<>> \in Seq(TypedWords) /\ Len(<<>>) = 0
    BY EmptySeq
  <2>2. /\ psh' = "prompt" /\ numargs' = 0 /\ child_argv' = <<>> /\ typed' = <<>>
        /\ UNCHANGED <<arglist, eof>>
    BY <1>6 DEF ChildEnds
  <2>. QED  BY <1>0, <2>1, <2>2 DEF WordsInv, PshTypeOK
<1>7. CASE UNCHANGED pshvars
  BY <1>7 DEF pshvars, WordsInv, PshTypeOK
<1>. QED
  BY <1>1, <1>2, <1>3, <1>4, <1>5, <1>6, <1>7, PshSteps DEF vars

\* psh2 starts with an empty list.
LEMMA InitWords ==
  ASSUME Init
  PROVE  WordsInv
<1>1. <<>> \in Seq(TypedWords) /\ Len(<<>>) = 0
  BY EmptySeq
<1>. QED
  BY <1>1, Psh2Assumption DEF Init, PshInit, WordsInv, PshTypeOK, Psh2Assumption

\* The invariant holds in every state.
LEMMA WordsInvHolds == Spec => []WordsInv
BY InitWords, WordsStep, PTL DEF Spec

\* The program psh2 runs gets the words typed since the last command, all of
\* them and none that arglist has left of an earlier one, however many there
\* are and however the earlier ones ended.
THEOREM RunsTheorem == Spec => []RunsWhatWasTyped
<1>1. WordsInv => RunsWhatWasTyped
  BY DEF WordsInv, RunsWhatWasTyped
<1>. QED  BY <1>1, WordsInvHolds, PTL

-----------------------------------------------------------------------------
(* The stream servers and their clients *)

\* sanitize() leaves a name of which it keeps every character as it is.
LEMMA CleanStays ==
  ASSUME NEW X, NEW s \in Seq(X), NEW kept, \A i \in DOMAIN s : s[i] \in kept
  PROVE  Copied(s, kept) = s
<1>. DEFINE N == Len(s)
<1>. DEFINE Eq(q) == q = [i \in 0 .. N |-> IF i = 0 THEN <<>>
                                          ELSE IF s[i] \in kept THEN Append(q[i - 1], s[i])
                                          ELSE q[i - 1]]
<1>. DEFINE dest == CHOOSE q : Eq(q)
<1>. DEFINE part == [i \in 0 .. N |-> SubSeq(s, 1, i)]
<1>1. N \in Nat /\ DOMAIN s = 1 .. N /\ \A i \in 1 .. N : s[i] \in kept
  BY LenProperties
<1>. HIDE DEF N
<1>2. SubSeq(s, 1, 0) = <<>> /\ SubSeq(s, 1, N) = s
  BY SubSeqEmpty, SubSeqFull DEF N
<1>3. ASSUME NEW i \in 1 .. N  PROVE SubSeq(s, 1, i) = Append(SubSeq(s, 1, i - 1), s[i])
  <2>1. s[i] \in X /\ \A k \in 1 .. i : s[k] \in X
    BY <1>1, ElementOfSeq DEF N
  <2>. DEFINE u == SubSeq(s, 1, i)
  <2>. DEFINE v == SubSeq(s, 1, i - 1)
  <2>2. /\ u \in Seq(X) /\ Len(u) = i
        /\ \A k \in 1 .. i : u[k] = s[k]
    <3>1. /\ SubSeq(s, 1, i) \in Seq(X) /\ Len(SubSeq(s, 1, i)) = i - 1 + 1
          /\ \A k \in 1 .. i - 1 + 1 : SubSeq(s, 1, i)[k] = s[1 + k - 1]
      BY <1>1, <2>1, SubSeqProperties
    <3>. QED  BY <1>1, <3>1
  <2>3. /\ v \in Seq(X) /\ Len(v) = i - 1
        /\ \A k \in 1 .. i - 1 : v[k] = s[k]
    <3>1. /\ SubSeq(s, 1, i - 1) \in Seq(X)
          /\ Len(SubSeq(s, 1, i - 1)) = IF 1 <= i - 1 THEN i - 1 - 1 + 1 ELSE 0
          /\ \A k \in 1 .. i - 1 - 1 + 1 : SubSeq(s, 1, i - 1)[k] = s[1 + k - 1]
      BY <1>1, <2>1, SubSeqProperties
    <3>. QED  BY <1>1, <3>1
  <2>. HIDE DEF u, v
  <2>4. /\ Append(v, s[i]) \in Seq(X) /\ Len(Append(v, s[i])) = i
        /\ \A k \in 1 .. i - 1 : Append(v, s[i])[k] = v[k]
        /\ Append(v, s[i])[i] = s[i]
    BY <1>1, <2>1, <2>3, AppendProperties
  <2>5. \A k \in 1 .. i : u[k] = Append(v, s[i])[k]
    BY <1>1, <2>2, <2>3, <2>4
  <2>6. u = Append(v, s[i])
    BY <2>2, <2>4, <2>5, SeqEqual
  <2>. QED  BY <2>6 DEF u, v
<1>4. Eq(part)
  <2>. DEFINE h == [i \in 0 .. N |-> IF i = 0 THEN <<>>
                                    ELSE IF s[i] \in kept THEN Append(part[i - 1], s[i])
                                    ELSE part[i - 1]]
  <2>1. ASSUME NEW i \in 0 .. N  PROVE part[i] = h[i]
    <3>1. part[i] = SubSeq(s, 1, i)
      OBVIOUS
    <3>2. CASE i = 0
      BY <1>2, <3>1, <3>2
    <3>3. CASE i # 0
      <4>1. i \in 1 .. N /\ i - 1 \in 0 .. N /\ s[i] \in kept
        BY <1>1, <3>3
      <4>2. part[i - 1] = SubSeq(s, 1, i - 1)
        BY <4>1
      <4>3. part[i] = Append(part[i - 1], s[i])
        BY <1>3, <3>1, <4>1, <4>2
      <4>4. h[i] = Append(part[i - 1], s[i])
        <5>. HIDE DEF part
        <5>. QED  BY <3>3, <4>1
      <4>. QED  BY <4>3, <4>4
    <3>. QED  BY <3>2, <3>3
  <2>2. part = [i \in 0 .. N |-> part[i]] /\ h = [i \in 0 .. N |-> h[i]]
    OBVIOUS
  <2>3. part = h
    <3>. HIDE DEF part, h
    <3>. QED  BY <2>1, <2>2
  <2>. QED  BY <2>3
<1>5. Eq(dest)
  <2>. HIDE DEF Eq, part
  <2>. QED  BY <1>4
<1>6. /\ dest[0] = <<>>
      /\ \A i \in 1 .. N : dest[i] = Append(dest[i - 1], s[i])
  <2>. HIDE DEF dest
  <2>1. \A i \in 0 .. N : dest[i] = IF i = 0 THEN <<>>
                                   ELSE IF s[i] \in kept THEN Append(dest[i - 1], s[i])
                                   ELSE dest[i - 1]
    BY <1>5
  <2>2. 0 \in 0 .. N /\ \A i \in 1 .. N : i \in 0 .. N /\ i # 0 /\ s[i] \in kept
    BY <1>1
  <2>. QED  BY <2>1, <2>2
<1>7. Copied(s, kept) = dest[N]
  <2>. HIDE DEF part
  <2>. QED  BY ONLY TRUE DEF Copied, N, Eq, dest
<1>. HIDE DEF dest
<1>. DEFINE T == {i \in 0 .. N : dest[i] # SubSeq(s, 1, i)}
<1>8. SUFFICES ASSUME T # {}  PROVE FALSE
  <2>1. N \in 0 .. N
    BY <1>1
  <2>2. N \notin T => dest[N] = SubSeq(s, 1, N)
    BY <2>1
  <2>. HIDE DEF T
  <2>. QED  BY <1>2, <1>7, <2>2
<1>9. PICK m \in T : \A i \in T : m <= i
  <2>1. T \in SUBSET Nat
    BY <1>1
  <2>. HIDE DEF T
  <2>. QED  BY <1>8, <2>1, Least
<1>10. m # 0
  <2>1. dest[0] = SubSeq(s, 1, 0)
    BY <1>2, <1>6
  <2>2. dest[m] # SubSeq(s, 1, m)
    BY <1>9
  <2>. QED  BY <2>1, <2>2
<1>11. m - 1 \in 0 .. N /\ m - 1 \notin T /\ m \in 1 .. N
  BY <1>1, <1>9, <1>10
<1>12. dest[m - 1] = SubSeq(s, 1, m - 1)
  BY <1>11
<1>13. dest[m] = SubSeq(s, 1, m)
  BY <1>3, <1>6, <1>11, <1>12
<1>. QED  BY <1>9, <1>13

\* What a client asks for, as the server reads it; and the first n blocks of
\* what ls prints for s.
Asked(c) == Sanitize(Spelled[wants[c]])
Part(s, n) == [i \in 1 .. n |-> [dir |-> s, part |-> i]]

\* Who is in the queue is there once, has been sent nothing and is not the
\* caller; who is in the queue or served has dialed and is not hung up on.
CallInv ==
  /\ \A i, j \in DOMAIN queue : queue[i] = queue[j] => i = j
  /\ \A i \in DOMAIN queue :
       /\ queue[i] # caller /\ client[queue[i]] \notin {"idle", "dial"}
       /\ ~hungup[queue[i]] /\ got[queue[i]] = <<>>
  /\ caller # Nobody => client[caller] \notin {"idle", "dial"} /\ ~hungup[caller]
  /\ \A c \in Clients : client[c] \in {"idle", "dial"} => ~hungup[c] /\ got[c] = <<>>
  /\ \A c \in Clients : /\ client[c] \in {"idle", "dial", "send"} => sent[c] = 0
                        /\ client[c] = "newline" => sent[c] = 1
                        /\ client[c] # "idle" => wants[c] \in Dirs

\* What rlsd is about is the name its caller asked for, and what the caller has
\* been sent, if nobody killed it, is the beginning of that listing.  A write
\* to a caller who is gone is followed by another only if there is more than
\* one block; timeserv writes once.
ServeInv ==
  /\ server = "none" => srv = "gone"
  /\ srv \in {"read", "popen"} => server = "rlsd" /\ got[caller] = <<>> /\ ~reset
  /\ server = "rlsd" /\ srv \in {"popen", "write"} => dirname = Asked(caller)
  /\ server = "rlsd" /\ srv = "write" =>
       /\ left <= Output(dirname)
       /\ client[caller] # "killed" => got[caller] = Part(dirname, Output(dirname) - left)
       /\ reset => left < Output(dirname) /\ client[caller] = "killed"
  /\ server = "timeserv" /\ srv = "write" => left <= 1 /\ (reset => left = 0)

\* Who was hung up on, and who ended by himself while rlsd runs, has the whole.
DoneInv ==
  server = "rlsd" => \A c \in Clients :
    /\ hungup[c] /\ client[c] # "killed" => got[c] = Listing(Asked(c))
    /\ client[c] = "done" => hungup[c] \/ srv = "gone"

StreamInv ==
  StreamTypeOK /\ CallInv /\ ServeInv /\ DoneInv /\ ServerLives

\* What a step of the session is for the servers and the clients: somebody
\* asks for one of the names, is killed, or goes on, or the server does.
LEMMA StreamSteps ==
  ASSUME WordsInv, StreamTypeOK, Next
  PROVE  \/ \E c \in Clients, d \in Dirs : Dial(c, d)
         \/ \E c \in Clients : Kill(c) \/ ClientStep(c)
         \/ ServerStep
         \/ UNCHANGED streamvars
<1>1. Here \in Clients /\ AsksOf \in [Servers -> SUBSET Dirs]
  BY SessionAssumption DEF SessionAssumption
<1>2. ASSUME ExecClient  PROVE \E d \in Dirs : Dial(Here, d)
  <2>1. /\ Len(child_argv) = 3 /\ child_argv[1] \in {"rls", "timecInt"}
        /\ Dial(Here, child_argv[3])
    BY <1>2 DEF ExecClient, Runs, ClientName
  <2>2. child_argv \in Seq(TypedWords)
    BY DEF WordsInv, PshTypeOK
  <2>3. child_argv # <<>>
    BY <2>1, <2>2, EmptySeq
  <2>4. PICK c \in Commands : IsPrefix(child_argv, c)
    BY <2>3 DEF WordsInv
  <2>5. 3 <= Len(c) /\ \A i \in 1 .. 3 : child_argv[i] = c[i]
    BY <2>1, <2>2, <2>4, PrefixWords
  <2>6. child_argv[3] = c[3] /\ child_argv[1] = c[1]
    BY <2>5
  <2>7. Len(c) \in Nat
    BY <2>4, Psh2Assumption, LenProperties DEF Psh2Assumption
  <2>8. c[3] \in Dirs
    BY <2>1, <2>5, <2>6, <2>7, SessionAssumption DEF SessionAssumption
  <2>. QED  BY <2>1, <2>6, <2>8
<1>3. ASSUME Elsewhere
      PROVE  \E c \in Clients : (\E d \in Dirs : Dial(c, d)) \/ Kill(c)
  BY <1>1, <1>3 DEF Elsewhere, StreamTypeOK
<1>4. ASSUME ControlC  PROVE Kill(Here) \/ UNCHANGED streamvars
  BY <1>4 DEF ControlC
<1>5. ASSUME Type \/ EndTyping \/ Execute \/ ExecMyLs \/ ExecTinyBc \/ ExecEnds
               \/ ProgramExits \/ Wait \/ MyLs \/ Bc \/ Dc
      PROVE  UNCHANGED streamvars
  BY <1>5 DEF Type, EndTyping, Execute, ExecMyLs, ExecTinyBc, ExecEnds,
              ProgramExits, Wait, MyLs, Bc, Dc
<1>6. ASSUME Server  PROVE ServerStep
  BY <1>6 DEF Server
<1>7. ASSUME NEW c \in Clients, Client(c)  PROVE ClientStep(c)
  BY <1>7 DEF Client
<1>. QED  BY <1>1, <1>2, <1>3, <1>4, <1>5, <1>6, <1>7 DEF Next

\* The types, with the two sets of records spelled no further.
LEMMA StreamTypes ==
  ASSUME StreamTypeOK
  PROVE  /\ queue \in Seq(Clients) /\ Len(queue) \in Nat /\ Len(queue) <= QueueMax
         /\ DOMAIN queue = 1 .. Len(queue)
         /\ \A i \in DOMAIN queue : queue[i] \in Clients
         /\ Nobody \notin Clients /\ QueueMax \in Nat
         /\ srv \notin {"accept", "gone"} => caller \in Clients
         /\ srv \in {"accept", "gone"} => caller = Nobody
         /\ DOMAIN client = Clients /\ DOMAIN wants = Clients /\ DOMAIN sent = Clients
         /\ DOMAIN got = Clients /\ DOMAIN hungup = Clients
BY NobodyAssumption, StreamServerAssumption, LenProperties, ElementOfSeq
DEF NobodyAssumption, StreamServerAssumption, StreamTypeOK

\* A program that is started has not been served yet.
LEMMA DialStep ==
  ASSUME StreamInv, NEW c \in Clients, NEW d \in Dirs, Dial(c, d)
  PROVE  StreamInv'
<1>0. /\ DOMAIN client = Clients /\ DOMAIN wants = Clients /\ Nobody \notin Clients
      /\ \A i \in DOMAIN queue : queue[i] \in Clients
      /\ srv \notin {"accept", "gone"} => caller \in Clients
  BY StreamTypes DEF StreamInv
<1>1. /\ client[c] = "idle" /\ client' = [client EXCEPT ![c] = "dial"]
      /\ wants' = [wants EXCEPT ![c] = d]
      /\ UNCHANGED <<server, srv, queue, caller, dirname, left, reset, nopopen,
                     sent, got, hungup>>
  BY DEF Dial, ClientGoto, srvvars
<1>2. /\ client'[c] = "dial" /\ wants'[c] = d
      /\ \A e \in Clients : e # c => client'[e] = client[e] /\ wants'[e] = wants[e]
      /\ ~hungup[c] /\ got[c] = <<>> /\ sent[c] = 0
      /\ \A i \in DOMAIN queue : queue[i] # c
      /\ caller # c
  BY <1>0, <1>1 DEF StreamInv, CallInv
<1>3. StreamTypeOK'
  BY <1>0, <1>1 DEF StreamInv, StreamTypeOK
<1>4. CallInv'
  BY <1>0, <1>1, <1>2 DEF StreamInv, CallInv, StreamTypeOK
<1>5. Asked(caller)' = Asked(caller) \/ srv \in {"accept", "gone"}
  BY <1>0, <1>1, <1>2 DEF Asked
<1>6. ServeInv'
  BY <1>0, <1>1, <1>2, <1>5 DEF StreamInv, ServeInv
<1>7. \A e \in Clients : e # c => Asked(e)' = Asked(e)
  BY <1>2 DEF Asked
<1>8. DoneInv'
  BY <1>1, <1>2, <1>7 DEF StreamInv, DoneInv
<1>9. ServerLives'
  BY <1>1, <1>2 DEF StreamInv, ServerLives
<1>. QED  BY <1>3, <1>4, <1>6, <1>8, <1>9 DEF StreamInv

\* A client that gets into the queue is one the server knows nothing of.
LEMMA ConnectStep ==
  ASSUME StreamInv, NEW c \in Clients, Connect(c)
  PROVE  StreamInv'
<1>0. /\ DOMAIN client = Clients /\ Nobody \notin Clients
      /\ queue \in Seq(Clients) /\ Len(queue) \in Nat /\ QueueMax \in Nat
      /\ DOMAIN queue = 1 .. Len(queue)
      /\ \A i \in DOMAIN queue : queue[i] \in Clients
      /\ srv \notin {"accept", "gone"} => caller \in Clients
  BY StreamTypes DEF StreamInv
<1>1. PICK to \in {"send", "receive"} :
        /\ client[c] = "dial" /\ client' = [client EXCEPT ![c] = to]
        /\ Len(queue) < QueueMax /\ queue' = Append(queue, c)
        /\ UNCHANGED <<server, srv, caller, dirname, left, reset, nopopen, wants,
                       sent, got, hungup>>
  BY DEF Connect, ClientGoto
<1>2. /\ client'[c] = to /\ \A e \in Clients : e # c => client'[e] = client[e]
      /\ ~hungup[c] /\ got[c] = <<>> /\ sent[c] = 0 /\ wants[c] \in Dirs
      /\ \A i \in DOMAIN queue : queue[i] # c
      /\ caller # c
  BY <1>0, <1>1 DEF StreamInv, CallInv
<1>3. /\ queue' \in Seq(Clients) /\ Len(queue') = Len(queue) + 1
      /\ DOMAIN queue' = 1 .. Len(queue) + 1 /\ queue'[Len(queue) + 1] = c
      /\ \A i \in DOMAIN queue : queue'[i] = queue[i]
  BY <1>0, <1>1, AppendProperties, LenProperties
<1>4. StreamTypeOK'
  <2>1. Len(queue') <= QueueMax
    BY <1>0, <1>1, <1>3
  <2>. QED  BY <1>0, <1>1, <1>3, <2>1 DEF StreamInv, StreamTypeOK
<1>5. CallInv'
  <2>1. \A i \in DOMAIN queue' : i \in DOMAIN queue \/ i = Len(queue) + 1
    BY <1>0, <1>3
  <2>2. \A i, j \in DOMAIN queue' : queue'[i] = queue'[j] => i = j
    BY <1>2, <1>3, <2>1 DEF StreamInv, CallInv
  <2>3. ASSUME NEW i \in DOMAIN queue'
        PROVE  /\ queue'[i] # caller /\ client'[queue'[i]] \notin {"idle", "dial"}
               /\ ~hungup[queue'[i]] /\ got[queue'[i]] = <<>>
    <3>1. CASE i \in DOMAIN queue
      BY <1>0, <1>2, <1>3, <3>1 DEF StreamInv, CallInv
    <3>2. CASE i = Len(queue) + 1
      BY <1>2, <1>3, <3>2
    <3>. QED  BY <2>1, <3>1, <3>2
  <2>4. caller # Nobody => client'[caller] \notin {"idle", "dial"} /\ ~hungup[caller]
    BY <1>0, <1>1, <1>2 DEF StreamInv, CallInv, StreamTypeOK
  <2>5. \A e \in Clients :
          /\ client'[e] \in {"idle", "dial"} => ~hungup[e] /\ got[e] = <<>>
          /\ client'[e] \in {"idle", "dial", "send"} => sent[e] = 0
          /\ client'[e] = "newline" => sent[e] = 1
          /\ client'[e] # "idle" => wants[e] \in Dirs
    BY <1>2 DEF StreamInv, CallInv
  <2>. QED  BY <1>1, <2>2, <2>3, <2>4, <2>5 DEF CallInv
<1>6. \A e : Asked(e)' = Asked(e)
  BY <1>1 DEF Asked
<1>7. ServeInv'
  BY <1>0, <1>1, <1>2, <1>6 DEF StreamInv, ServeInv
<1>8. DoneInv'
  BY <1>1, <1>2, <1>6 DEF StreamInv, DoneInv
<1>9. ServerLives'
  BY <1>1, <1>2 DEF StreamInv, ServerLives
<1>. QED  BY <1>4, <1>5, <1>7, <1>8, <1>9 DEF StreamInv

\* A connected client that writes, ends, or is killed: the server has what it
\* had, and one that ends by itself was hung up on, by rlsd if that still runs.
LEMMA ClientMoves ==
  ASSUME StreamInv, NEW c \in Clients,
         NEW from \in {"dial", "send", "newline", "receive"},
         NEW to \in {"newline", "receive", "done", "failed", "killed"},
         client[c] = from, client' = [client EXCEPT ![c] = to],
         \/ sent' = sent /\ to \in {"done", "failed", "killed"}
         \/ /\ sent' = [sent EXCEPT ![c] = @ + 1]
            /\ <<from, to>> \in {<<"send", "newline">>, <<"newline", "receive">>}
            /\ srv # "gone",
         to = "failed" => from = "dial" \/ srv = "gone",
         to = "done" /\ server = "rlsd" => hungup[c] \/ srv = "gone",
         UNCHANGED <<server, srv, queue, caller, dirname, left, reset, nopopen,
                     wants, got, hungup>>
  PROVE  StreamInv'
<1>0. /\ DOMAIN client = Clients /\ DOMAIN sent = Clients /\ Nobody \notin Clients
      /\ \A i \in DOMAIN queue : queue[i] \in Clients
      /\ srv \notin {"accept", "gone"} => caller \in Clients
  BY StreamTypes DEF StreamInv
<1>1. /\ client'[c] = to /\ \A e \in Clients : e # c => client'[e] = client[e]
      /\ \A e \in Clients : e # c => sent'[e] = sent[e]
      /\ from = "send" => sent[c] = 0
      /\ from = "newline" => sent[c] = 1
      /\ wants[c] \in Dirs
  BY <1>0 DEF StreamInv, CallInv
<1>2. /\ to = "newline" => sent'[c] = 1
      /\ to = "receive" => sent'[c] = 2
      /\ to \in {"done", "failed", "killed"} => sent'[c] = sent[c]
  BY <1>0, <1>1
<1>3. sent' \in [Clients -> 0 .. 2]
  <2>1. sent \in [Clients -> 0 .. 2]
    BY DEF StreamInv, StreamTypeOK
  <2>2. CASE sent' = sent
    BY <2>1, <2>2
  <2>3. CASE from \in {"send", "newline"} /\ sent' = [sent EXCEPT ![c] = @ + 1]
    <3>1. sent[c] + 1 \in 0 .. 2
      BY <1>1, <2>3
    <3>. QED  BY <2>1, <2>3, <3>1
  <2>. QED  BY <2>2, <2>3
<1>4. StreamTypeOK'
  BY <1>0, <1>3 DEF StreamInv, StreamTypeOK
<1>5. CallInv'
  BY <1>0, <1>1, <1>2 DEF StreamInv, CallInv, StreamTypeOK
<1>6. \A e : Asked(e)' = Asked(e)
  BY DEF Asked
<1>7. ServeInv'
  BY <1>0, <1>1, <1>6 DEF StreamInv, ServeInv
<1>8. DoneInv'
  BY <1>1, <1>6 DEF StreamInv, DoneInv
<1>9. ServerLives'
  BY <1>1, <1>2 DEF StreamInv, ServerLives
<1>. QED  BY <1>4, <1>5, <1>7, <1>8, <1>9 DEF StreamInv

\* Every step of a client keeps the invariant.
LEMMA ClientKeeps ==
  ASSUME StreamInv, NEW c \in Clients, Kill(c) \/ ClientStep(c)
  PROVE  StreamInv'
<1>1. CASE Connect(c)
  BY <1>1, ConnectStep
<1>2. CASE ClientOops(c)
  <2>1. PICK from \in {"dial", "send", "newline"} :
          client[c] = from /\ client' = [client EXCEPT ![c] = "failed"]
    BY <1>2 DEF ClientOops, ClientGoto
  <2>2. /\ srv = "gone" /\ sent' = sent
        /\ UNCHANGED <<server, srv, queue, caller, dirname, left, reset, nopopen,
                       wants, got, hungup>>
    BY <1>2 DEF ClientOops, srvvars
  <2>. QED  BY <2>1, <2>2, ClientMoves
<1>3. CASE WriteName(c)
  <2>1. /\ srv # "gone" /\ client[c] = "send"
        /\ client' = [client EXCEPT ![c] = "newline"]
        /\ sent' = [sent EXCEPT ![c] = @ + 1]
        /\ UNCHANGED <<server, srv, queue, caller, dirname, left, reset, nopopen,
                       wants, got, hungup>>
    BY <1>3 DEF WriteName, Write, ClientGoto, srvvars
  <2>. QED  BY <2>1, ClientMoves
<1>4. CASE WriteNewline(c)
  <2>1. /\ srv # "gone" /\ client[c] = "newline"
        /\ client' = [client EXCEPT ![c] = "receive"]
        /\ sent' = [sent EXCEPT ![c] = @ + 1]
        /\ UNCHANGED <<server, srv, queue, caller, dirname, left, reset, nopopen,
                       wants, got, hungup>>
    BY <1>4 DEF WriteNewline, Write, ClientGoto, srvvars
  <2>. QED  BY <2>1, ClientMoves
<1>5. CASE Receive(c)
  <2>1. /\ client[c] = "receive" /\ client' = [client EXCEPT ![c] = "done"]
        /\ server = "rlsd" => hungup[c] \/ srv = "gone"
        /\ UNCHANGED <<server, srv, queue, caller, dirname, left, reset, nopopen,
                       wants, sent, got, hungup>>
    BY <1>5 DEF Receive, Closed, ClientGoto, srvvars
  <2>. QED  BY <2>1, ClientMoves
<1>6. CASE Kill(c)
  <2>1. PICK from \in {"dial", "send", "newline", "receive"},
             to \in {"failed", "killed"} :
          /\ client[c] = from /\ client' = [client EXCEPT ![c] = to]
          /\ to = "failed" => from = "dial"
    BY <1>6 DEF Kill, ClientGoto
  <2>2. UNCHANGED <<server, srv, queue, caller, dirname, left, reset, nopopen,
                    wants, sent, got, hungup>>
    BY <1>6 DEF Kill, srvvars
  <2>. QED  BY <2>1, <2>2, ClientMoves
<1>. QED  BY <1>1, <1>2, <1>3, <1>4, <1>5, <1>6 DEF ClientStep

-----------------------------------------------------------------------------
(* The servers *)

\* The blocks of a listing, one by one.
LEMMA Parts ==
  ASSUME NEW s \in Names, NEW n \in Nat
  PROVE  /\ Part(s, n) \in Seq(SentBlocks) /\ Len(Part(s, n)) = n
         /\ Append(Part(s, n), [dir |-> s, part |-> n + 1]) = Part(s, n + 1)
         /\ Part(s, 0) = <<>>
         /\ Part(s, Output(s)) = Listing(s)
<1>. DEFINE p == Part(s, n)
<1>. DEFINE e == [dir |-> s, part |-> n + 1]
<1>1. \A m \in Nat : Part(s, m) \in [1 .. m -> SentBlocks]
  BY DEF Part, SentBlocks
<1>2. \A m \in Nat : Part(s, m) \in Seq(SentBlocks) /\ Len(Part(s, m)) = m
  BY <1>1, SeqDef, LenProperties
<1>3. e \in SentBlocks
  BY DEF SentBlocks
<1>4. /\ Append(p, e) \in Seq(SentBlocks) /\ Len(Append(p, e)) = n + 1
      /\ \A i \in 1 .. n : Append(p, e)[i] = p[i]
      /\ Append(p, e)[n + 1] = e
  BY <1>2, <1>3, AppendProperties
<1>5. \A i \in 1 .. n + 1 : Append(p, e)[i] = Part(s, n + 1)[i]
  <2>. SUFFICES ASSUME NEW i \in 1 .. n + 1
                PROVE  Append(p, e)[i] = Part(s, n + 1)[i]
    OBVIOUS
  <2>1. CASE i = n + 1
    BY <1>4, <2>1 DEF Part
  <2>2. CASE i \in 1 .. n
    BY <1>4, <2>2 DEF Part
  <2>3. i = n + 1 \/ i \in 1 .. n
    OBVIOUS
  <2>. QED  BY <2>1, <2>2, <2>3
<1>6. Append(p, e) = Part(s, n + 1)
  BY <1>2, <1>4, <1>5, SeqEqual
<1>7. Part(s, 0) = <<>>
  BY <1>2, EmptySeq
<1>8. Part(s, Output(s)) = Listing(s)
  BY DEF Part, Listing
<1>. QED  BY <1>2, <1>6, <1>7, <1>8

\* What sanitize() makes of a name is a name, and ls prints so many blocks.
LEMMA AskedNames ==
  /\ \A c \in Clients : wants[c] \in Dirs => Asked(c) \in Names
  /\ \A s : Output(s) \in Nat
  /\ <<>> \in Names
BY StreamServerAssumption DEF StreamServerAssumption, Asked, Names, Output

\* A server that dies: the reason is one of those ServerLives names.
LEMMA DieKeeps ==
  ASSUME StreamInv, Die, UNCHANGED <<server, dirname, left, reset, callvars>>,
         nopopen' \in BOOLEAN, nopopen => nopopen', server = "rlsd",
         \/ nopopen'
         \/ \E c \in Clients :
              /\ client[c] = "killed"
              /\ sent[c] = 0 \/ Output(Sanitize(Spelled[wants[c]])) > 1
  PROVE  StreamInv'
<1>1. /\ srv' = "gone" /\ caller' = Nobody /\ queue' = <<>>
      /\ UNCHANGED <<client, wants, sent, got, hungup>>
  BY DEF Die, callvars
<1>2. queue' \in Seq(Clients) /\ Len(queue') = 0 /\ DOMAIN queue' = {}
  BY <1>1, EmptySeq
<1>3. StreamTypeOK'
  <2>1. Len(queue') <= QueueMax
    BY <1>2, StreamTypes DEF StreamInv
  <2>. QED  BY <1>1, <1>2, <2>1 DEF StreamInv, StreamTypeOK
<1>4. CallInv'
  BY <1>1, <1>2 DEF StreamInv, CallInv
<1>5. ServeInv'
  BY <1>1 DEF StreamInv, ServeInv
<1>6. \A e : Asked(e)' = Asked(e)
  BY <1>1 DEF Asked
<1>7. DoneInv'
  BY <1>1, <1>6 DEF StreamInv, DoneInv
<1>8. ServerLives'
  BY <1>1 DEF ServerLives
<1>. QED  BY <1>3, <1>4, <1>5, <1>7, <1>8 DEF StreamInv

\* The first of the queue becomes the caller; it has been sent nothing.
LEMMA AcceptStep ==
  ASSUME StreamInv, Accept
  PROVE  StreamInv'
<1>0. /\ queue \in Seq(Clients) /\ Len(queue) \in Nat /\ Len(queue) <= QueueMax
      /\ DOMAIN queue = 1 .. Len(queue) /\ Nobody \notin Clients /\ QueueMax \in Nat
      /\ \A i \in DOMAIN queue : queue[i] \in Clients
      /\ server \in Servers /\ Servers \subseteq {"timeserv", "rlsd", "none"}
  BY StreamTypes, StreamServerAssumption
  DEF StreamInv, StreamTypeOK, StreamServerAssumption
<1>1. /\ srv = "accept" /\ queue # <<>> /\ caller' = Head(queue) /\ queue' = Tail(queue)
      /\ srv' = IF server = "rlsd" THEN "read" ELSE "write"
      /\ left' = IF server = "rlsd" THEN 0 ELSE 1
      /\ dirname' = <<>> /\ reset' = FALSE
      /\ UNCHANGED <<server, nopopen, client, wants, sent, got, hungup>>
  BY DEF Accept, callvars
<1>2. /\ Len(queue) >= 1 /\ 1 \in DOMAIN queue /\ Head(queue) = queue[1]
      /\ queue' \in Seq(Clients) /\ Len(queue') = Len(queue) - 1
      /\ DOMAIN queue' = 1 .. Len(queue) - 1
      /\ \A i \in 1 .. Len(queue) - 1 : queue'[i] = queue[i + 1]
  BY <1>0, <1>1, HeadTailProperties, LenProperties, EmptySeq
<1>3. \A i \in DOMAIN queue' :
        i + 1 \in DOMAIN queue /\ i + 1 # 1 /\ queue'[i] = queue[i + 1]
  BY <1>0, <1>2
<1>4. /\ caller' = queue[1] /\ caller' \in Clients
      /\ client[caller'] \notin {"idle", "dial"} /\ ~hungup[caller']
      /\ got[caller'] = <<>>
  BY <1>0, <1>1, <1>2 DEF StreamInv, CallInv
<1>5. StreamTypeOK'
  <2>1. Len(queue') <= QueueMax
    BY <1>0, <1>2
  <2>2. dirname' \in Names /\ left' \in Nat
    BY <1>1, AskedNames
  <2>3. srv' \in {"read", "write"} /\ caller' \in Clients /\ reset' \in BOOLEAN
    BY <1>0, <1>1, <1>4
  <2>. QED  BY <1>0, <1>1, <1>2, <2>1, <2>2, <2>3 DEF StreamInv, StreamTypeOK
<1>6. CallInv'
  <2>1. \A i, j \in DOMAIN queue' : queue'[i] = queue'[j] => i = j
    <3>. SUFFICES ASSUME NEW i \in DOMAIN queue', NEW j \in DOMAIN queue',
                         queue'[i] = queue'[j]
                  PROVE  i = j
      OBVIOUS
    <3>1. i + 1 = j + 1
      BY <1>3 DEF StreamInv, CallInv
    <3>. QED  BY <1>2, <3>1
  <2>2. \A i \in DOMAIN queue' :
          /\ queue'[i] # caller' /\ client[queue'[i]] \notin {"idle", "dial"}
          /\ ~hungup[queue'[i]] /\ got[queue'[i]] = <<>>
    BY <1>2, <1>3, <1>4 DEF StreamInv, CallInv
  <2>. QED  BY <1>1, <1>4, <2>1, <2>2 DEF StreamInv, CallInv
<1>7. ServeInv'
  BY <1>0, <1>1, <1>4 DEF StreamInv, ServeInv
<1>8. \A e : Asked(e)' = Asked(e)
  BY <1>1 DEF Asked
<1>9. DoneInv'
  BY <1>1, <1>8 DEF StreamInv, DoneInv
<1>10. ServerLives'
  BY <1>1 DEF ServerLives
<1>. QED  BY <1>5, <1>6, <1>7, <1>9, <1>10 DEF StreamInv

\* While rlsd serves a caller: what it goes on with, the queue and the clients
\* being as they were except for what the caller got.
LEMMA ServeKeeps ==
  ASSUME StreamInv, caller \in Clients,
         srv' \in {"popen", "write"}, dirname' \in Names, left' \in Nat,
         reset' \in BOOLEAN, got' \in [Clients -> Seq(SentBlocks)],
         \A c \in Clients : c # caller => got'[c] = got[c],
         UNCHANGED <<server, queue, caller, nopopen, client, wants, sent, hungup>>,
         ServeInv'
  PROVE  StreamInv'
<1>0. /\ Nobody \notin Clients /\ \A i \in DOMAIN queue : queue[i] \in Clients
  BY StreamTypes DEF StreamInv
<1>1. StreamTypeOK'
  BY <1>0 DEF StreamInv, StreamTypeOK
<1>2. CallInv'
  BY <1>0 DEF StreamInv, CallInv
<1>3. \A e : Asked(e)' = Asked(e)
  BY DEF Asked
<1>4. ~hungup[caller] /\ srv # "gone"
  BY <1>0, StreamTypes DEF StreamInv, CallInv
<1>5. DoneInv'
  BY <1>3, <1>4 DEF StreamInv, DoneInv
<1>6. ServerLives'
  BY DEF ServerLives
<1>. QED  BY <1>1, <1>2, <1>5, <1>6 DEF StreamInv

\* Every step of a server keeps the invariant.
LEMMA ServerKeeps ==
  ASSUME StreamInv, ServerStep
  PROVE  StreamInv'
<1>0. /\ srv \notin {"accept", "gone"} => caller \in Clients
      /\ DOMAIN got = Clients /\ DOMAIN hungup = Clients
      /\ got \in [Clients -> Seq(SentBlocks)] /\ left \in Nat /\ dirname \in Names
      /\ server \in {"timeserv", "rlsd", "none"} /\ Nobody \notin Clients
      /\ reset \in BOOLEAN /\ nopopen \in BOOLEAN
  BY StreamTypes, StreamServerAssumption
  DEF StreamInv, StreamTypeOK, StreamServerAssumption
<1>1. CASE Accept
  BY <1>1, AcceptStep
<1>2. CASE ReadDirname
  <2>1. /\ srv = "read" /\ srv' = "popen" /\ caller \in Clients
        /\ dirname' = Asked(caller) /\ Asked(caller)' = Asked(caller)
        /\ UNCHANGED <<server, queue, caller, left, reset, nopopen, client, wants,
                       sent, got, hungup>>
    BY <1>0, <1>2 DEF ReadDirname, callvars, Asked
  <2>2. wants[caller] \in Dirs
    BY <1>0, <2>1 DEF StreamInv, CallInv
  <2>3. dirname' \in Names
    BY <2>1, <2>2, AskedNames
  <2>4. ServeInv'
    BY <2>1 DEF StreamInv, ServeInv
  <2>. QED  BY <1>0, <2>1, <2>3, <2>4, ServeKeeps
<1>3. CASE ReadNothing
  <2>1. /\ srv = "read" /\ caller \in Clients /\ server = "rlsd"
        /\ sent[caller] = 0 /\ client[caller] = "killed"
        /\ Die /\ UNCHANGED <<server, dirname, left, reset, nopopen, callvars>>
    BY <1>0, <1>3 DEF ReadNothing, StreamInv, ServeInv
  <2>. QED  BY <1>0, <2>1, DieKeeps
<1>4. CASE Popen
  <2>1. /\ srv = "popen" /\ srv' = "write" /\ caller \in Clients
        /\ left' = Output(dirname) /\ left' \in Nat
        /\ Asked(caller)' = Asked(caller)
        /\ UNCHANGED <<server, queue, caller, dirname, reset, nopopen, client, wants,
                       sent, got, hungup>>
    BY <1>0, <1>4, AskedNames DEF Popen, callvars, Asked
  <2>2. /\ server = "rlsd" /\ got[caller] = <<>> /\ ~reset /\ dirname = Asked(caller)
    BY <2>1 DEF StreamInv, ServeInv
  <2>3. got[caller] = Part(dirname, Output(dirname) - left')
    <3>1. Output(dirname) - left' = 0
      BY <2>1
    <3>. QED  BY <1>0, <2>2, <3>1, Parts
  <2>4. ServeInv'
    BY <2>1, <2>2, <2>3 DEF ServeInv
  <2>. QED  BY <1>0, <2>1, <2>4, ServeKeeps
<1>5. CASE PopenFails
  <2>1. /\ server = "rlsd" /\ nopopen' = TRUE
        /\ Die /\ UNCHANGED <<server, dirname, left, reset, callvars>>
    BY <1>5 DEF PopenFails, StreamInv, ServeInv
  <2>. QED  BY <2>1, DieKeeps
<1>6. CASE WriteBlock
  <2>1. /\ srv = "write" /\ srv' = "write" /\ caller \in Clients
        /\ left > 0 /\ left' = left - 1 /\ left' \in Nat
        /\ got' = IF client[caller] = "killed" THEN got
                  ELSE [got EXCEPT ![caller] = Append(@, NextBlock)]
        /\ reset' = (client[caller] = "killed")
        /\ Asked(caller)' = Asked(caller)
        /\ UNCHANGED <<server, queue, caller, dirname, nopopen, client, wants, sent,
                       hungup>>
    BY <1>0, <1>6 DEF WriteBlock, Asked
  <2>2. /\ got[caller] \in Seq(SentBlocks) /\ Len(got[caller]) \in Nat
        /\ NextBlock \in SentBlocks
    <3>1. got[caller] \in Seq(SentBlocks)
      BY <1>0, <2>1
    <3>2. Len(got[caller]) \in Nat
      BY <3>1, LenProperties
    <3>3. Len(got[caller]) + 1 \in Nat
      BY <3>2
    <3>. QED  BY <1>0, <3>1, <3>2, <3>3 DEF NextBlock, SentBlocks
  <2>3. Append(got[caller], NextBlock) \in Seq(SentBlocks)
    BY <2>2, AppendProperties
  <2>4. got' \in [Clients -> Seq(SentBlocks)]
    BY <1>0, <2>1, <2>3
  <2>5. \A c \in Clients : c # caller => got'[c] = got[c]
    BY <1>0, <2>1
  <2>6. ASSUME server = "rlsd"
        PROVE  /\ dirname = Asked(caller) /\ left' <= Output(dirname)
               /\ left' < Output(dirname)
               /\ client[caller] # "killed"
                    => got'[caller] = Part(dirname, Output(dirname) - left')
    <3>1. /\ dirname = Asked(caller) /\ left <= Output(dirname)
          /\ client[caller] # "killed"
               => got[caller] = Part(dirname, Output(dirname) - left)
      BY <2>1, <2>6 DEF StreamInv, ServeInv
    <3>. DEFINE n == Output(dirname) - left
    <3>2. n \in Nat /\ Output(dirname) \in Nat
      BY <1>0, <3>1, AskedNames
    <3>3. n + 1 = Output(dirname) - left' /\ left' < Output(dirname)
      BY <1>0, <2>1, <3>1, <3>2
    <3>4. ASSUME client[caller] # "killed"
          PROVE  got'[caller] = Part(dirname, n + 1)
      <4>1. got[caller] = Part(dirname, n)
        BY <3>1, <3>4
      <4>2. Len(got[caller]) = n
        BY <1>0, <3>2, <4>1, Parts
      <4>3. NextBlock = [dir |-> dirname, part |-> n + 1]
        BY <4>2 DEF NextBlock
      <4>4. got'[caller] = Append(Part(dirname, n), NextBlock)
        BY <1>0, <2>1, <3>4, <4>1
      <4>. QED  BY <1>0, <3>2, <4>3, <4>4, Parts
    <3>5. left' <= Output(dirname)
      BY <2>1, <3>2, <3>3
    <3>. QED  BY <3>1, <3>3, <3>4, <3>5
  <2>7. ASSUME server = "timeserv"  PROVE left' = 0
    BY <1>0, <2>1, <2>7 DEF StreamInv, ServeInv
  <2>8. server # "none"
    BY <2>1 DEF StreamInv, ServeInv
  <2>9. ServeInv'
    <3>1. /\ UNCHANGED <<server, caller, dirname, client>>
          /\ srv' = "write" /\ Asked(caller)' = Asked(caller)
          /\ reset' <=> client[caller] = "killed"
      BY <2>1
    <3>. QED  BY <2>6, <2>7, <2>8, <3>1 DEF ServeInv
  <2>. QED  BY <1>0, <2>1, <2>4, <2>5, <2>9, ServeKeeps
<1>7. CASE BrokenPipe
  <2>1. /\ srv = "write" /\ left > 0 /\ reset /\ caller \in Clients
        /\ Die /\ UNCHANGED <<server, dirname, left, reset, nopopen, callvars>>
    BY <1>0, <1>7 DEF BrokenPipe
  <2>2. server = "rlsd"
    BY <1>0, <2>1 DEF StreamInv, ServeInv
  <2>3. /\ client[caller] = "killed" /\ left < Output(dirname)
        /\ dirname = Sanitize(Spelled[wants[caller]])
    BY <2>1, <2>2 DEF StreamInv, ServeInv, Asked
  <2>4. Output(dirname) > 1
    BY <1>0, <2>1, <2>3, AskedNames
  <2>. QED  BY <1>0, <2>1, <2>2, <2>3, <2>4, DieKeeps
<1>8. CASE HangUp
  <2>1. /\ srv = "write" /\ left = 0 /\ srv' = "accept" /\ caller' = Nobody
        /\ caller \in Clients
        /\ hungup' = [hungup EXCEPT ![caller] = TRUE]
        /\ UNCHANGED <<server, queue, dirname, left, reset, nopopen, client, wants,
                       sent, got>>
    BY <1>0, <1>8 DEF HangUp
  <2>2. hungup'[caller] /\ \A c \in Clients : c # caller => hungup'[c] = hungup[c]
    BY <1>0, <2>1
  <2>3. \A i \in DOMAIN queue : queue[i] \in Clients
    BY StreamTypes DEF StreamInv
  <2>4. StreamTypeOK'
    BY <1>0, <2>1 DEF StreamInv, StreamTypeOK
  <2>5. CallInv'
    BY <1>0, <2>1, <2>2, <2>3 DEF StreamInv, CallInv
  <2>6. ServeInv'
    BY <2>1 DEF StreamInv, ServeInv
  <2>7. \A e : Asked(e)' = Asked(e)
    BY <2>1 DEF Asked
  <2>8. ASSUME server = "rlsd", client[caller] # "killed"
        PROVE  got[caller] = Listing(Asked(caller))
    <3>1. /\ dirname = Asked(caller)
          /\ got[caller] = Part(dirname, Output(dirname) - left)
      BY <2>1, <2>8 DEF StreamInv, ServeInv
    <3>2. Output(dirname) - left = Output(dirname)
      BY <2>1, AskedNames
    <3>. QED  BY <1>0, <3>1, <3>2, Parts
  <2>9. DoneInv'
    BY <2>1, <2>2, <2>7, <2>8 DEF StreamInv, DoneInv
  <2>10. ServerLives'
    BY <2>1 DEF ServerLives
  <2>. QED  BY <2>4, <2>5, <2>6, <2>9, <2>10 DEF StreamInv
<1>. QED
  BY <1>1, <1>2, <1>3, <1>4, <1>5, <1>6, <1>7, <1>8 DEF ServerStep

\* At the start nobody has called.
LEMMA InitStream ==
  ASSUME Init
  PROVE  StreamInv
<1>1. <<>> \in Seq(Clients) /\ Len(<<>>) = 0 /\ <<>> \in Seq(SentBlocks)
      /\ DOMAIN <<>> = {} /\ <<>> \in Names /\ QueueMax \in Nat
      /\ Nobody \notin Clients
  BY EmptySeq, AskedNames, StreamServerAssumption, NobodyAssumption
  DEF StreamServerAssumption, NobodyAssumption
<1>2. StreamInit
  BY DEF Init
<1>3. /\ \A c \in Clients : /\ client[c] = "idle" /\ wants[c] = Nobody /\ sent[c] = 0
                            /\ got[c] = <<>> /\ hungup[c] = FALSE
      /\ queue = <<>> /\ caller = Nobody
      /\ srv \in {"accept", "gone"} /\ (srv = "gone" <=> server = "none")
  BY <1>2 DEF StreamInit
<1>4. StreamTypeOK
  <2>0. queue \in Seq(Clients) /\ Len(queue) <= QueueMax
    BY <1>1, <1>3
  <2>1. /\ server \in Servers /\ dirname \in Names /\ left \in Nat
        /\ reset \in BOOLEAN /\ nopopen \in BOOLEAN
    BY <1>1, <1>2 DEF StreamInit
  <2>2. /\ client \in [Clients -> {"idle", "dial", "send", "newline", "receive",
                                   "done", "failed", "killed"}]
        /\ wants \in [Clients -> Dirs \cup {Nobody}]
        /\ sent \in [Clients -> 0 .. 2]
        /\ hungup \in [Clients -> BOOLEAN]
    BY <1>2 DEF StreamInit
  <2>3. got \in [Clients -> Seq(SentBlocks)]
    BY <1>1, <1>2 DEF StreamInit
  <2>. QED  BY <1>3, <2>0, <2>1, <2>2, <2>3 DEF StreamTypeOK
<1>. QED
  BY <1>1, <1>3, <1>4 DEF StreamInv, CallInv, ServeInv, DoneInv, ServerLives

\* Every step of the session keeps the invariant.
LEMMA StreamKeeps ==
  ASSUME WordsInv, StreamInv, [Next]_vars
  PROVE  StreamInv'
<1>1. CASE UNCHANGED streamvars
  <2>1. /\ UNCHANGED <<server, srv, queue, caller, dirname, left, reset, nopopen>>
        /\ UNCHANGED <<client, wants, sent, got, hungup>>
    BY <1>1 DEF streamvars, srvvars, callvars
  <2>2. StreamTypeOK'
    BY <2>1 DEF StreamInv, StreamTypeOK
  <2>3. CallInv' /\ ServerLives'
    BY <2>1 DEF StreamInv, CallInv, ServerLives
  <2>4. ServeInv' /\ DoneInv'
    BY <2>1 DEF StreamInv, ServeInv, DoneInv, Asked
  <2>. QED  BY <2>2, <2>3, <2>4 DEF StreamInv
<1>2. CASE Next
  BY <1>1, <1>2, StreamSteps, DialStep, ClientKeeps, ServerKeeps DEF StreamInv
<1>. QED  BY <1>1, <1>2 DEF vars

\* The invariant holds in every state.
LEMMA StreamInvHolds == Spec => []StreamInv
BY InitWords, WordsStep, InitStream, StreamKeeps, PTL DEF Spec

\* As long as rlsd runs, an rls that ended by itself has the whole listing of
\* one directory, its own if sanitize() leaves the name alone, for any number of
\* clients, places in the queue and blocks.
THEOREM WholeTheorem == Spec => []WholeReply
<1>1. StreamInv => WholeReply
  <2>. SUFFICES ASSUME StreamInv, server = "rlsd", srv # "gone",
                       NEW c \in Clients, client[c] = "done"
                PROVE  /\ Clean(wants[c]) => got[c] = Listing(Spelled[wants[c]])
                       /\ \E s \in Names : got[c] = Listing(s)
    BY DEF WholeReply
  <2>1. wants[c] \in Dirs /\ got[c] = Listing(Asked(c))
    BY DEF StreamInv, CallInv, DoneInv
  <2>2. Asked(c) \in Names
    BY <2>1, AskedNames
  <2>3. Clean(wants[c]) => Asked(c) = Spelled[wants[c]]
    <3>1. wants[c] \in Dirs => Spelled[wants[c]] \in Seq(UNION {ToSet(Spelled[d]) : d \in Dirs})
      BY StreamServerAssumption DEF StreamServerAssumption
    <3>. QED  BY <2>1, <3>1, CleanStays DEF Clean, Sanitize, Asked
  <2>. QED  BY <2>1, <2>2, <2>3
<1>. QED  BY <1>1, StreamInvHolds, PTL

\* timeserv never ends, and rlsd only if popen fails or a caller is killed
\* before it sends anything or where more than one block is to be written.
THEOREM LivesTheorem == Spec => []ServerLives
<1>1. StreamInv => ServerLives
  BY DEF StreamInv
<1>. QED  BY <1>1, StreamInvHolds, PTL

-----------------------------------------------------------------------------
(* tinybc and dc: what dc computes *)

\* Powers of whole numbers are whole numbers.
LEMMA Powers ==
  ASSUME NEW a \in Int, NEW b \in Nat
  PROVE  Power(a, b) \in Int
<1>. DEFINE G == [n \in Nat |-> [x \in Int |-> a * x]]
<1>. DEFINE Eq(q) == q = [n \in Nat |-> IF n = 0 THEN 1 ELSE a * q[n - 1]]
<1>. DEFINE p == CHOOSE q : Eq(q)
<1>1. PICK f \in [Nat -> Int] : f[0] = 1 /\ \A n \in Nat : f[n + 1] = a * f[n]
  <2>1. G \in [Nat -> [Int -> Int]] /\ \A n \in Nat, x \in Int : G[n][x] = a * x
    OBVIOUS
  <2>. HIDE DEF G
  <2>2. PICK f \in [Nat -> Int] : f[0] = 1 /\ \A n \in Nat : f[n + 1] = G[n][f[n]]
    <3>. DEFINE S == Int
    <3>. DEFINE one == 1
    <3>1. one \in S /\ G \in Loops(S)
      BY <2>1 DEF Loops
    <3>. HIDE DEF S, one
    <3>2. \E f \in [Nat -> S] : f[0] = one /\ \A n \in Nat : f[n + 1] = G[n][f[n]]
      BY <3>1, Loop
    <3>. QED  BY <3>2 DEF S, one
  <2>3. \A n \in Nat : G[n][f[n]] = a * f[n]
    BY <2>1
  <2>. QED  BY <2>2, <2>3
<1>2. Eq(f)
  <2>. DEFINE h == [n \in Nat |-> IF n = 0 THEN 1 ELSE a * f[n - 1]]
  <2>1. ASSUME NEW n \in Nat  PROVE f[n] = h[n]
    <3>1. CASE n = 0
      BY <1>1, <3>1
    <3>2. CASE n # 0
      <4>1. n - 1 \in Nat /\ (n - 1) + 1 = n
        BY <3>2
      <4>. QED  BY <1>1, <3>2, <4>1
    <3>. QED  BY <3>1, <3>2
  <2>. QED  BY <2>1
<1>3. Eq(p)
  <2>. HIDE DEF Eq
  <2>. QED  BY <1>2
<1>4. \A n \in Nat : p[n] = IF n = 0 THEN 1 ELSE a * p[n - 1]
  <2>. HIDE DEF p
  <2>. QED  BY <1>3
<1>5. Power(a, b) = p[b]
  BY DEF Power
<1>. HIDE DEF p
<1>. DEFINE T == {n \in Nat : p[n] \notin Int}
<1>6. SUFFICES ASSUME T # {}  PROVE FALSE
  BY <1>5
<1>7. PICK m \in T : \A n \in T : m <= n
  BY <1>6, Least
<1>8. m # 0 /\ m - 1 \in Nat /\ m - 1 \notin T
  BY <1>4, <1>7
<1>9. p[m] \in Int
  BY <1>4, <1>8
<1>. QED  BY <1>7, <1>9

\* dc's - takes the two numbers on top, if there are two.
LEMMA Minuses ==
  ASSUME NEW s \in Seq(Int)
  PROVE  /\ Minus(s) \in Seq(Int)
         /\ Len(s) >= 1 => Len(Minus(s)) >= 1
<1>0. Len(s) \in Nat /\ \A i \in 1 .. Len(s) : s[i] \in Int
  BY LenProperties, ElementOfSeq
<1>1. CASE Len(s) < 2
  BY <1>0, <1>1 DEF Minus
<1>2. CASE Len(s) >= 2
  <2>. DEFINE p == SubSeq(s, 1, Len(s) - 2)
  <2>. DEFINE v == <<s[Len(s) - 1] - s[Len(s)]>>
  <2>1. \A i \in 1 .. Len(s) - 2 : s[i] \in Int
    BY <1>0
  <2>2. p \in Seq(Int)
    BY <1>0, <1>2, <2>1, SubSeqProperties
  <2>3. s[Len(s) - 1] - s[Len(s)] \in Int
    BY <1>0, <1>2
  <2>4. v \in Seq(Int) /\ Len(v) = 1
    BY <2>3
  <2>5. p \o v \in Seq(Int) /\ Len(p \o v) = Len(p) + 1 /\ Len(p) \in Nat
    BY <2>2, <2>4, ConcatProperties, LenProperties
  <2>6. ~(Len(s) < 2)
    BY <1>0, <1>2
  <2>7. Minus(s) = p \o v
    BY <2>6 DEF Minus, Last2
  <2>. QED  BY <2>5, <2>7
<1>. QED  BY <1>0, <1>1, <1>2

\* A number goes on top; its sign does something to what is below.
LEMMA Pushes ==
  ASSUME NEW s \in Seq(Int), NEW n \in Int
  PROVE  /\ Push(s, n) \in Seq(Int) /\ Len(Push(s, n)) \in Nat
         /\ Len(Push(s, n)) >= 1
         /\ Len(s) >= 1 => Len(Push(s, n)) >= 2
         /\ Push(s, n)[Len(Push(s, n))] \in Nat
         /\ n >= 0 => Push(s, n) = Append(s, n)
<1>. DEFINE m == IF n < 0 THEN Minus(s) ELSE s
<1>1. m \in Seq(Int) /\ (Len(s) >= 1 => Len(m) >= 1) /\ (n >= 0 => m = s)
  BY Minuses
<1>2. Absolute(n) \in Nat /\ Absolute(n) \in Int /\ (n >= 0 => Absolute(n) = n)
  BY DEF Absolute
<1>3. Push(s, n) = Append(m, Absolute(n))
  BY DEF Push
<1>. HIDE DEF m
<1>4. /\ Append(m, Absolute(n)) \in Seq(Int)
      /\ Len(Append(m, Absolute(n))) = Len(m) + 1 /\ Len(m) \in Nat
      /\ Append(m, Absolute(n))[Len(m) + 1] = Absolute(n)
  BY <1>1, <1>2, AppendProperties, LenProperties
<1>. QED  BY <1>1, <1>2, <1>3, <1>4

\* An operation gives a whole number.
LEMMA Calculates ==
  ASSUME NEW a \in Int, NEW b \in Nat,
         NEW op \in {"+", "-", "*", "/", "^"}, ~(op = "/" /\ b = 0)
  PROVE  Calculate(a, op, b) \in Int
<1>1. CASE op \in {"+", "-", "*"}
  <2>1. a * b \in Int /\ a + b \in Int /\ a - b \in Int
    OBVIOUS
  <2>. QED  BY <1>1, <2>1 DEF Calculate
<1>2. CASE op = "/"
  <2>1. \A x \in Nat, y \in Nat \ {0} : x \div y \in Nat
    OBVIOUS
  <2>2. CASE a < 0
    <3>1. (-a) \div b \in Nat
      BY <1>2, <2>1, <2>2
    <3>. QED  BY <1>2, <2>2, <3>1 DEF Calculate
  <2>3. CASE a >= 0
    <3>1. a \div b \in Nat
      BY <1>2, <2>1, <2>3
    <3>. QED  BY <1>2, <2>3, <3>1 DEF Calculate
  <2>. QED  BY <2>2, <2>3
<1>3. CASE op = "^"
  <2>1. Power(a, b) \in Int
    BY Powers
  <2>. QED  BY <1>3, <2>1 DEF Calculate
<1>. QED  BY <1>1, <1>2, <1>3

\* A request leaves whole numbers on the stack, one at least, and a plain one
\* its result on top whatever was there before.
LEMMA Operates ==
  ASSUME NEW s \in Seq(Int),
         NEW r \in [n1 : Int, op : {"+", "-", "*", "/", "^"}, n2 : Int]
  PROVE  /\ Operate(s, r) \in Seq(Int) /\ Len(Operate(s, r)) \in Nat
         /\ Len(Operate(s, r)) >= 1
         /\ Plain(r) => Operate(s, r)[Len(Operate(s, r))] = Calculate(r.n1, r.op, r.n2)
<1>0. r.n1 \in Int /\ r.n2 \in Int /\ r.op \in {"+", "-", "*", "/", "^"}
  OBVIOUS
<1>. DEFINE u == Push(s, r.n1)
<1>. DEFINE t == Push(u, r.n2)
<1>1. u \in Seq(Int) /\ Len(u) \in Nat /\ Len(u) >= 1
  BY <1>0, Pushes
<1>2. /\ t \in Seq(Int) /\ Len(t) \in Nat /\ Len(t) >= 2
      /\ t[Len(t)] \in Nat
  BY <1>0, <1>1, Pushes
<1>. DEFINE a == t[Len(t) - 1]
<1>. DEFINE b == t[Len(t)]
<1>3. a \in Int /\ b \in Nat
  <2>1. Len(t) - 1 \in 1 .. Len(t)
    BY <1>2
  <2>. QED  BY <1>2, <2>1, ElementOfSeq
<1>4. ASSUME Plain(r)  PROVE a = r.n1 /\ b = r.n2 /\ ~(r.op = "/" /\ b = 0)
  <2>1. u = Append(s, r.n1) /\ t = Append(u, r.n2)
    BY <1>0, <1>1, <1>4, Pushes DEF Plain
  <2>2. /\ Len(u) = Len(s) + 1 /\ u[Len(s) + 1] = r.n1 /\ Len(s) \in Nat
    BY <1>0, <2>1, AppendProperties, LenProperties
  <2>3. /\ Len(t) = Len(u) + 1 /\ t[Len(u) + 1] = r.n2
        /\ \A i \in 1 .. Len(u) : t[i] = u[i]
    BY <1>0, <1>1, <2>1, AppendProperties
  <2>4. Len(t) - 1 = Len(u) /\ Len(u) \in 1 .. Len(u)
    BY <1>1, <2>3
  <2>5. a = r.n1
    BY <2>2, <2>3, <2>4
  <2>. QED  BY <1>4, <2>3, <2>5 DEF Plain
<1>5. Operate(s, r) = IF r.op = "/" /\ b = 0 THEN t
                      ELSE Last2(t, <<Calculate(a, r.op, b)>>)
  BY DEF Operate
<1>. HIDE DEF a, b, t, u
<1>6. CASE r.op = "/" /\ b = 0
  BY <1>2, <1>4, <1>5, <1>6
<1>7. CASE ~(r.op = "/" /\ b = 0)
  <2>. DEFINE c == Calculate(a, r.op, b)
  <2>. DEFINE p == SubSeq(t, 1, Len(t) - 2)
  <2>1. c \in Int
    BY <1>0, <1>3, <1>7, Calculates
  <2>2. \A i \in 1 .. Len(t) - 2 : t[i] \in Int
    BY <1>2, ElementOfSeq
  <2>3. p \in Seq(Int) /\ Len(p) \in Nat
    BY <1>2, <2>2, SubSeqProperties, LenProperties
  <2>. HIDE DEF c, p
  <2>4. <<c>> \in Seq(Int) /\ Len(<<c>>) = 1 /\ <<c>>[1] = c
    BY <2>1
  <2>5. /\ p \o <<c>> \in Seq(Int) /\ Len(p \o <<c>>) = Len(p) + 1
        /\ (p \o <<c>>)[Len(p) + 1] = c
    BY <2>3, <2>4, ConcatProperties
  <2>6. Operate(s, r) = p \o <<c>>
    BY <1>5, <1>7 DEF Last2, c, p
  <2>7. Plain(r) => c = Calculate(r.n1, r.op, r.n2)
    BY <1>4 DEF c
  <2>. QED  BY <2>3, <2>5, <2>6, <2>7
<1>. QED  BY <1>6, <1>7

-----------------------------------------------------------------------------
(* tinybc and dc: what is between them *)

\* A line of dc that answers the last request, and rightly if that is plain.
Answers(l) ==
  /\ l.no = asked
  /\ Plain(request) => l.value = Calculate(request.n1, request.op, request.n2)

\* Whatever is under way of a request that tinybc waits for: the request, the
\* line dc is about to write, or the line in the pipe, one of them, once.
UnderWay ==
  \/ /\ dc \in {"start", "read", "exit"} /\ fromdc = <<>>
     /\ todc = <<[no |-> asked, what |-> request]>>
  \/ /\ dc = "write" /\ todc = <<>> /\ fromdc = <<>>
     /\ Len(output) = 1 /\ Answers(Head(output))
  \/ /\ dc \in {"read", "exit"} /\ todc = <<>>
     /\ Len(fromdc) = 1 /\ Answers(Head(fromdc))

\* dc has something to write exactly while it writes.  As long as each answer
\* was one line there is nothing between the two when tinybc waits for its
\* user, and what it printed last is the answer to what was asked last.
TalkInv ==
  /\ BcTypeOK
  /\ dc = "write" <=> output # <<>>
  /\ bc = "none" => dc = "none" /\ todc = <<>> /\ fromdc = <<>> /\ reply = <<>>
  /\ dc = "none" => bc \in {"none", "exit"}
  /\ ~longanswer =>
       /\ bc = "input" => /\ todc = <<>> /\ fromdc = <<>> /\ dc # "write"
                          /\ reply # <<>> => Answers(reply)
       /\ bc = "reply" => UnderWay

\* What a step of the session is for tinybc and dc.
LEMMA BcSteps ==
  ASSUME Next
  PROVE  BcStart \/ BcOops \/ BcForget \/ BcStep \/ DcStep \/ UNCHANGED bcvars
BY DEF Next, Type, EndTyping, Execute, ExecMyLs, ExecTinyBc, ExecClient, ExecEnds,
       ProgramExits, Wait, ControlC, ForgetPrograms, MyLs, Bc, Dc, Server, Client,
       Elsewhere

\* The types of what is in the pipes.
LEMMA TalkTypes ==
  ASSUME TalkInv
  PROVE  /\ todc \in Seq(Numbered) /\ fromdc \in Seq(OutLines)
         /\ output \in Seq(OutLines) /\ stack \in Seq(Int)
         /\ Len(todc) \in Nat /\ Len(fromdc) \in Nat /\ Len(output) \in Nat
         /\ asked \in Nat /\ asked <= MaxRequests /\ longanswer \in BOOLEAN
         /\ MaxRequests \in Nat /\ OutCap \in Nat \ {0} /\ PerLine \in Nat \ {0}
         /\ Requests \subseteq [n1 : Int, op : {"+", "-", "*", "/", "^"}, n2 : Int]
BY TinyBcAssumption, LenProperties DEF TalkInv, BcTypeOK, TinyBcAssumption

\* If nothing changes but what the two are doing, the types stay.
LEMMA SameTalk ==
  ASSUME TalkInv, bc' \in {"none", "input", "reply", "wait", "exit"},
         dc' \in {"none", "start", "read", "write", "exit"},
         UNCHANGED <<pipes, dcdata, talk>>
  PROVE  BcTypeOK'
BY DEF TalkInv, BcTypeOK, pipes, dcdata, talk

\* dc carries out a request.
LEMMA DcReadStep ==
  ASSUME TalkInv, DcRead
  PROVE  TalkInv'
<1>0. /\ todc \in Seq(Numbered) /\ stack \in Seq(Int) /\ todc # <<>>
      /\ PerLine \in Nat \ {0} /\ asked \in Nat
      /\ Requests \subseteq [n1 : Int, op : {"+", "-", "*", "/", "^"}, n2 : Int]
      /\ dc = "read" /\ dc' = "write" /\ todc' = Tail(todc)
      /\ UNCHANGED <<bc, fromdc, asked, request, reply>>
  BY TalkTypes DEF DcRead
<1>. DEFINE r == Head(todc)
<1>. DEFINE s == Operate(stack, r.what)
<1>. DEFINE top == s[Len(s)]
<1>. DEFINE n == 1 + Absolute(top) \div PerLine
<1>. DEFINE line(i) == [no |-> r.no, part |-> i, value |-> top]
<1>1. /\ stack' = s /\ output' = [i \in 1 .. n |-> line(i)]
      /\ longanswer' = (longanswer \/ n > 1)
  BY DEF DcRead
<1>2. r \in Numbered /\ todc' \in Seq(Numbered)
  BY <1>0, HeadTailProperties
<1>3. r.no \in 1 .. MaxRequests /\ r.what \in Requests
  BY <1>2 DEF Numbered
<1>4. /\ s \in Seq(Int) /\ Len(s) \in Nat /\ Len(s) >= 1
      /\ Plain(r.what) => top = Calculate(r.what.n1, r.what.op, r.what.n2)
  BY <1>0, <1>3, Operates
<1>5. top \in Int
  <2>1. Len(s) \in 1 .. Len(s)
    BY <1>4
  <2>. QED  BY <1>4, <2>1, ElementOfSeq
<1>. HIDE DEF r, s, top, n
<1>6. n \in Nat /\ n >= 1
  <2>1. Absolute(top) \in Nat
    BY <1>5 DEF Absolute
  <2>2. \A x \in Nat, y \in Nat \ {0} : x \div y \in Nat
    OBVIOUS
  <2>3. Absolute(top) \div PerLine \in Nat
    BY <1>0, <2>1, <2>2
  <2>. QED  BY <2>3 DEF n
<1>7. \A i \in 1 .. n : line(i) \in OutLines
  BY <1>3, <1>5, <1>6 DEF OutLines
<1>8. /\ output' \in Seq(OutLines) /\ Len(output') = n
      /\ output'[1] = line(1) /\ output' # <<>>
  <2>1. output' \in [1 .. n -> OutLines]
    BY <1>1, <1>7
  <2>2. output' \in Seq(OutLines)
    BY <1>6, <2>1, SeqDef
  <2>3. Len(output') = n /\ output'[1] = line(1)
    BY <1>1, <1>6, <2>1, <2>2, LenProperties
  <2>. QED  BY <1>6, <2>2, <2>3, EmptySeq
<1>9. BcTypeOK'
  BY <1>0, <1>1, <1>2, <1>4, <1>8, TalkTypes DEF TalkInv, BcTypeOK
<1>10. ASSUME ~longanswer'  PROVE (bc = "input" => FALSE) /\ (bc = "reply" => UnderWay')
  <2>0. ~longanswer /\ ~(n > 1)
    BY <1>1, <1>10
  <2>1. ~longanswer /\ n = 1
    BY <1>6, <2>0
  <2>2. bc # "input"
    BY <1>0, <2>1 DEF TalkInv
  <2>3. ASSUME bc = "reply"  PROVE UnderWay'
    <3>1. /\ fromdc = <<>> /\ todc = <<[no |-> asked, what |-> request]>>
      BY <1>0, <2>1, <2>3 DEF TalkInv, UnderWay
    <3>2. r = [no |-> asked, what |-> request] /\ todc' = <<>>
      BY <1>0, <3>1 DEF r
    <3>3. /\ line(1).no = asked
          /\ Plain(request) =>
               line(1).value = Calculate(request.n1, request.op, request.n2)
      BY <1>4, <3>2
    <3>4. Len(output') = 1 /\ Head(output') = line(1)
      BY <1>8, <2>1
    <3>5. Answers(Head(output))'
      BY <1>0, <3>3, <3>4 DEF Answers
    <3>. QED  BY <1>0, <3>1, <3>2, <3>4, <3>5 DEF UnderWay
  <2>. QED  BY <2>2, <2>3
<1>11. bc # "none"
  BY <1>0 DEF TalkInv
<1>. QED  BY <1>0, <1>8, <1>9, <1>10, <1>11 DEF TalkInv

\* dc writes a line.
LEMMA DcWriteStep ==
  ASSUME TalkInv, DcWrite
  PROVE  TalkInv'
<1>0. /\ fromdc \in Seq(OutLines) /\ output \in Seq(OutLines) /\ output # <<>>
      /\ Len(fromdc) \in Nat /\ Len(output) \in Nat /\ OutCap \in Nat
      /\ dc = "write" /\ Len(fromdc) < OutCap
      /\ fromdc' = Append(fromdc, Head(output)) /\ output' = Tail(output)
      /\ dc' = IF Len(output) = 1 THEN "read" ELSE "write"
      /\ UNCHANGED <<bc, todc, stack, asked, request, reply, longanswer>>
  BY TalkTypes DEF DcWrite, TalkInv
<1>1. /\ Head(output) \in OutLines /\ output' \in Seq(OutLines)
      /\ Len(output') = Len(output) - 1
  BY <1>0, HeadTailProperties
<1>2. Len(output) # 1 <=> output' # <<>>
  BY <1>0, <1>1, EmptySeq
<1>3. /\ fromdc' \in Seq(OutLines) /\ Len(fromdc') = Len(fromdc) + 1
      /\ fromdc'[Len(fromdc) + 1] = Head(output)
  BY <1>0, <1>1, AppendProperties
<1>4. BcTypeOK'
  <2>1. Len(fromdc') <= OutCap
    BY <1>0, <1>3
  <2>. QED  BY <1>0, <1>1, <1>3, <2>1 DEF TalkInv, BcTypeOK
<1>5. bc # "none" /\ (~longanswer => bc # "input")
  BY <1>0 DEF TalkInv
<1>6. ASSUME ~longanswer, bc = "reply"  PROVE UnderWay'
  <2>1. todc = <<>> /\ fromdc = <<>> /\ Len(output) = 1 /\ Answers(Head(output))
    BY <1>0, <1>6 DEF TalkInv, UnderWay
  <2>2. Len(fromdc) = 0
    BY <2>1
  <2>3. Len(fromdc') = 1 /\ Head(fromdc') = Head(output) /\ dc' = "read"
    BY <1>0, <1>3, <2>1, <2>2
  <2>4. Answers(Head(fromdc))'
    BY <1>0, <2>1, <2>3 DEF Answers
  <2>. QED  BY <1>0, <2>1, <2>3, <2>4 DEF UnderWay
<1>. QED  BY <1>0, <1>2, <1>4, <1>5, <1>6 DEF TalkInv

\* tinybc sends a request.
LEMMA RequestStep ==
  ASSUME TalkInv, BcRequest
  PROVE  TalkInv'
<1>1. PICK r \in Requests :
        /\ request' = r
        /\ todc' = Append(todc, [no |-> asked + 1, what |-> r])
  BY DEF BcRequest, Send
<1>2. /\ bc = "input" /\ dc # "exit" /\ asked < MaxRequests
      /\ asked' = asked + 1 /\ bc' = "reply"
      /\ UNCHANGED <<dc, fromdc, stack, output, reply, longanswer>>
  BY DEF BcRequest, dcdata
<1>3. /\ todc \in Seq(Numbered) /\ asked \in Nat /\ MaxRequests \in Nat
  BY TalkTypes
<1>4. asked' \in 1 .. MaxRequests /\ asked' \in 0 .. MaxRequests /\ asked' >= 1
  BY <1>2, <1>3
<1>5. [no |-> asked + 1, what |-> r] \in Numbered
  BY <1>2, <1>4 DEF Numbered
<1>6. todc' \in Seq(Numbered)
  BY <1>1, <1>3, <1>5, AppendProperties
<1>7. BcTypeOK'
  BY <1>1, <1>2, <1>4, <1>6 DEF TalkInv, BcTypeOK
<1>8. ASSUME ~longanswer  PROVE UnderWay'
  <2>1. todc = <<>> /\ fromdc = <<>> /\ dc \in {"start", "read"}
    BY <1>2, <1>8 DEF TalkInv, BcTypeOK
  <2>2. todc' = <<[no |-> asked', what |-> request']>>
    BY <1>1, <1>2, <2>1
  <2>. QED  BY <1>2, <2>1, <2>2 DEF UnderWay
<1>. QED  BY <1>1, <1>2, <1>4, <1>7, <1>8 DEF TalkInv

\* tinybc prints a line.
LEMMA ReplyStep ==
  ASSUME TalkInv, BcReply
  PROVE  TalkInv'
<1>0. /\ fromdc \in Seq(OutLines) /\ fromdc # <<>> /\ Len(fromdc) \in Nat
      /\ OutCap \in Nat /\ bc = "reply" /\ bc' = "input"
      /\ reply' = Head(fromdc) /\ fromdc' = Tail(fromdc)
      /\ UNCHANGED <<dc, todc, stack, output, asked, request, longanswer>>
  BY TalkTypes DEF BcReply, dcdata
<1>1. /\ reply' \in OutLines /\ fromdc' \in Seq(OutLines)
      /\ Len(fromdc') = Len(fromdc) - 1
  BY <1>0, HeadTailProperties
<1>2. Len(fromdc') <= OutCap
  BY <1>0, <1>1 DEF TalkInv, BcTypeOK
<1>3. BcTypeOK'
  BY <1>0, <1>1, <1>2 DEF TalkInv, BcTypeOK
<1>4. ASSUME ~longanswer
      PROVE  todc = <<>> /\ fromdc' = <<>> /\ dc # "write" /\ Answers(reply)'
  <2>1. UnderWay
    BY <1>0, <1>4 DEF TalkInv
  <2>2. /\ dc \in {"read", "exit"} /\ todc = <<>>
        /\ Len(fromdc) = 1 /\ Answers(Head(fromdc))
    BY <1>0, <2>1 DEF UnderWay
  <2>3. fromdc' = <<>>
    BY <1>1, <2>2, EmptySeq
  <2>4. Answers(reply)'
    BY <1>0, <2>2 DEF Answers
  <2>. QED  BY <2>2, <2>3, <2>4
<1>. QED  BY <1>0, <1>3, <1>4 DEF TalkInv

\* Every step of the session keeps the invariant.
LEMMA TalkStep ==
  ASSUME TalkInv, [Next]_vars
  PROVE  TalkInv'
<1>1. CASE BcStart
  <2>1. /\ bc = "none" /\ bc' = "input" /\ dc' = "start"
        /\ UNCHANGED <<pipes, dcdata, talk>>
    BY <1>1 DEF BcStart
  <2>2. BcTypeOK'
    BY <2>1, SameTalk
  <2>3. output = <<>>
    BY <2>1 DEF TalkInv
  <2>. QED  BY <2>1, <2>2, <2>3 DEF TalkInv, pipes, dcdata, talk
<1>2. CASE BcOops
  <2>1. /\ bc = "none" /\ bc' = "exit" /\ UNCHANGED <<dc, pipes, dcdata, talk>>
    BY <1>2 DEF BcOops
  <2>2. BcTypeOK'
    BY <2>1, SameTalk DEF TalkInv, BcTypeOK
  <2>. QED  BY <2>1, <2>2 DEF TalkInv, pipes, dcdata, talk
<1>3. CASE BcForget
  <2>1. /\ bc' = "none" /\ dc' = "none" /\ todc' = <<>> /\ fromdc' = <<>>
        /\ stack' = <<>> /\ output' = <<>> /\ asked' = 0 /\ request' = <<>>
        /\ reply' = <<>> /\ longanswer' = FALSE
    BY <1>3 DEF BcForget
  <2>2. /\ <<>> \in Seq(Numbered) /\ <<>> \in Seq(OutLines) /\ <<>> \in Seq(Int)
        /\ Len(<<>>) = 0 /\ OutCap \in Nat /\ MaxRequests \in Nat
    BY EmptySeq, TalkTypes
  <2>3. Len(fromdc') <= OutCap /\ asked' \in 0 .. MaxRequests
    BY <2>1, <2>2
  <2>4. BcTypeOK'
    BY <2>1, <2>2, <2>3 DEF BcTypeOK
  <2>. QED  BY <2>1, <2>4 DEF TalkInv
<1>4. CASE DcStart \/ DcStartFails \/ DcSeesEOF
  <2>1. /\ dc \in {"start", "read"} /\ dc' \in {"read", "exit"}
        /\ dc = "read" => bc = "wait"
        /\ bc' = bc /\ UNCHANGED <<pipes, dcdata, talk>>
    BY <1>4 DEF DcStart, DcStartFails, DcSeesEOF
  <2>2. BcTypeOK'
    BY <2>1, SameTalk DEF TalkInv, BcTypeOK
  <2>3. UNCHANGED <<todc, fromdc, output, asked, request, reply, longanswer>>
    BY <2>1 DEF pipes, dcdata, talk
  <2>4. UnderWay /\ dc = "start" => UnderWay'
    BY <2>1, <2>3 DEF UnderWay
  <2>5. bc # "none" /\ (dc = "write" <=> dc' = "write")
    BY <2>1 DEF TalkInv
  <2>6. \A l : Answers(l)' <=> Answers(l)
    BY <2>3 DEF Answers
  <2>7. reply' # <<>> /\ Answers(reply) => Answers(reply)'
    BY <2>3 DEF Answers
  <2>. QED  BY <2>1, <2>2, <2>3, <2>4, <2>5, <2>7 DEF TalkInv
<1>5. CASE DcRead
  BY <1>5, DcReadStep
<1>6. CASE DcWrite
  BY <1>6, DcWriteStep
<1>7. CASE BcRequest
  BY <1>7, RequestStep
<1>8. CASE BcReply
  BY <1>8, ReplyStep
<1>9. CASE BcBrokenPipe \/ BcNoReply \/ BcEndOfInput \/ BcExit
  <2>1. /\ bc \notin {"none", "exit"} /\ bc' \in {"exit", "wait"} /\ dc' = dc
        /\ UNCHANGED <<pipes, dcdata, talk>>
    BY <1>9 DEF BcBrokenPipe, BcNoReply, BcEndOfInput, BcExit
  <2>2. BcTypeOK'
    BY <2>1, SameTalk DEF TalkInv, BcTypeOK
  <2>. QED  BY <2>1, <2>2 DEF TalkInv, pipes, dcdata, talk
<1>10. CASE UNCHANGED bcvars
  <2>1. UNCHANGED <<bc, dc, todc, fromdc, stack, output, asked, request, reply,
                    longanswer>>
    BY <1>10 DEF bcvars, pipes, dcdata, talk
  <2>. QED  BY <2>1 DEF TalkInv, BcTypeOK, UnderWay, Answers
<1>. QED
  BY <1>1, <1>2, <1>3, <1>4, <1>5, <1>6, <1>7, <1>8, <1>9, <1>10, BcSteps
  DEF vars, BcStep, DcStep

\* At the start neither tinybc nor dc runs.
LEMMA InitTalk ==
  ASSUME Init
  PROVE  TalkInv
<1>1. BcInit
  BY DEF Init
<1>2. /\ <<>> \in Seq(Numbered) /\ <<>> \in Seq(OutLines) /\ <<>> \in Seq(Int)
      /\ Len(<<>>) = 0 /\ OutCap \in Nat /\ MaxRequests \in Nat
  BY EmptySeq, TinyBcAssumption DEF TinyBcAssumption
<1>3. BcTypeOK
  <2>1. Len(fromdc) <= OutCap /\ asked \in 0 .. MaxRequests
    BY <1>1, <1>2 DEF BcInit
  <2>. QED  BY <1>1, <1>2, <2>1 DEF BcInit, BcTypeOK
<1>. QED  BY <1>1, <1>3 DEF BcInit, TalkInv

\* tinybc and dc are right all the time.
LEMMA TalkInvHolds == Spec => []TalkInv
<1>1. Init => TalkInv
  BY InitTalk
<1>2. TalkInv /\ [Next]_vars => TalkInv'
  BY TalkStep
<1>. QED  BY <1>1, <1>2, PTL DEF Spec

\* As long as dc gave no answer of more lines than one, tinybc has printed the
\* answer to the request it was asked last whenever it waits for its user, and
\* the right one if the request is plain; whatever was asked before, and left
\* on dc's stack.
THEOREM StepTheorem ==
  Spec => []AnswersInStep
<1>1. TalkInv => AnswersInStep
  BY DEF TalkInv, AnswersInStep, Answers
<1>. QED  BY <1>1, TalkInvHolds, PTL

-----------------------------------------------------------------------------
(* my_ls: entries and their order *)

\* The names of the first n entries of f; whether they differ, and are in
\* order; and whether each has the attributes of its own name.
NamesOf(f, n) == {f[i].name : i \in 1 .. n}
Distinct(f, n) == \A i, j \in 1 .. n : f[i].name = f[j].name => i = j
Ascending(f, n) == \A i, j \in 1 .. n : i < j => f[i].name < f[j].name
Own(f, n) == \A i \in 1 .. n : f[i].status = <<Cwd, f[i].name>>

\* The list g is f with entry i moved to the place behind j, the last entry
\* that has to stay before it.
Moved(f, g, i, j) ==
  /\ g \in [0 .. MAXSIZE -> Entries]
  /\ g[j + 1] = f[i]
  /\ \A k \in j + 2 .. i : g[k] = f[k - 1]
  /\ \A k \in (1 .. MAXSIZE) \ (j + 1 .. i) : g[k] = f[k]
  /\ \A k \in 1 .. j : f[k].name < f[i].name
  /\ \A k \in j + 1 .. i - 1 : f[i].name < f[k].name

\* One turn of ls_sort moves its entry so: the search stops at an entry that is
\* not greater, or at entry 0.
LEMMA InsertMoves ==
  ASSUME NEW f \in [0 .. MAXSIZE -> Entries], NEW i \in 2 .. MAXSIZE,
         Distinct(f, i), Ascending(f, i - 1)
  PROVE  \E j \in 0 .. i - 1 : Moved(f, Insert(f, i), i, j)
<1>. DEFINE x == f[i]
<1>0. MAXSIZE \in Nat /\ i \in Nat /\ i >= 2 /\ i <= MAXSIZE
  BY DirListAssumption DEF DirListAssumption
<1>1. /\ \A k \in 0 .. MAXSIZE : f[k] \in Entries /\ f[k].name \in Nat
      /\ x \in Entries /\ x.name \in Nat
  <2>1. \A e \in Entries : e.name \in Nat
    BY DEF Entries
  <2>2. \A k \in 0 .. MAXSIZE : f[k] \in Entries
    OBVIOUS
  <2>3. x \in Entries
    BY <1>0, <2>2
  <2>. QED  BY <2>1, <2>2, <2>3
<1>2. \A k \in 1 .. i - 1 : k \in 0 .. MAXSIZE /\ f[k].name # x.name
  BY <1>0 DEF Distinct
<1>3. CASE f[i - 1].name <= x.name
  <2>1. Insert(f, i) = f
    BY <1>3 DEF Insert
  <2>2. ASSUME NEW k \in 1 .. i - 1  PROVE f[k].name < x.name
    <3>1. k = i - 1 \/ f[k].name < f[i - 1].name
      BY <1>0 DEF Ascending
    <3>2. i - 1 \in 1 .. i - 1 /\ f[i - 1].name \in Nat /\ f[k].name \in Nat
      BY <1>0, <1>1, <1>2
    <3>. QED  BY <1>1, <1>2, <1>3, <3>1, <3>2
  <2>3. i - 1 \in 0 .. i - 1 /\ i - 1 + 1 = i /\ i - 1 + 2 .. i = {} /\ i .. i - 1 = {}
    BY <1>0
  <2>4. Moved(f, f, i, i - 1)
    BY <2>2, <2>3 DEF Moved
  <2>. QED  BY <2>1, <2>3, <2>4
<1>4. CASE ~(f[i - 1].name <= x.name)
  <2>. DEFINE S == {k \in 1 .. i - 2 : f[k].name <= x.name} \cup {0}
  <2>. DEFINE j == Max(S)
  <2>. DEFINE g == [k \in DOMAIN f |-> CASE k = 0 \/ k = j + 1 -> x
                                         [] k \in j + 2 .. i -> f[k - 1]
                                         [] OTHER -> f[k]]
  <2>1. S \in SUBSET Int /\ 0 \in S /\ i - 2 \in Int /\ \A k \in S : k <= i - 2
    BY <1>0
  <2>2. j \in S /\ \A k \in S : k <= j
    <3>. HIDE DEF S
    <3>. QED  BY <2>1, MaxIs
  <2>3. Insert(f, i) = g
    BY <1>4 DEF Insert
  <2>. HIDE DEF j
  <2>4. /\ j \in 0 .. i - 2
        /\ j # 0 => f[j].name <= x.name
        /\ \A k \in j + 1 .. i - 2 : ~(f[k].name <= x.name)
    BY <1>0, <2>2
  <2>5. ASSUME NEW k \in 1 .. j  PROVE f[k].name < x.name
    <3>1. k \in 1 .. i - 1 /\ j \in 1 .. i - 1 /\ j # 0
      BY <1>0, <2>4
    <3>2. k = j \/ f[k].name < f[j].name
      BY <3>1 DEF Ascending
    <3>3. f[k].name \in Nat /\ f[j].name \in Nat /\ f[j].name # x.name
      BY <1>1, <1>2, <3>1
    <3>. QED  BY <1>1, <2>4, <3>1, <3>2, <3>3
  <2>6. ASSUME NEW k \in j + 1 .. i - 1  PROVE x.name < f[k].name
    <3>1. k \in 1 .. i - 1 /\ (k = i - 1 \/ k \in j + 1 .. i - 2)
      BY <1>0, <2>4
    <3>2. f[k].name \in Nat
      BY <1>1, <1>2, <3>1
    <3>3. ~(f[k].name <= x.name)
      BY <1>4, <2>4, <3>1
    <3>. QED  BY <1>1, <3>2, <3>3
  <2>7. DOMAIN f = 0 .. MAXSIZE
    OBVIOUS
  <2>8. ASSUME NEW k \in 0 .. MAXSIZE
        PROVE  /\ g[k] \in Entries
               /\ k = j + 1 => g[k] = x
               /\ k \in j + 2 .. i => g[k] = f[k - 1]
               /\ k # 0 /\ k \notin j + 1 .. i => g[k] = f[k]
    <3>1. CASE k = 0 \/ k = j + 1
      <4>1. k \notin j + 2 .. i /\ (k # 0 => k \in j + 1 .. i)
        BY <1>0, <2>4, <3>1
      <4>2. g[k] = x
        BY <2>7, <3>1, <4>1
      <4>. QED  BY <1>1, <3>1, <4>1, <4>2
    <3>2. CASE k \in j + 2 .. i
      <4>1. ~(k = 0 \/ k = j + 1) /\ k - 1 \in 0 .. MAXSIZE /\ k \in j + 1 .. i
        BY <1>0, <2>4, <3>2
      <4>2. g[k] = f[k - 1]
        BY <2>7, <3>2, <4>1
      <4>. QED  BY <1>1, <3>2, <4>1, <4>2
    <3>3. CASE ~(k = 0 \/ k = j + 1) /\ k \notin j + 2 .. i
      <4>1. g[k] = f[k]
        BY <2>7, <3>3
      <4>. QED  BY <1>1, <3>3, <4>1
    <3>. QED  BY <3>1, <3>2, <3>3
  <2>9. g \in [0 .. MAXSIZE -> Entries]
    <3>1. DOMAIN g = 0 .. MAXSIZE /\ g = [k \in 0 .. MAXSIZE |-> g[k]]
      BY <2>7
    <3>. HIDE DEF g
    <3>. QED  BY <2>8, <3>1
  <2>. HIDE DEF g
  <2>10. j + 1 \in 0 .. MAXSIZE /\ j \in 0 .. i - 1 /\ j + 2 .. i \subseteq 0 .. MAXSIZE
    BY <1>0, <2>4
  <2>11. Moved(f, g, i, j)
    BY <2>5, <2>6, <2>8, <2>9, <2>10 DEF Moved
  <2>. QED  BY <2>3, <2>10, <2>11
<1>. QED  BY <1>3, <1>4

\* What was at place k of the list before entry i was moved behind place j.
Before(k, i, j) ==
  IF k = j + 1 THEN i ELSE IF k \in j + 2 .. i THEN k - 1 ELSE k

\* The first n entries of g are those of f, at other places.
Reordered(f, g, n, i, j) ==
  /\ \A k \in 1 .. n : Before(k, i, j) \in 1 .. n /\ g[k] = f[Before(k, i, j)]
  /\ \A k, l \in 1 .. n : Before(k, i, j) = Before(l, i, j) => k = l
  /\ \A m \in 1 .. n : \E k \in 1 .. n : Before(k, i, j) = m

\* Moving an entry changes places only.
LEMMA MovedPlaces ==
  ASSUME NEW n \in 0 .. MAXSIZE, NEW i \in 2 .. n, NEW j \in 0 .. i - 1,
         NEW f \in [0 .. MAXSIZE -> Entries], NEW g, Moved(f, g, i, j)
  PROVE  Reordered(f, g, n, i, j)
<1>0. MAXSIZE \in Nat /\ n \in Nat /\ n <= MAXSIZE /\ i \in Nat /\ i <= n /\ j \in Nat /\ j < i
  BY DirListAssumption DEF DirListAssumption
<1>1. ASSUME NEW k \in 1 .. n
      PROVE  Before(k, i, j) \in 1 .. n /\ g[k] = f[Before(k, i, j)]
  <2>1. CASE k = j + 1
    BY <1>0, <2>1 DEF Before, Moved
  <2>2. CASE k \in j + 2 .. i
    <3>1. k # j + 1 /\ k - 1 \in 1 .. n
      BY <1>0, <2>2
    <3>. QED  BY <2>2, <3>1 DEF Before, Moved
  <2>3. CASE k # j + 1 /\ k \notin j + 2 .. i
    <3>1. k \in (1 .. MAXSIZE) \ (j + 1 .. i)
      BY <1>0, <2>3
    <3>. QED  BY <2>3, <3>1 DEF Before, Moved
  <2>. QED  BY <2>1, <2>2, <2>3
<1>2. ASSUME NEW k \in 1 .. n, NEW l \in 1 .. n, Before(k, i, j) = Before(l, i, j)
      PROVE  k = l
  BY <1>0, <1>2 DEF Before
<1>3. ASSUME NEW m \in 1 .. n  PROVE \E k \in 1 .. n : Before(k, i, j) = m
  <2>1. CASE m = i
    <3>1. j + 1 \in 1 .. n /\ Before(j + 1, i, j) = m
      BY <1>0, <2>1 DEF Before
    <3>. QED  BY <3>1
  <2>2. CASE m \in j + 1 .. i - 1
    <3>1. m + 1 \in 1 .. n /\ Before(m + 1, i, j) = m
      BY <1>0, <2>2 DEF Before
    <3>. QED  BY <3>1
  <2>3. CASE m \notin j + 1 .. i
    <3>1. Before(m, i, j) = m
      BY <1>0, <2>3 DEF Before
    <3>. QED  BY <3>1
  <2>. QED  BY <1>0, <2>1, <2>2, <2>3
<1>. QED  BY <1>1, <1>2, <1>3 DEF Reordered

\* So the list keeps its names, each with its attributes, ...
LEMMA MovedNames ==
  ASSUME NEW n \in 0 .. MAXSIZE, NEW i \in 2 .. n, NEW j \in 0 .. i - 1,
         NEW f \in [0 .. MAXSIZE -> Entries], NEW g, Moved(f, g, i, j)
  PROVE  /\ NamesOf(g, n) = NamesOf(f, n)
         /\ Distinct(f, n) => Distinct(g, n)
         /\ Own(f, n) => Own(g, n)
<1>. DEFINE B(k) == Before(k, i, j)
<1>1. /\ \A k \in 1 .. n : B(k) \in 1 .. n /\ g[k] = f[B(k)]
      /\ \A k, l \in 1 .. n : B(k) = B(l) => k = l
      /\ \A m \in 1 .. n : \E k \in 1 .. n : B(k) = m
  <2>1. Reordered(f, g, n, i, j)
    BY MovedPlaces
  <2>. QED  BY <2>1 DEF Reordered
<1>. HIDE DEF B
<1>2. NamesOf(g, n) \subseteq NamesOf(f, n)
  <2>1. ASSUME NEW k \in 1 .. n  PROVE g[k].name \in NamesOf(f, n)
    <3>1. B(k) \in 1 .. n /\ g[k].name = f[B(k)].name
      BY <1>1
    <3>. QED  BY <3>1 DEF NamesOf
  <2>. QED  BY <2>1 DEF NamesOf
<1>3. ASSUME NEW m \in 1 .. n  PROVE f[m].name \in NamesOf(g, n)
  <2>1. PICK k \in 1 .. n : B(k) = m
    BY <1>1
  <2>. QED  BY <1>1, <2>1 DEF NamesOf
<1>4. NamesOf(f, n) \subseteq NamesOf(g, n)
  BY <1>3 DEF NamesOf
<1>5. ASSUME Distinct(f, n), NEW k \in 1 .. n, NEW l \in 1 .. n,
             g[k].name = g[l].name
      PROVE  k = l
  <2>1. B(k) \in 1 .. n /\ B(l) \in 1 .. n /\ f[B(k)].name = f[B(l)].name
    BY <1>1, <1>5
  <2>2. B(k) = B(l)
    BY <1>5, <2>1 DEF Distinct
  <2>. QED  BY <1>1, <2>2
<1>6. ASSUME Own(f, n), NEW k \in 1 .. n
      PROVE  g[k].status = <<Cwd, g[k].name>>
  <2>1. B(k) \in 1 .. n /\ g[k] = f[B(k)]
    BY <1>1
  <2>. QED  BY <1>6, <2>1 DEF Own
<1>7. Distinct(f, n) => Distinct(g, n)
  BY <1>5 DEF Distinct
<1>8. Own(f, n) => Own(g, n)
  BY <1>6 DEF Own
<1>. QED  BY <1>2, <1>4, <1>7, <1>8

\* ... and one more entry is in order.
LEMMA MovedOrder ==
  ASSUME NEW n \in 0 .. MAXSIZE, NEW i \in 2 .. n, NEW j \in 0 .. i - 1,
         NEW f \in [0 .. MAXSIZE -> Entries], NEW g, Moved(f, g, i, j),
         Ascending(f, i - 1)
  PROVE  Ascending(g, i)
<1>0. MAXSIZE \in Nat /\ n \in Nat /\ n <= MAXSIZE /\ i \in Nat /\ i <= n /\ j \in Nat /\ j < i
  BY DirListAssumption DEF DirListAssumption
<1>1. \A k \in 1 .. i : k \in 1 .. n /\ g[k] = f[Before(k, i, j)]
  <2>1. Reordered(f, g, n, i, j)
    BY MovedPlaces
  <2>2. ASSUME NEW k \in 1 .. i  PROVE k \in 1 .. n
    BY <1>0
  <2>. QED  BY <2>1, <2>2 DEF Reordered
<1>2. SUFFICES ASSUME NEW k \in 1 .. i, NEW l \in 1 .. i, k < l
               PROVE  g[k].name < g[l].name
  BY DEF Ascending
<1>3. CASE k = j + 1
  <2>1. l \in j + 2 .. i /\ l - 1 \in j + 1 .. i - 1
    BY <1>0, <1>2, <1>3
  <2>. QED  BY <1>3, <2>1 DEF Moved
<1>4. CASE l = j + 1
  <2>1. k \in 1 .. j /\ k \in (1 .. MAXSIZE) \ (j + 1 .. i)
    BY <1>0, <1>2, <1>4
  <2>. QED  BY <1>4, <2>1 DEF Moved
<1>5. CASE k # j + 1 /\ l # j + 1
  <2>1. /\ Before(k, i, j) \in 1 .. i - 1 /\ Before(l, i, j) \in 1 .. i - 1
        /\ Before(k, i, j) < Before(l, i, j)
    BY <1>0, <1>2, <1>5 DEF Before
  <2>. QED  BY <1>1, <2>1 DEF Ascending
<1>. QED  BY <1>3, <1>4, <1>5

-----------------------------------------------------------------------------
(* my_ls: what readdir and stat give *)

\* The names of directory d that are shown.
ToShow(d) == {n \in Contents[d] : Shown(n)}

\* Read in any order they fit into L, and each is there once.
LEMMA ReadNames ==
  ASSUME NEW d \in DOMAIN Contents, NEW s \in SetToSeqs(ToShow(d))
  PROVE  /\ Len(s) \in 0 .. MAXSIZE /\ DOMAIN s = 1 .. Len(s)
         /\ \A i \in 1 .. Len(s) : s[i] \in Nat /\ s[i] \in ToShow(d)
         /\ \A i, j \in 1 .. Len(s) : s[i] = s[j] => i = j
         /\ \A n \in ToShow(d) : \E i \in 1 .. Len(s) : s[i] = n
<1>. DEFINE c == Cardinality(ToShow(d))
<1>1. /\ IsFiniteSet(Contents[d]) /\ Cardinality(Contents[d]) <= MAXSIZE
      /\ Contents[d] \subseteq Nat \ {0} /\ MAXSIZE \in Nat
  BY DirListAssumption DEF DirListAssumption
<1>2. ToShow(d) \in SUBSET Contents[d]
  BY DEF ToShow
<1>3. IsFiniteSet(ToShow(d)) /\ c \in Nat /\ c <= MAXSIZE
  <2>1. IsFiniteSet(ToShow(d)) /\ c <= Cardinality(Contents[d])
    BY <1>1, <1>2, FS_Subset
  <2>2. c \in Nat /\ Cardinality(Contents[d]) \in Nat
    BY <1>1, <2>1, FS_CardinalityType
  <2>. QED  BY <1>1, <2>1, <2>2
<1>4. s \in [1 .. c -> ToShow(d)] /\ \A i, j \in 1 .. c : i # j => s[i] # s[j]
  BY DEF SetToSeqs
<1>. HIDE DEF c
<1>5. Len(s) = c /\ DOMAIN s = 1 .. c
  BY <1>3, <1>4
<1>6. s \in Surjection(1 .. c, ToShow(d))
  <2>1. IsFiniteSet(1 .. c) /\ Cardinality(1 .. c) = c
    BY <1>3, FS_Interval
  <2>2. s \in Injection(1 .. c, ToShow(d))
    BY <1>4 DEF Injection, IsInjective
  <2>. QED  BY <1>3, <2>1, <2>2, FS_Injection DEF c
<1>7. \A n \in ToShow(d) : \E i \in 1 .. c : s[i] = n
  BY <1>6 DEF Surjection
<1>8. \A i \in 1 .. c : s[i] \in Nat /\ s[i] \in ToShow(d)
  BY <1>1, <1>2, <1>4
<1>. QED  BY <1>3, <1>4, <1>5, <1>7, <1>8

\* stat gives something of the current directory; and of the file itself when
\* that is the directory that is listed.
LEMMA StatIs ==
  ASSUME LsTypeOK, NEW d \in DOMAIN Contents, NEW s \in SetToSeqs(ToShow(d)),
         NEW i \in 0 .. Len(s)
  PROVE  /\ Stat(s, i) \in {Cwd} \X Nat
         /\ d = Cwd /\ "l" \in flags /\ i > 0 => Stat(s, i) = <<Cwd, s[i]>>
<1>. DEFINE found == {k \in 1 .. i : s[k] \in Contents[Cwd]}
<1>0. /\ Len(s) \in Nat /\ \A k \in 1 .. Len(s) : s[k] \in Nat /\ s[k] \in ToShow(d)
  BY ReadNames
<1>1. found \in SUBSET Int /\ i \in Int /\ \A k \in found : k <= i
  BY <1>0
<1>2. found # {} => Max(found) \in found /\ \A k \in found : k <= Max(found)
  <2>. HIDE DEF found
  <2>. QED  BY <1>1, MaxIs
<1>3. Stat(s, i) = IF "l" \notin flags \/ found = {} THEN buf
                   ELSE <<Cwd, s[Max(found)]>>
  BY DEF Stat
<1>4. Stat(s, i) \in {Cwd} \X Nat
  <2>1. found # {} => s[Max(found)] \in Nat
    BY <1>0, <1>2
  <2>2. buf \in {Cwd} \X Nat
    BY DEF LsTypeOK
  <2>. HIDE DEF found
  <2>. QED  BY <1>3, <2>1, <2>2
<1>5. ASSUME d = Cwd, "l" \in flags, i > 0
      PROVE  Stat(s, i) = <<Cwd, s[i]>>
  <2>1. i \in found
    BY <1>0, <1>5 DEF ToShow
  <2>2. Max(found) = i
    BY <1>0, <1>2, <2>1
  <2>. QED  BY <1>3, <1>5, <2>1, <2>2
<1>. QED  BY <1>4, <1>5

-----------------------------------------------------------------------------
(* my_ls: its steps *)

\* The names to show are in the list, each once, with its attributes when they
\* are looked for where the file is.
AllThere ==
  /\ Distinct(files, length)
  /\ NamesOf(files, length) = ToShow(Head(dirs))
  /\ "l" \in flags /\ Head(dirs) = Cwd => Own(files, length)

\* While there is a directory to list, the names are there from readdir on; the
\* entries before the present turn of the sort are in order, in the end all; and
\* they are what is printed.
ListInv ==
  /\ LsTypeOK
  /\ ls \in {"opendir", "sort", "print", "printed"} => dirs # <<>>
  /\ ls \in {"sort", "print", "printed"} => AllThere
  /\ ls = "sort" => /\ Ascending(files, turn - 1)
                    /\ turn > 2 => turn <= length + 1
  /\ ls \in {"print", "printed"} => Ascending(files, length)
  /\ ls = "printed" =>
       printed = [i \in 1 .. length - First + 1 |-> files[First + i - 1]]

\* readdir fills the list.
LEMMA ReaddirStep ==
  ASSUME ListInv, Readdir
  PROVE  ListInv'
<1>. DEFINE d == Head(dirs)
<1>1. PICK s \in SetToSeqs(ToShow(d)) :
        /\ files' = [i \in 0 .. MAXSIZE |->
                       IF i \in DOMAIN s
                       THEN [name |-> s[i],
                             status |-> IF "l" \in flags THEN Stat(s, i)
                                        ELSE NoFile]
                       ELSE NoEntry]
        /\ length' = Len(s)
        /\ buf' = Stat(s, Len(s))
  BY DEF Readdir, ToShow
<1>2. d \in DOMAIN Contents
  BY DEF Readdir
<1>3. /\ Len(s) \in 0 .. MAXSIZE /\ DOMAIN s = 1 .. Len(s) /\ MAXSIZE \in Nat
      /\ \A i \in 1 .. Len(s) : s[i] \in Nat /\ s[i] \in ToShow(d)
      /\ \A i, j \in 1 .. Len(s) : s[i] = s[j] => i = j
      /\ \A n \in ToShow(d) : \E i \in 1 .. Len(s) : s[i] = n
  BY <1>2, ReadNames, DirListAssumption DEF DirListAssumption
<1>4. ASSUME NEW i \in 0 .. Len(s)
      PROVE  /\ Stat(s, i) \in {Cwd} \X Nat
             /\ d = Cwd /\ "l" \in flags /\ i > 0 => Stat(s, i) = <<Cwd, s[i]>>
  <2>. HIDE DEF d
  <2>. QED  BY <1>2, StatIs DEF ListInv
<1>5. NoFile \in {Cwd} \X Nat /\ NoEntry \in Entries
  BY DEF NoFile, NoEntry, Entries
<1>6. ASSUME NEW i \in 1 .. Len(s)
      PROVE  /\ i \in 0 .. MAXSIZE
             /\ files'[i].name = s[i]
             /\ "l" \in flags => files'[i].status = Stat(s, i)
  <2>1. i \in 0 .. MAXSIZE /\ i \in DOMAIN s
    BY <1>3
  <2>. QED  BY <1>1, <2>1
<1>7. files' \in [0 .. MAXSIZE -> Entries]
  <2>1. ASSUME NEW i \in 0 .. MAXSIZE, i \in DOMAIN s
        PROVE  [name |-> s[i],
                status |-> IF "l" \in flags THEN Stat(s, i) ELSE NoFile] \in Entries
    <3>1. i \in 1 .. Len(s) /\ i \in 0 .. Len(s)
      BY <1>3, <2>1
    <3>. QED  BY <1>3, <1>4, <1>5, <3>1 DEF Entries
  <2>. QED  BY <1>1, <1>5, <2>1
<1>8. LsTypeOK'
  <2>1. Len(s) \in 0 .. Len(s) /\ 2 \in 2 .. MAXSIZE + 2
    BY <1>3
  <2>. QED  BY <1>1, <1>3, <1>4, <1>7, <2>1 DEF ListInv, LsTypeOK, Readdir
<1>9. /\ ls' = "sort" /\ turn' = 2 /\ dirs' = dirs /\ flags' = flags /\ dirs # <<>>
      /\ ToShow(d)' = ToShow(d)
  BY DEF Readdir, ListInv, ToShow, Shown
<1>10. Distinct(files', Len(s))
  BY <1>3, <1>6 DEF Distinct
<1>11. NamesOf(files', Len(s)) = ToShow(d)
  BY <1>3, <1>6 DEF NamesOf
<1>12. "l" \in flags /\ d = Cwd => Own(files', Len(s))
  <2>1. ASSUME "l" \in flags, d = Cwd, NEW i \in 1 .. Len(s)
        PROVE  files'[i].status = <<Cwd, files'[i].name>>
    <3>1. i \in 0 .. Len(s) /\ i > 0
      BY <1>3
    <3>. QED  BY <1>4, <1>6, <2>1, <3>1
  <2>. QED  BY <2>1 DEF Own
<1>13. AllThere'
  BY <1>1, <1>9, <1>10, <1>11, <1>12 DEF AllThere, Distinct, NamesOf, Own
<1>14. Ascending(files, turn - 1)'
  <2>1. turn' - 1 = 1
    BY <1>9
  <2>. QED  BY <2>1 DEF Ascending
<1>. QED  BY <1>8, <1>9, <1>13, <1>14 DEF ListInv

\* A turn of the sort puts one more entry in its place.
LEMMA SortStep ==
  ASSUME ListInv, LsSort
  PROVE  ListInv'
<1>1. /\ MAXSIZE \in Nat /\ length \in 0 .. MAXSIZE /\ turn \in 2 .. MAXSIZE + 2
      /\ turn <= length /\ turn' = turn + 1 /\ files' = Insert(files, turn)
      /\ files \in [0 .. MAXSIZE -> Entries]
      /\ UNCHANGED <<ls, argv, flags, dirs, length, buf, printed>>
      /\ ls = "sort" /\ dirs # <<>> /\ AllThere /\ Ascending(files, turn - 1)
  BY DirListAssumption DEF ListInv, LsTypeOK, LsSort, DirListAssumption
<1>2. turn \in 2 .. length /\ turn \in 2 .. MAXSIZE
  BY <1>1
<1>3. Distinct(files, turn)
  <2>1. \A k \in 1 .. turn : k \in 1 .. length
    BY <1>1
  <2>. QED  BY <1>1, <2>1 DEF AllThere, Distinct
<1>4. PICK j \in 0 .. turn - 1 : Moved(files, files', turn, j)
  BY <1>1, <1>2, <1>3, InsertMoves
<1>5. /\ NamesOf(files', length) = NamesOf(files, length)
      /\ Distinct(files, length) => Distinct(files', length)
      /\ Own(files, length) => Own(files', length)
  BY <1>1, <1>2, <1>4, MovedNames
<1>6. Ascending(files', turn)
  BY <1>1, <1>2, <1>4, MovedOrder
<1>7. LsTypeOK'
  <2>1. files' \in [0 .. MAXSIZE -> Entries]
    BY <1>4 DEF Moved
  <2>2. turn' \in 2 .. MAXSIZE + 2
    BY <1>1
  <2>. QED  BY <1>1, <2>1, <2>2 DEF ListInv, LsTypeOK
<1>8. AllThere'
  <2>1. ToShow(Head(dirs))' = ToShow(Head(dirs))
    BY <1>1 DEF ToShow, Shown
  <2>. QED  BY <1>1, <1>5, <2>1 DEF AllThere, Distinct, NamesOf, Own
<1>9. turn' - 1 = turn /\ turn' <= length' + 1
  BY <1>1
<1>10. Ascending(files, turn - 1)'
  BY <1>6, <1>9 DEF Ascending
<1>. QED  BY <1>1, <1>7, <1>8, <1>9, <1>10 DEF ListInv

\* A listing is as long as the list, or by entry 0 longer.
LEMMA PrintedIs ==
  ASSUME NEW f \in [0 .. MAXSIZE -> Entries], NEW n \in 0 .. MAXSIZE
  PROVE  /\ First \in {0, 1}
         /\ [i \in 1 .. n - First + 1 |-> f[First + i - 1]] \in Seq(Entries)
<1>1. First \in {0, 1} /\ MAXSIZE \in Nat
  BY DirListAssumption DEF First, DirListAssumption
<1>. DEFINE m == n - First + 1
            e == [i \in 1 .. m |-> f[First + i - 1]]
<1>2. m \in Nat
  BY <1>1
<1>3. ASSUME NEW i \in 1 .. m  PROVE f[First + i - 1] \in Entries
  <2>1. First + i - 1 \in 0 .. MAXSIZE
    BY <1>1
  <2>. QED  BY <2>1
<1>4. e \in [1 .. m -> Entries]
  BY <1>3
<1>. HIDE DEF m, e
<1>5. e \in Seq(Entries)
  BY <1>2, <1>4
<1>. QED  BY <1>1, <1>5 DEF e, m

\* Every step of my_ls keeps the invariant.
LEMMA LsStep ==
  ASSUME ListInv, LsNext
  PROVE  ListInv'
<1>0. LsTypeOK /\ MAXSIZE \in Nat
  BY DirListAssumption DEF ListInv, DirListAssumption
<1>1. CASE Getopt
  <2>1. argv \in Seq(STRING) /\ argv # <<>> /\ dirs \in Seq(STRING)
    BY <1>0, <1>1 DEF Getopt, LsTypeOK
  <2>2. Head(argv) \in STRING /\ Tail(argv) \in Seq(STRING)
    BY <2>1, HeadTailProperties
  <2>3. flags' \subseteq {"a", "i", "l", "err"}
    BY <1>0, <1>1, DirListAssumption DEF Getopt, LsTypeOK, DirListAssumption
  <2>4. dirs' \in Seq(STRING)
    BY <1>1, <2>1, <2>2, AppendProperties DEF Getopt
  <2>5. LsTypeOK'
    BY <1>0, <1>1, <2>2, <2>3, <2>4 DEF Getopt, LsTypeOK, listvars
  <2>. QED  BY <1>1, <2>5 DEF Getopt, ListInv
<1>2. CASE GetoptDone
  <2>1. <<Cwd>> \in Seq(STRING) /\ <<Cwd>> # <<>>
    <3>1. Cwd \in STRING
      BY DirListAssumption DEF DirListAssumption
    <3>2. Len(<<Cwd>>) = 1 /\ Len(<<>>) = 0
      OBVIOUS
    <3>3. ASSUME NEW S, NEW d \in S  PROVE <<d>> \in Seq(S)
      OBVIOUS
    <3>4. <<Cwd>> \in Seq(STRING)
      BY <3>1, <3>3
    <3>. QED  BY <3>2, <3>4
  <2>2. LsTypeOK'
    BY <1>0, <1>2, <2>1 DEF GetoptDone, LsTypeOK, listvars
  <2>. QED  BY <1>2, <2>1, <2>2 DEF GetoptDone, ListInv
<1>3. CASE LsUnknownOption \/ OpendirFails
  <2>1. ls' = "exit" /\ UNCHANGED <<argv, flags, dirs, listvars, printed>>
    BY <1>3 DEF LsUnknownOption, OpendirFails
  <2>. QED  BY <1>0, <2>1 DEF ListInv, LsTypeOK, listvars
<1>4. CASE Readdir
  BY <1>4, ReaddirStep
<1>5. CASE LsSort
  BY <1>5, SortStep
<1>6. CASE LsSorted
  <2>1. /\ ls = "sort" /\ ls' = "print" /\ turn > length
        /\ UNCHANGED <<argv, flags, dirs, files, length, turn, buf, printed>>
    BY <1>6 DEF LsSorted, listvars
  <2>2. Ascending(files, length)
    <3>1. length \in Nat /\ turn \in Nat /\ \A k \in 1 .. length : k \in 1 .. turn - 1
      BY <1>0, <2>1 DEF LsTypeOK
    <3>. QED  BY <2>1, <3>1 DEF Ascending, ListInv
  <2>3. LsTypeOK'
    BY <1>0, <2>1 DEF LsTypeOK
  <2>4. AllThere
    BY <2>1 DEF ListInv
  <2>5. AllThere'
    BY <2>1, <2>4 DEF AllThere, Distinct, NamesOf, Own, ToShow, Shown
  <2>. QED  BY <2>1, <2>2, <2>3, <2>5 DEF ListInv, Ascending
<1>7. CASE LsPrint
  <2>1. /\ ls = "print" /\ ls' = "printed"
        /\ printed' = [i \in 1 .. length - First + 1 |-> files[First + i - 1]]
        /\ UNCHANGED <<argv, flags, dirs, files, length, turn, buf>>
    BY <1>7 DEF LsPrint, listvars
  <2>2. printed' \in Seq(Entries)
    BY <1>0, <2>1, PrintedIs DEF LsTypeOK
  <2>3. LsTypeOK'
    BY <1>0, <2>1, <2>2 DEF LsTypeOK
  <2>4. AllThere' /\ Ascending(files, length)'
    BY <2>1 DEF ListInv, AllThere, Distinct, NamesOf, Own, ToShow, Shown, Ascending
  <2>. QED  BY <2>1, <2>3, <2>4 DEF ListInv, First
<1>8. CASE LsNextDirectory
  <2>1. /\ ls' = (IF Len(dirs) > 1 THEN "opendir" ELSE "exit")
        /\ dirs' = Tail(dirs) /\ printed' = <<>> /\ dirs # <<>>
        /\ UNCHANGED <<argv, flags, files, length, turn, buf>>
    BY <1>8 DEF LsNextDirectory, ListInv, listvars
  <2>2. Tail(dirs) \in Seq(STRING) /\ (Len(dirs) > 1 => Tail(dirs) # <<>>)
    <3>1. dirs \in Seq(STRING)
      BY <1>0 DEF LsTypeOK
    <3>2. Tail(dirs) \in Seq(STRING) /\ Len(Tail(dirs)) = Len(dirs) - 1 /\ Len(dirs) \in Nat
      BY <2>1, <3>1, HeadTailProperties, LenProperties
    <3>3. Len(<<>>) = 0
      OBVIOUS
    <3>4. ASSUME Len(dirs) > 1  PROVE Len(Tail(dirs)) # 0
      BY <3>2, <3>4
    <3>. QED  BY <3>2, <3>3, <3>4
  <2>3. LsTypeOK'
    BY <1>0, <2>1, <2>2, EmptySeq DEF LsTypeOK
  <2>. QED  BY <2>1, <2>2, <2>3 DEF ListInv
<1>. QED
  BY <1>1, <1>2, <1>3, <1>4, <1>5, <1>6, <1>7, <1>8 DEF LsNext

\* psh2 waits as long as its child is there, and started it with words.
ProgInv ==
  /\ program \in {"none", "exec", "my_ls", "tinybc", "client", "ended"}
  /\ psh = "wait" <=> program # "none"
  /\ psh \in {"run", "wait"} => typed # <<>>

\* Every step of the session keeps that.
LEMMA ProgStep ==
  ASSUME WordsInv, ProgInv, [Next]_vars
  PROVE  ProgInv'
<1>1. CASE Type
  BY <1>1 DEF Type, ReadWord, ProgInv
<1>2. CASE EndTyping
  <2>1. numargs > 0 => typed # <<>>
    BY EmptySeq DEF WordsInv
  <2>. QED  BY <1>2, <2>1 DEF EndTyping, EndOfInput, EmptyLine, EndList, ProgInv
<1>3. CASE Execute
  BY <1>3 DEF Execute, Fork, ForkFails, ProgInv
<1>4. CASE ExecMyLs \/ ExecTinyBc \/ ExecClient \/ ExecEnds \/ ProgramExits
  <2>1. /\ program # "none" /\ program' \in {"my_ls", "tinybc", "client", "ended"}
        /\ UNCHANGED pshvars
    BY <1>4 DEF ExecMyLs, ExecTinyBc, ExecClient, ExecEnds, ProgramExits, Runs
  <2>. QED  BY <2>1 DEF ProgInv, pshvars
<1>5. CASE Wait
  BY <1>5 DEF Wait, ChildEnds, ForgetPrograms, ProgInv
<1>6. CASE ControlC
  BY <1>6 DEF ControlC, Interrupt, ForgetPrograms, ProgInv
<1>7. CASE MyLs \/ Bc \/ Dc \/ Server \/ (\E c \in Clients : Client(c)) \/ Elsewhere
  <2>1. UNCHANGED <<pshvars, program>>
    BY <1>7 DEF MyLs, Bc, Dc, Server, Client, Elsewhere
  <2>. QED  BY <2>1 DEF ProgInv, pshvars
<1>8. CASE UNCHANGED vars
  BY <1>8 DEF vars, pshvars, ProgInv
<1>. QED
  BY <1>1, <1>2, <1>3, <1>4, <1>5, <1>6, <1>7, <1>8 DEF Next

\* What a step of the session is for my_ls.
LEMMA ListSteps ==
  ASSUME WordsInv, ProgInv, Next
  PROVE  \/ \E words \in Seq(STRING) : LsStart(words)
         \/ LsForget \/ LsNext \/ UNCHANGED lsvars
<1>1. ASSUME ExecMyLs  PROVE \E words \in Seq(STRING) : LsStart(words)
  <2>1. psh = "wait" /\ child_argv = typed /\ typed # <<>>
    BY <1>1 DEF ExecMyLs, Runs, WordsInv, ProgInv
  <2>2. child_argv \in Seq(STRING)
    BY SeqMonotonic, Psh2Assumption DEF WordsInv, PshTypeOK, Psh2Assumption
  <2>3. Tail(child_argv) \in Seq(STRING)
    BY <2>1, <2>2, HeadTailProperties
  <2>. QED  BY <1>1, <2>3 DEF ExecMyLs
<1>2. ExecMyLs \/ LsForget \/ LsNext \/ UNCHANGED lsvars
  BY DEF Next, Type, EndTyping, Execute, ExecTinyBc, ExecClient, ExecEnds,
    ProgramExits, Wait, ControlC, ForgetPrograms, MyLs, Bc, Dc, Server, Client,
    Elsewhere
<1>. QED  BY <1>1, <1>2

\* With no list there is nothing to be in order.
LEMMA ListEmpty ==
  NoList \in [0 .. MAXSIZE -> Entries] /\ NoFile \in {Cwd} \X Nat
BY DEF NoList, NoEntry, NoFile, Entries

\* At the start, and when it is gone, my_ls has nothing.
LEMMA InitList ==
  ASSUME LsInit
  PROVE  ListInv
<1>1. MAXSIZE \in Nat
  BY DirListAssumption DEF DirListAssumption
<1>2. LsTypeOK
  BY <1>1, ListEmpty, EmptySeq DEF LsInit, LsTypeOK
<1>. QED  BY <1>2 DEF LsInit, ListInv

\* Every step of the session keeps my_ls right.
LEMMA ListStep ==
  ASSUME WordsInv, ProgInv, ListInv, [Next]_vars
  PROVE  ListInv'
<1>0. MAXSIZE \in Nat
  BY DirListAssumption DEF DirListAssumption
<1>1. ASSUME NEW words \in Seq(STRING), LsStart(words)  PROVE ListInv'
  BY <1>1 DEF LsStart, ListInv, LsTypeOK, listvars
<1>2. CASE LsForget
  <2>1. LsTypeOK'
    BY <1>0, <1>2, ListEmpty, EmptySeq DEF LsForget, LsTypeOK
  <2>. QED  BY <1>2, <2>1 DEF LsForget, ListInv
<1>3. CASE LsNext
  BY <1>3, LsStep
<1>4. CASE UNCHANGED lsvars
  <2>1. UNCHANGED <<ls, argv, flags, dirs, files, length, turn, buf, printed>>
    BY <1>4 DEF lsvars, listvars
  <2>2. LsTypeOK'
    BY <2>1 DEF ListInv, LsTypeOK
  <2>3. AllThere' <=> AllThere
    BY <2>1 DEF AllThere, Distinct, NamesOf, Own, ToShow, Shown
  <2>. QED  BY <2>1, <2>2, <2>3 DEF ListInv, Ascending, First
<1>5. UNCHANGED vars => UNCHANGED lsvars
  BY DEF vars
<1>. QED  BY <1>1, <1>2, <1>3, <1>4, <1>5, ListSteps

\* The lines that are about files of their own are the entries 1 .. length.
LEMMA ListedIs ==
  ASSUME ListInv, ls = "printed"
  PROVE  /\ DOMAIN Listed = 1 .. length
         /\ \A i \in 1 .. length : Listed[i] = files[i]
<1>1. /\ files \in [0 .. MAXSIZE -> Entries] /\ length \in 0 .. MAXSIZE
      /\ MAXSIZE \in Nat /\ length \in Nat
      /\ printed = [i \in 1 .. length - First + 1 |-> files[First + i - 1]]
  BY DirListAssumption DEF ListInv, LsTypeOK, DirListAssumption
<1>2. First \in {0, 1} /\ printed \in Seq(Entries)
  BY <1>1, PrintedIs
<1>3. CASE First = 1
  <2>1. length - First + 1 = length /\ Listed = printed
    BY <1>1, <1>3 DEF Listed
  <2>2. \A i \in 1 .. length : First + i - 1 = i
    BY <1>1, <1>3
  <2>. QED  BY <1>1, <2>1, <2>2
<1>4. CASE First = 0
  <2>1. length - First + 1 = length + 1 /\ Listed = Tail(printed)
    BY <1>1, <1>4 DEF Listed
  <2>2. DOMAIN printed = 1 .. length + 1
    BY <1>1, <2>1
  <2>3. Len(printed) = length + 1
    BY <1>1, <1>2, <2>2, LenProperties
  <2>4. printed # <<>>
    <3>1. length \in Nat /\ Len(<<>>) = 0
      BY <1>1
    <3>. QED  BY <2>3, <3>1
  <2>5. /\ Tail(printed) \in Seq(Entries) /\ Len(Tail(printed)) = length
        /\ \A i \in 1 .. length : Tail(printed)[i] = printed[i + 1]
    <3>1. /\ Tail(printed) \in Seq(Entries)
          /\ Len(Tail(printed)) = Len(printed) - 1
          /\ \A i \in 1 .. Len(Tail(printed)) : Tail(printed)[i] = printed[i + 1]
      BY <1>2, <2>4, HeadTailProperties
    <3>2. length \in Nat
      BY <1>1
    <3>3. Len(Tail(printed)) = length
      BY <2>3, <3>1, <3>2
    <3>. QED  BY <3>1, <3>3
  <2>6. DOMAIN Tail(printed) = 1 .. length
    BY <2>5, LenProperties
  <2>7. \A i \in 1 .. length : printed[i + 1] = files[i]
    <3>1. ASSUME NEW i \in 1 .. length
          PROVE  i + 1 \in 1 .. length - First + 1 /\ First + (i + 1) - 1 = i
      BY <1>1, <1>4
    <3>. QED  BY <1>1, <3>1
  <2>. QED  BY <2>1, <2>5, <2>6, <2>7
<1>. QED  BY <1>2, <1>3, <1>4

\* my_ls is right all the time.
LEMMA ListInvHolds == Spec => [](ProgInv /\ ListInv)
<1>1. Init => ProgInv /\ ListInv
  <2>1. ASSUME Init  PROVE LsInit /\ ProgInv
    BY <2>1 DEF Init, PshInit, ProgInv
  <2>. QED  BY <2>1, InitList
<1>2. WordsInv /\ ProgInv /\ ListInv /\ [Next]_vars => ProgInv' /\ ListInv'
  BY ProgStep, ListStep
<1>. QED  BY <1>1, <1>2, WordsInvHolds, PTL DEF Spec

\* Whatever order readdir gives the names in, my_ls prints each name that is to
\* be shown once, in ascending order.
THEOREM SortedTheorem ==
  Spec => []ListingSorted
<1>1. ASSUME ListInv, ls = "printed"
      PROVE  /\ \A i, j \in DOMAIN Listed : i < j => Listed[i].name < Listed[j].name
             /\ {Listed[i].name : i \in DOMAIN Listed} = ToShow(Head(dirs))
  <2>1. /\ DOMAIN Listed = 1 .. length
        /\ \A i \in 1 .. length : Listed[i] = files[i]
    BY <1>1, ListedIs
  <2>2. Ascending(files, length) /\ NamesOf(files, length) = ToShow(Head(dirs))
    BY <1>1 DEF ListInv, AllThere
  <2>. QED  BY <2>1, <2>2 DEF Ascending, NamesOf
<1>2. ListInv => ListingSorted
  BY <1>1 DEF ListingSorted, ToShow
<1>. QED  BY <1>2, ListInvHolds, PTL

\* Every line of a long listing of the current directory has what stat said of
\* the file it names, although the sort moves entries and buf keeps what it has
\* when a file is not found.
THEOREM OwnTheorem ==
  Spec => []OwnAttributes
<1>1. ASSUME ListInv, ls = "printed", "l" \in flags, Head(dirs) = Cwd
      PROVE  \A i \in DOMAIN Listed : Listed[i].status = <<Cwd, Listed[i].name>>
  <2>1. /\ DOMAIN Listed = 1 .. length
        /\ \A i \in 1 .. length : Listed[i] = files[i]
    BY <1>1, ListedIs
  <2>2. Own(files, length)
    BY <1>1 DEF ListInv, AllThere
  <2>. QED  BY <2>1, <2>2 DEF Own
<1>2. ListInv => OwnAttributes
  BY <1>1 DEF OwnAttributes
<1>. QED  BY <1>2, ListInvHolds, PTL

\* No variable of the session leaves its type: no command gets more words than
\* arglist has room for, no listing more names than L, no pipe more lines than
\* it holds, no queue more callers than listen() allowed.
THEOREM TypeTheorem ==
  Spec => []TypeOK
<1>1. WordsInv /\ ProgInv /\ ListInv /\ TalkInv /\ StreamInv => TypeOK
  BY DEF WordsInv, ProgInv, ListInv, TalkInv, StreamInv, TypeOK
<1>. QED  BY <1>1, WordsInvHolds, ListInvHolds, TalkInvHolds, StreamInvHolds, PTL
=============================================================================
