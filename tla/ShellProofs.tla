----------------------------- MODULE ShellProofs ------------------------------
(***************************************************************************)
(* Proofs about smsh4 (Shell): its types, that its array of strings        *)
(* implements a map from names to texts and marks, that a child finds the  *)
(* text last given to each variable, and that commands follow conditions   *)
(* that are not nested.                                                    *)
(***************************************************************************)
EXTENDS Shell, SequenceTheorems, FiniteSetTheorems, TLAPS

-----------------------------------------------------------------------------
(* The table *)

\* find_item and VLstore together keep every name in one place.
Unique == \A i, j \in DOMAIN tab : tab[i].name = tab[j].name => i = j

TableInv ==
  /\ tab \in Seq(Entries)
  /\ Len(tab) <= MAXVARS
  /\ Unique

\* The two ways in which the builtin commands change the table: an entry gets
\* another text or its mark, or a name that is not there is put at the end.
Replaced(e) ==
  /\ e \in Entries
  /\ Found(e.name)
  /\ tab' = [tab EXCEPT ![FindItem(e.name)] = e]

Appended(e) ==
  /\ e \in Entries
  /\ ~Found(e.name) /\ ~Full
  /\ tab' = Append(tab, e)

\* The sizes are numbers.
LEMMA Sizes == MAXVARS \in Nat /\ MaxEnviron \in Nat
BY VarTableAssumption DEF VarTableAssumption

\* find_item returns the one place where a name is.
LEMMA FindItemFinds ==
  ASSUME TableInv, NEW n, Found(n)
  PROVE  /\ FindItem(n) \in 1 .. Len(tab)
         /\ tab[FindItem(n)] \in Entries
         /\ tab[FindItem(n)].name = n
         /\ \A j \in DOMAIN tab : tab[j].name = n => j = FindItem(n)
<1>1. PICK i \in DOMAIN tab : tab[i].name = n
  BY DEF Found, Places
<1>2. DOMAIN tab = 1 .. Len(tab) /\ \A j \in 1 .. Len(tab) : tab[j] \in Entries
  BY DEF TableInv
<1>3. \A j \in DOMAIN tab : tab[j].name = n => j = i
  BY <1>1 DEF TableInv, Unique
<1>4. i \in Places(n) /\ \A j \in Places(n) : i <= j
  BY <1>1, <1>2, <1>3 DEF Places
<1>5. FindItem(n) \in Places(n)
  BY <1>4 DEF FindItem
<1>. QED  BY <1>1, <1>2, <1>3, <1>5 DEF Places

\* An entry that is replaced stays in its place and under its name.
LEMMA ReplacedKeeps ==
  ASSUME TableInv, NEW e, Replaced(e)
  PROVE  /\ TableInv'
         /\ DOMAIN tab' = DOMAIN tab
         /\ \A i \in DOMAIN tab :
              tab'[i] = IF tab[i].name = e.name THEN e ELSE tab[i]
<1>1. FindItem(e.name) \in 1 .. Len(tab) /\ tab[FindItem(e.name)].name = e.name
      /\ \A j \in DOMAIN tab : tab[j].name = e.name => j = FindItem(e.name)
  BY FindItemFinds DEF Replaced
<1>2. tab \in Seq(Entries) /\ DOMAIN tab = 1 .. Len(tab)
  BY DEF TableInv
<1>3. tab' \in Seq(Entries) /\ Len(tab') = Len(tab) /\ DOMAIN tab' = DOMAIN tab
  BY <1>1, <1>2, ExceptSeq DEF Replaced
<1>4. \A i \in DOMAIN tab :
        tab'[i] = IF tab[i].name = e.name THEN e ELSE tab[i]
  BY <1>1, <1>2 DEF Replaced
<1>5. \A i \in DOMAIN tab : tab'[i].name = tab[i].name
  BY <1>4
<1>. QED  BY <1>3, <1>4, <1>5 DEF TableInv, Unique

\* A new entry does not move the others.
LEMMA AppendedKeeps ==
  ASSUME TableInv, NEW e, Appended(e)
  PROVE  /\ TableInv'
         /\ DOMAIN tab' = DOMAIN tab \cup {Len(tab) + 1}
         /\ Len(tab) + 1 \notin DOMAIN tab
         /\ \A i \in DOMAIN tab : tab'[i] = tab[i] /\ tab[i].name # e.name
         /\ tab'[Len(tab) + 1] = e
<1>1. /\ tab' \in Seq(Entries) /\ Len(tab') = Len(tab) + 1
      /\ \A i \in 1 .. Len(tab) : tab'[i] = tab[i]
      /\ tab'[Len(tab) + 1] = e
  BY DEF TableInv, Appended
<1>2. DOMAIN tab = 1 .. Len(tab) /\ DOMAIN tab' = 1 .. Len(tab) + 1
      /\ Len(tab) \in Nat
  BY <1>1 DEF TableInv
<1>3. DOMAIN tab' = DOMAIN tab \cup {Len(tab) + 1} /\ Len(tab) + 1 \notin DOMAIN tab
  BY <1>2
<1>4. \A i \in DOMAIN tab : tab[i].name # e.name
  BY DEF Appended, Found, Places
<1>5. Unique'
  BY <1>1, <1>2, <1>3, <1>4 DEF TableInv, Unique
<1>6. Len(tab') <= MAXVARS
  <2>1. ~(Len(tab) >= MAXVARS)
    BY DEF Appended, Full
  <2>. QED  BY <1>1, <1>2, <2>1, Sizes
<1>. QED  BY <1>1, <1>2, <1>3, <1>4, <1>5, <1>6 DEF TableInv

\* VLstore either replaces the entry of its name, or is at a loss for room, or
\* takes a free entry.
LEMMA StoreSteps ==
  ASSUME TableInv, NEW n \in Names, NEW x \in Texts, VLstore(n, x)
  PROVE  IF Found(n)
         THEN /\ tab[FindItem(n)].global \in BOOLEAN
              /\ Replaced(Entry(NewString(n, x), tab[FindItem(n)].global))
         ELSE IF Full THEN tab' = tab
         ELSE Appended(Entry(NewString(n, x), FALSE))
<1>1. \A g \in BOOLEAN : Entry(NewString(n, x), g) \in Entries
                         /\ Entry(NewString(n, x), g).name = n
  BY DEF Entry, NewString, Entries
<1>2. CASE Found(n)
  <2>1. FindItem(n) \in DOMAIN tab /\ tab[FindItem(n)] \in Entries
    BY <1>2, FindItemFinds DEF TableInv
  <2>2. tab[FindItem(n)].global \in BOOLEAN
    BY <2>1 DEF Entries
  <2>3. tab' = [tab EXCEPT ![FindItem(n)] =
                  Entry(NewString(n, x), tab[FindItem(n)].global)]
    BY <1>2, <2>1 DEF VLstore
  <2>. QED  BY <1>1, <1>2, <2>2, <2>3 DEF Replaced
<1>3. CASE ~Found(n)
  BY <1>1, <1>3 DEF VLstore, Appended
<1>. QED  BY <1>2, <1>3

\* VLexport, when it returns, marks the entry of its name or takes a free one
\* for an empty text.
LEMMA ExportSteps ==
  ASSUME TableInv, NEW n \in Names, VLexport(n), ~VLexportNeverReturns(n)
  PROVE  IF Found(n)
         THEN Replaced([tab[FindItem(n)] EXCEPT !.global = TRUE])
         ELSE Appended(Entry(NewString(n, ""), FALSE))
<1>1. CASE Found(n)
  <2>1. tab[FindItem(n)] \in Entries /\ tab[FindItem(n)].name = n
    BY <1>1, FindItemFinds
  <2>2. [tab[FindItem(n)] EXCEPT !.global = TRUE] \in Entries
        /\ [tab[FindItem(n)] EXCEPT !.global = TRUE].name = n
    BY <2>1 DEF Entries
  <2>3. tab' = [tab EXCEPT ![FindItem(n)] = [@ EXCEPT !.global = TRUE]]
    BY <1>1 DEF VLexport
  <2>4. FindItem(n) \in DOMAIN tab
    BY <1>1, FindItemFinds DEF TableInv
  <2>. QED  BY <1>1, <2>2, <2>3, <2>4 DEF Replaced
<1>2. CASE ~Found(n)
  <2>1. VLstore(n, "") /\ ~Full /\ "" \in Texts
    BY <1>2, VarTableAssumption
    DEF VLexport, VLexportNeverReturns, VLstoreFails, VarTableAssumption
  <2>. QED  BY <1>2, <2>1, StoreSteps
<1>. QED  BY <1>1, <1>2

\* A string of the environment as an entry of the table.
LEMMA LoadedEntry ==
  ASSUME NEW t, NEW s, s.name \in Names, s.text \in Texts,
         t = [name |-> s.name, space |-> FALSE, text |-> s.text, global |-> TRUE]
  PROVE  /\ t \in Entries
         /\ t.name = s.name /\ t.text = s.text
         /\ t.global = TRUE /\ t.space = FALSE
BY DEF Entries

\* An environment names each variable once, and so does the table that is
\* loaded from it.
LEMMA LoadedTable ==
  ASSUME NEW e \in Environs, tab = VLenviron2table(e)
  PROVE  /\ TableInv
         /\ Len(e) \in Nat /\ DOMAIN e = 1 .. Len(e)
         /\ DOMAIN tab = 1 .. (IF Len(e) < MAXVARS THEN Len(e) ELSE MAXVARS)
         /\ DOMAIN tab \subseteq DOMAIN e
         /\ \A i \in DOMAIN tab :
              /\ tab[i].name = e[i].name /\ tab[i].text = e[i].text
              /\ tab[i].global = TRUE /\ tab[i].space = FALSE
<1>1. PICK k \in 0 .. MaxEnviron :
        e \in [1 .. k -> [name : Names, text : Texts]]
  BY DEF Environs
<1>2. k \in Nat /\ Len(e) = k /\ DOMAIN e = 1 .. k
  <2>1. k \in Nat
    BY Sizes
  <2>. DEFINE Strings == [name : Names, text : Texts]
  <2>2. e \in [1 .. k -> Strings]
    BY <1>1
  <2>. HIDE DEF Strings
  <2>3. e \in Seq(Strings)
    BY <2>1, <2>2
  <2>. QED  BY <2>1, <2>2, <2>3, LenProperties
<1>. DEFINE m == IF Len(e) < MAXVARS THEN Len(e) ELSE MAXVARS
<1>3. m \in Nat /\ m <= k /\ m <= MAXVARS
  BY <1>2, Sizes
<1>4. /\ DOMAIN tab = 1 .. m /\ 1 .. m \subseteq DOMAIN e
      /\ \A i \in 1 .. m :
           /\ tab[i] = [name |-> e[i].name, space |-> FALSE,
                        text |-> e[i].text, global |-> TRUE]
           /\ e[i] \in [name : Names, text : Texts]
  <2>1. DOMAIN tab = 1 .. m /\ 1 .. m \subseteq DOMAIN e
    BY <1>2, <1>3 DEF VLenviron2table
  <2>2. \A i \in 1 .. m : e[i] \in [name : Names, text : Texts]
    BY <1>1, <1>2, <2>1
  <2>3. \A i \in 1 .. m : tab[i] = [name |-> e[i].name, space |-> FALSE,
                                    text |-> e[i].text, global |-> TRUE]
    BY DEF VLenviron2table
  <2>. QED  BY <2>1, <2>2, <2>3
<1>5. ASSUME NEW i \in 1 .. m
      PROVE  /\ tab[i] \in Entries
             /\ tab[i].name = e[i].name /\ tab[i].text = e[i].text
             /\ tab[i].global = TRUE /\ tab[i].space = FALSE
  <2>1. e[i].name \in Names /\ e[i].text \in Texts
    BY <1>4
  <2>. QED  BY <1>4, <2>1, LoadedEntry
<1>6. tab \in [1 .. m -> Entries]
  <2>1. \A i \in 1 .. m : tab[i] \in Entries
    BY <1>5
  <2>. QED  BY <1>4, <2>1 DEF VLenviron2table
<1>7. tab \in Seq(Entries) /\ Len(tab) = m
  BY <1>3, <1>6
<1>8. Unique
  <2>1. \A i, j \in DOMAIN e : e[i].name = e[j].name => i = j
    BY DEF Environs
  <2>2. \A i \in DOMAIN tab : tab[i].name = e[i].name /\ i \in DOMAIN e
    BY <1>4, <1>5
  <2>. QED  BY <2>1, <2>2 DEF Unique
<1>. HIDE DEF m
<1>9. TableInv
  BY <1>3, <1>7, <1>8 DEF TableInv
<1>10. DOMAIN tab = 1 .. m /\ DOMAIN tab \subseteq DOMAIN e
  BY <1>4
<1>. QED  BY <1>2, <1>5, <1>9, <1>10 DEF m

-----------------------------------------------------------------------------
(* Types *)

\* The nested calls of process() and the "if"s still to come are together no
\* more than the line began with.
TypeInv ==
  /\ TypeOK
  /\ Unique
  /\ args.ifs + pending <= MaxIfs

\* The words of a line that name a variable.
LEMMA WordsName ==
  ASSUME args \in Lines
  PROVE  /\ args.ifs \in 0 .. MaxIfs
         /\ args.word.op \in {"assign", "export"} => args.word.name \in Names
         /\ args.word.op = "assign" => args.word.text \in Texts
<1>1. args.ifs \in 0 .. MaxIfs /\ args.word \in Words
  BY DEF Lines
<1>2. ASSUME NEW w \in Words
      PROVE  /\ w.op \in {"assign", "export"} => w.name \in Names
             /\ w.op = "assign" => w.text \in Texts
  BY DEF Words
<1>. QED  BY <1>1, <1>2

\* A line that has lost an "if" is a line.
LEMMA LineShorter ==
  ASSUME args \in Lines, args.ifs > 0
  PROVE  /\ [args EXCEPT !.ifs = @ - 1] \in Lines
         /\ [args EXCEPT !.ifs = @ - 1].ifs = args.ifs - 1
<1>1. MaxIfs \in Nat
  BY ShellAssumption DEF ShellAssumption
<1>2. args.ifs \in 0 .. MaxIfs /\ args.word \in Words
      /\ args = [ifs |-> args.ifs, word |-> args.word]
  BY DEF Lines
<1>3. [args EXCEPT !.ifs = @ - 1] = [ifs |-> args.ifs - 1, word |-> args.word]
  BY <1>2
<1>4. args.ifs - 1 \in 0 .. MaxIfs
  BY <1>1, <1>2
<1>. QED  BY <1>2, <1>3, <1>4 DEF Lines

\* The empty line is a line.
LEMMA NoLineIsLine == NoLine \in Lines /\ NoLine.ifs = 0
<1>1. MaxIfs \in Nat
  BY ShellAssumption DEF ShellAssumption
<1>2. [op |-> "none"] \in Words
  BY DEF Words
<1>. QED  BY <1>1, <1>2 DEF NoLine, Lines

\* The builtin commands keep the table in order.
LEMMA CommandsKeepTable ==
  ASSUME TypeInv, Assign \/ Export
  PROVE  TableInv'
<1>. USE WordsName
<1>1. TableInv /\ args \in Lines
  BY DEF TypeInv, TypeOK, TableInv
<1>2. CASE Assign
  <2>1. args.word.name \in Names /\ args.word.text \in Texts
        /\ VLstore(args.word.name, args.word.text)
    BY <1>1, <1>2 DEF Assign, At
  <2>2. \/ tab' = tab
        \/ \E e : Replaced(e) \/ Appended(e)
    BY <1>1, <2>1, StoreSteps
  <2>. QED  BY <1>1, <2>2, ReplacedKeeps, AppendedKeeps DEF TableInv, Unique
<1>3. CASE Export
  <2>1. args.word.name \in Names /\ VLexport(args.word.name)
        /\ ~VLexportNeverReturns(args.word.name)
    BY <1>1, <1>3 DEF Export, At
  <2>2. \E e : Replaced(e) \/ Appended(e)
    BY <1>1, <2>1, ExportSteps
  <2>. QED  BY <1>1, <2>2, ReplacedKeeps, AppendedKeeps
<1>. QED  BY <1>2, <1>3

\* At the start.
LEMMA TypeStart == Init => TypeInv
<1>. SUFFICES ASSUME Init  PROVE TypeInv
  OBVIOUS
<1>. USE DEF Init
<1>1. environ \in Environs /\ TableInv
  BY LoadedTable
<1>2. MaxIfs \in Nat /\ args \in Lines /\ args.ifs = 0
  BY NoLineIsLine, ShellAssumption DEF ShellAssumption
<1>3. child \in UNION {[S -> Entries] : S \in SUBSET (1 .. MAXVARS)}
  BY SMTT(30) DEF NoChild
<1>4. typed \in [Names -> Texts \cup {"untouched"}]
  OBVIOUS
<1>5. tab \in Seq(Entries) /\ Len(tab) <= MAXVARS /\ pending \in 0 .. MaxIfs
  BY <1>1, <1>2 DEF TableInv
<1>6. pc \in Places_pc /\ condfailed \in BOOLEAN
  BY DEF Places_pc
<1>7. TypeOK
  BY <1>1, <1>2, <1>3, <1>4, <1>5, <1>6 DEF TypeOK
<1>. QED  BY <1>1, <1>2, <1>7 DEF TypeInv, TableInv

\* Every step keeps the types.
LEMMA TypeStep == TypeInv /\ [Next]_vars => TypeInv'
<1>. SUFFICES ASSUME TypeInv, [Next]_vars  PROVE TypeInv'
  OBVIOUS
<1>3. NoChild \in UNION {[S -> Entries] : S \in SUBSET (1 .. MAXVARS)}
  BY DEF NoChild
<1>. USE DEF TypeInv, TypeOK, Unique, Places_pc, Outcome, Return, At
<1>1. MaxIfs \in Nat /\ args.ifs \in 0 .. MaxIfs
  BY WordsName, ShellAssumption DEF ShellAssumption
<1>2. NoLine \in Lines /\ NoLine.ifs = 0
  BY NoLineIsLine
<1>4. ASSUME NEW l \in Lines, ReadLine(l)  PROVE TypeInv'
  <2>1. l.ifs \in 0 .. MaxIfs
    BY DEF Lines
  <2>. QED  BY <1>1, <1>4, <2>1 DEF ReadLine, control
<1>5. CASE EndOfInput
  BY <1>5 DEF EndOfInput, control, ghosts
<1>6. CASE EmptyLine
  BY <1>6 DEF EmptyLine, control, ghosts
<1>7. CASE If
  <2>1. args' \in Lines /\ args'.ifs = args.ifs - 1
    BY <1>7, LineShorter DEF If
  <2>2. pending' = pending + 1 /\ pending' \in 0 .. MaxIfs
        /\ args'.ifs + pending' <= MaxIfs
    BY <1>1, <1>7, <2>1 DEF If
  <2>. QED  BY <1>7, <2>1, <2>2 DEF If, control
<1>8. CASE IfUnexpected
  BY <1>8 DEF IfUnexpected, syn_err
<1>9. CASE Then
  BY <1>9 DEF Then, ghosts
<1>10. CASE Fi
  BY <1>10 DEF Fi, ghosts
<1>11. CASE ControlUnexpected
  BY <1>11 DEF ControlUnexpected, syn_err
<1>12. CASE ThenExpected
  BY <1>12 DEF ThenExpected, syn_err
<1>13. CASE Skip
  BY <1>13 DEF Skip, control, ghosts
<1>14. CASE SetCommand
  BY <1>14 DEF SetCommand, control
<1>15. CASE Assign
  <2>1. TableInv'
    BY <1>15, CommandsKeepTable
  <2>2. typed' \in [Names -> Texts \cup {"untouched"}]
    BY <1>15, WordsName DEF Assign
  <2>3. rv' \in {-1, 0, 1} /\ condfailed' \in BOOLEAN
    BY <1>15 DEF Assign, VLstoreFails, Found, Full
  <2>. QED  BY <1>15, <2>1, <2>2, <2>3 DEF Assign, control, TableInv
<1>16. CASE Export
  <2>1. TableInv'
    BY <1>16, CommandsKeepTable
  <2>2. typed' \in [Names -> Texts \cup {"untouched"}]
    BY <1>16, WordsName, VarTableAssumption DEF Export, VarTableAssumption
  <2>3. rv' \in {-1, 0, 1} /\ condfailed' \in BOOLEAN
    BY <1>16 DEF Export, VLexportResult
  <2>. QED  BY <1>16, <2>1, <2>2, <2>3 DEF Export, control, TableInv
<1>17. CASE ExportHangs
  BY <1>17 DEF ExportHangs, control, ghosts
<1>18. CASE ExportNothing
  BY <1>18 DEF ExportNothing, control
<1>19. CASE ForkFails
  BY <1>19 DEF ForkFails, control
<1>20. CASE Fork
  <2>1. {j \in DOMAIN tab : tab[j].global} \subseteq 1 .. MAXVARS
    BY Sizes
  <2>2. VLtable2environ \in [{j \in DOMAIN tab : tab[j].global} -> Entries]
    BY DEF VLtable2environ
  <2>. QED  BY <1>20, <2>1, <2>2 DEF Fork, control, ghosts
<1>21. ASSUME NEW bad \in BOOLEAN, ChildEnds(bad)  PROVE TypeInv'
  BY <1>3, <1>21 DEF ChildEnds, control
<1>22. CASE IfReturns
  BY <1>1, <1>22 DEF IfReturns, ghosts
<1>23. CASE LineDone
  BY <1>1, <1>2, <1>23 DEF LineDone, control, ghosts
<1>24. CASE UNCHANGED vars
  BY <1>24 DEF vars, control, ghosts
<1>. QED
  BY <1>4, <1>5, <1>6, <1>7, <1>8, <1>9, <1>10, <1>11, <1>12, <1>13, <1>14,
     <1>15, <1>16, <1>17, <1>18, <1>19, <1>20, <1>21, <1>22, <1>23, <1>24
  DEF Next, ProcessLine

\* The variables of smsh4 have their types in every state; process() calls
\* itself no more often than a line has "if"s, and the table names a variable
\* once and never holds more than MAXVARS.
THEOREM TypeTheorem == Spec => []TypeOK
<1>1. Spec => []TypeInv
  BY TypeStart, TypeStep, PTL DEF Spec
<1>2. TypeInv => TypeOK
  BY DEF TypeInv
<1>. QED  BY <1>1, <1>2, PTL

-----------------------------------------------------------------------------
(* What a child finds *)

\* The text a child should find in each variable, as a function.
TextNow == [n \in Names |-> TextOf(n)]

\* Each entry has the text last given to its name; a variable that the shell
\* was started with is there, and still marked, if the table had room for all.
TextInv ==
  /\ \A i \in DOMAIN tab :
       /\ tab[i].text = TextNow[tab[i].name]
       /\ tab[i].space => typed[tab[i].name] # "untouched"
  /\ Len(environ) <= MAXVARS => \A n \in Names :
       Initial(n) # {} => \E i \in DOMAIN tab : tab[i].name = n /\ tab[i].global
  /\ pc = "wait" => child = VLtable2environ

\* Every entry has one of the names.
LEMMA EntriesName ==
  ASSUME TableInv
  PROVE  \A i \in DOMAIN tab : tab[i].name \in Names
<1>1. \A i \in DOMAIN tab : tab[i] \in Entries
  BY DEF TableInv
<1>2. \A e \in Entries : e.name \in Names
  BY DEF Entries
<1>. QED  BY <1>1, <1>2

\* What nobody types over stays.
LEMMA TextNowStays ==
  ASSUME UNCHANGED <<typed, environ>>
  PROVE  TextNow' = TextNow
BY DEF TextNow, TextOf, Initial

\* What is typed is what a child should find from then on.
LEMMA TextNowTyped ==
  ASSUME UNCHANGED environ, typed \in [Names -> Texts \cup {"untouched"}],
         NEW n \in Names, NEW x \in Texts, typed' = [typed EXCEPT ![n] = x]
  PROVE  /\ TextNow' = [TextNow EXCEPT ![n] = x]
         /\ typed'[n] # "untouched"
<1>1. x # "untouched" /\ typed'[n] = x
  BY ShellAssumption DEF ShellAssumption
<1>2. \A m \in Names : m # n => typed'[m] = typed[m]
  OBVIOUS
<1>3. \A m \in Names : TextOf(m)' = IF m = n THEN x ELSE TextOf(m)
  BY <1>1, <1>2 DEF TextOf, Initial
<1>. QED  BY <1>1, <1>3 DEF TextNow

\* At the start the texts are those of the environment.
LEMMA TextStart == Init => TextInv
<1>. SUFFICES ASSUME Init  PROVE TextInv
  OBVIOUS
<1>1. environ \in Environs /\ tab = VLenviron2table(environ)
  BY DEF Init
<1>. HIDE DEF VLenviron2table
<1>2. /\ TableInv
      /\ Len(environ) \in Nat /\ DOMAIN environ = 1 .. Len(environ)
      /\ DOMAIN tab = 1 .. (IF Len(environ) < MAXVARS THEN Len(environ)
                            ELSE MAXVARS)
      /\ DOMAIN tab \subseteq DOMAIN environ
      /\ \A i \in DOMAIN tab :
           /\ tab[i].name = environ[i].name /\ tab[i].text = environ[i].text
           /\ tab[i].global = TRUE /\ tab[i].space = FALSE
  BY <1>1, LoadedTable
<1>3. \A i, j \in DOMAIN environ : environ[i].name = environ[j].name => i = j
  BY <1>1 DEF Environs
<1>4. ASSUME NEW i \in DOMAIN tab
      PROVE  tab[i].text = TextNow[tab[i].name]
  <2>1. tab[i].name \in Names
    BY <1>2, EntriesName
  <2>2. Initial(tab[i].name) = {i}
    BY <1>2, <1>3 DEF Initial
  <2>3. (CHOOSE k \in Initial(tab[i].name) : TRUE) = i
    BY <2>2
  <2>4. TextOf(tab[i].name) = environ[i].text
    BY <2>1, <2>3 DEF TextOf, Init
  <2>. QED  BY <1>2, <2>1, <2>4 DEF TextNow
<1>5. ASSUME Len(environ) <= MAXVARS, NEW n \in Names, Initial(n) # {}
      PROVE  \E i \in DOMAIN tab : tab[i].name = n /\ tab[i].global
  <2>1. PICK i \in DOMAIN environ : environ[i].name = n
    BY <1>5 DEF Initial
  <2>2. i \in DOMAIN tab
    BY <1>2, <1>5, Sizes
  <2>. QED  BY <1>2, <2>1, <2>2
<1>. QED  BY <1>2, <1>4, <1>5 DEF TextInv, Init

\* An entry that is replaced: its text is the one typed just now or stays, and
\* its mark is not taken back.
LEMMA ReplacedText ==
  ASSUME TextInv, TableInv, NEW e, Replaced(e), UNCHANGED environ,
         TextNow' = [TextNow EXCEPT ![e.name] = e.text],
         e.space => typed'[e.name] # "untouched",
         \A m \in Names : m # e.name => typed'[m] = typed[m],
         tab[FindItem(e.name)].global => e.global,
         pc' # "wait"
  PROVE  TextInv'
<1>1. /\ TableInv' /\ DOMAIN tab' = DOMAIN tab
      /\ \A i \in DOMAIN tab :
           tab'[i] = IF tab[i].name = e.name THEN e ELSE tab[i]
  BY ReplacedKeeps
<1>2. \A i \in DOMAIN tab : tab[i].name \in Names
  BY EntriesName
<1>3. \A i \in DOMAIN tab : tab[i].name = e.name => i = FindItem(e.name)
  BY FindItemFinds DEF Replaced
<1>4. e.name \in Names
  BY DEF Replaced, Entries
<1>5. ASSUME NEW i \in DOMAIN tab'
      PROVE  /\ tab'[i].text = TextNow'[tab'[i].name]
             /\ tab'[i].space => typed'[tab'[i].name] # "untouched"
  <2>1. CASE tab[i].name = e.name
    BY <1>1, <1>4, <2>1 DEF TextNow
  <2>2. CASE tab[i].name # e.name
    BY <1>1, <1>2, <2>2 DEF TextInv
  <2>. QED  BY <2>1, <2>2
<1>6. ASSUME Len(environ) <= MAXVARS, NEW n \in Names, Initial(n) # {}
      PROVE  \E i \in DOMAIN tab' : tab'[i].name = n /\ tab'[i].global
  <2>1. PICK i \in DOMAIN tab : tab[i].name = n /\ tab[i].global
    BY <1>6 DEF TextInv
  <2>. QED  BY <1>1, <1>3, <2>1
<1>. QED  BY <1>5, <1>6 DEF TextInv, Initial

\* A new entry has the text typed just now.
LEMMA AppendedText ==
  ASSUME TextInv, TableInv, NEW e, Appended(e), UNCHANGED environ,
         TextNow' = [TextNow EXCEPT ![e.name] = e.text],
         typed'[e.name] # "untouched",
         \A m \in Names : m # e.name => typed'[m] = typed[m],
         pc' # "wait"
  PROVE  TextInv'
<1>1. /\ TableInv' /\ DOMAIN tab' = DOMAIN tab \cup {Len(tab) + 1}
      /\ \A i \in DOMAIN tab : tab'[i] = tab[i] /\ tab[i].name # e.name
      /\ tab'[Len(tab) + 1] = e
  BY AppendedKeeps
<1>2. \A i \in DOMAIN tab : tab[i].name \in Names
  BY EntriesName
<1>3. e.name \in Names
  BY DEF Appended, Entries
<1>4. ASSUME NEW i \in DOMAIN tab'
      PROVE  /\ tab'[i].text = TextNow'[tab'[i].name]
             /\ tab'[i].space => typed'[tab'[i].name] # "untouched"
  <2>1. CASE i \in DOMAIN tab
    BY <1>1, <1>2, <2>1 DEF TextInv
  <2>2. CASE i = Len(tab) + 1
    BY <1>1, <1>3, <2>2 DEF TextNow
  <2>. QED  BY <1>1, <2>1, <2>2
<1>5. ASSUME Len(environ) <= MAXVARS, NEW n \in Names, Initial(n) # {}
      PROVE  \E i \in DOMAIN tab' : tab'[i].name = n /\ tab'[i].global
  BY <1>1, <1>5 DEF TextInv
<1>. QED  BY <1>4, <1>5 DEF TextInv, Initial

\* A step that leaves the variables alone.
LEMMA TextStays ==
  ASSUME TextInv, UNCHANGED <<tab, typed, environ>>,
         pc' = "wait" => child' = VLtable2environ
  PROVE  TextInv'
<1>1. TextNow' = TextNow
  BY TextNowStays
<1>2. VLtable2environ' = VLtable2environ
  BY DEF VLtable2environ
<1>. QED  BY <1>1, <1>2 DEF TextInv, Initial

\* Assigning a text.
LEMMA AssignText == TypeInv /\ TextInv /\ Assign => TextInv'
<1>. SUFFICES ASSUME TypeInv, TextInv, Assign  PROVE TextInv'
  OBVIOUS
<1>. DEFINE n == args.word.name
            x == args.word.text
<1>1. TableInv /\ args \in Lines /\ typed \in [Names -> Texts \cup {"untouched"}]
  BY DEF TypeInv, TypeOK, TableInv
<1>2. /\ VLstore(n, x) /\ UNCHANGED environ /\ pc' = "return"
      /\ typed' = IF VLstoreFails(n) THEN typed ELSE [typed EXCEPT ![n] = x]
  BY DEF Assign, Return
<1>3. n \in Names /\ x \in Texts
  BY <1>1, WordsName DEF Assign, At
<1>. HIDE DEF n, x
<1>4. CASE VLstoreFails(n)
  <2>1. tab' = tab
    BY <1>2, <1>4 DEF VLstore, VLstoreFails
  <2>. QED  BY <1>2, <1>4, <2>1, TextStays
<1>5. CASE ~VLstoreFails(n)
  <2>1. typed' = [typed EXCEPT ![n] = x]
    BY <1>2, <1>5
  <2>2. TextNow' = [TextNow EXCEPT ![n] = x] /\ typed'[n] # "untouched"
    BY <1>1, <1>2, <1>3, <2>1, TextNowTyped
  <2>3. \A m \in Names : m # n => typed'[m] = typed[m]
    BY <1>1, <2>1
  <2>4. ASSUME NEW g
        PROVE  LET e == Entry(NewString(n, x), g) IN
                 e.name = n /\ e.text = x /\ e.global = g
    BY DEF Entry, NewString
  <2>5. CASE Found(n)
    <3>. DEFINE e == Entry(NewString(n, x), tab[FindItem(n)].global)
    <3>1. Replaced(e)
      BY <1>1, <1>2, <1>3, <2>5, StoreSteps
    <3>2. e.name = n /\ e.text = x /\ e.global = tab[FindItem(n)].global
      BY <2>4
    <3>. HIDE DEF e
    <3>. QED  BY <1>1, <1>2, <2>2, <2>3, <3>1, <3>2, ReplacedText
  <2>6. CASE ~Found(n)
    <3>. DEFINE e == Entry(NewString(n, x), FALSE)
    <3>1. Appended(e)
      BY <1>1, <1>2, <1>3, <1>5, <2>6, StoreSteps DEF VLstoreFails
    <3>2. e.name = n /\ e.text = x
      BY <2>4
    <3>. HIDE DEF e
    <3>. QED  BY <1>1, <1>2, <2>2, <2>3, <3>1, <3>2, AppendedText
  <2>. QED  BY <2>5, <2>6
<1>. QED  BY <1>4, <1>5

\* Exporting a variable.
LEMMA ExportText == TypeInv /\ TextInv /\ Export => TextInv'
<1>. SUFFICES ASSUME TypeInv, TextInv, Export  PROVE TextInv'
  OBVIOUS
<1>. DEFINE n == args.word.name
<1>1. TableInv /\ args \in Lines /\ typed \in [Names -> Texts \cup {"untouched"}]
  BY DEF TypeInv, TypeOK, TableInv
<1>2. /\ VLexport(n) /\ ~VLexportNeverReturns(n)
      /\ UNCHANGED environ /\ pc' = "return"
      /\ typed' = IF Found(n) THEN typed ELSE [typed EXCEPT ![n] = ""]
  BY DEF Export, Return
<1>3. n \in Names /\ "" \in Texts
  BY <1>1, WordsName, VarTableAssumption DEF Export, At, VarTableAssumption
<1>. HIDE DEF n
<1>4. CASE Found(n)
  <2>. DEFINE f == tab[FindItem(n)]
              e == [f EXCEPT !.global = TRUE]
  <2>1. Replaced(e)
    BY <1>1, <1>2, <1>3, <1>4, ExportSteps
  <2>2. FindItem(n) \in DOMAIN tab /\ f \in Entries /\ f.name = n
    BY <1>1, <1>4, FindItemFinds DEF TableInv
  <2>3. /\ e.name = n /\ e.text = f.text /\ e.space = f.space
        /\ e.global = TRUE
    BY <2>2 DEF Entries
  <2>4. typed' = typed /\ TextNow' = TextNow
    BY <1>2, <1>4, TextNowStays
  <2>5. f.text = TextNow[n] /\ (f.space => typed[n] # "untouched")
    BY <2>2 DEF TextInv
  <2>6. TextNow' = [TextNow EXCEPT ![n] = e.text]
    BY <1>3, <2>3, <2>4, <2>5 DEF TextNow
  <2>. HIDE DEF e
  <2>. QED  BY <1>1, <1>2, <2>1, <2>3, <2>4, <2>5, <2>6, ReplacedText
<1>5. CASE ~Found(n)
  <2>. DEFINE e == Entry(NewString(n, ""), FALSE)
  <2>1. Appended(e)
    BY <1>1, <1>2, <1>3, <1>5, ExportSteps
  <2>2. e.name = n /\ e.text = ""
    BY DEF Entry, NewString
  <2>. HIDE DEF e
  <2>3. typed' = [typed EXCEPT ![n] = ""]
    BY <1>2, <1>5
  <2>4. TextNow' = [TextNow EXCEPT ![n] = ""] /\ typed'[n] # "untouched"
    BY <1>1, <1>2, <1>3, <2>3, TextNowTyped
  <2>5. \A m \in Names : m # n => typed'[m] = typed[m]
    BY <1>1, <2>3
  <2>. QED  BY <1>1, <1>2, <2>1, <2>2, <2>4, <2>5, AppendedText
<1>. QED  BY <1>4, <1>5

\* Only the two commands touch the variables.
LEMMA TextStep == TypeInv /\ TextInv /\ [Next]_vars => TextInv'
<1>. SUFFICES ASSUME TypeInv, TextInv, [Next]_vars  PROVE TextInv'
  OBVIOUS
<1>1. CASE Assign \/ Export
  BY <1>1, AssignText, ExportText
<1>2. CASE ~(Assign \/ Export)
  <2>1. UNCHANGED <<tab, typed, environ>>
    BY <1>2 DEF Next, ProcessLine, ReadLine, EndOfInput, EmptyLine, If,
       IfUnexpected, Then, Fi, ControlUnexpected, ThenExpected, Skip,
       SetCommand, ExportHangs, ExportNothing, ForkFails, Fork, ChildEnds,
       IfReturns, LineDone, vars, ghosts, control, Return
  <2>2. pc' = "wait" => child' = VLtable2environ
    <3>1. CASE Fork
      BY <3>1 DEF Fork
    <3>2. CASE UNCHANGED vars
      BY <3>2 DEF vars, TextInv
    <3>3. CASE Next /\ ~Fork
      <4>1. pc' # "wait"
        BY <1>2, <3>3 DEF Next, ProcessLine, ReadLine, EndOfInput, EmptyLine, If,
           IfUnexpected, Then, Fi, ControlUnexpected, ThenExpected, Skip,
           SetCommand, ExportHangs, ExportNothing, ForkFails, ChildEnds,
           IfReturns, LineDone, Return, At
      <4>. QED  BY <4>1
    <3>. QED  BY <3>1, <3>2, <3>3
  <2>. QED  BY <2>1, <2>2, TextStays
<1>. QED  BY <1>1, <1>2

\* A program is started with every variable it should have, each once and with
\* the text last given to it, after any number of assignments, exports and
\* programs (find_item, VLstore, VLexport, VLtable2environ).
THEOREM ChildTheorem == Spec => []ChildEnvironment
<1>1. Spec => [](TypeInv /\ TextInv)
  <2>1. TypeInv /\ TextInv /\ [Next]_vars => (TypeInv /\ TextInv)'
    BY TypeStep, TextStep
  <2>. QED  BY TypeStart, TextStart, <2>1, PTL DEF Spec
<1>2. TypeInv /\ TextInv => ChildEnvironment
  <2>. SUFFICES ASSUME TypeInv, TextInv, pc = "wait"
                PROVE  /\ Len(environ) <= MAXVARS => \A n \in Names :
                            Initial(n) # {} => \E i \in DOMAIN child : child[i].name = n
                       /\ \A i \in DOMAIN child :
                            /\ child[i].text = TextOf(child[i].name)
                            /\ child[i].space => typed[child[i].name] # "untouched"
                            /\ \A j \in DOMAIN child :
                                 child[i].name = child[j].name => i = j
    BY DEF ChildEnvironment
  <2>1. /\ DOMAIN child = {j \in DOMAIN tab : tab[j].global}
        /\ \A i \in DOMAIN child : child[i] = tab[i]
    BY DEF TextInv, VLtable2environ
  <2>2. TableInv
    BY DEF TypeInv, TypeOK, TableInv
  <2>3. \A i \in DOMAIN tab : tab[i].name \in Names
    BY <2>2, EntriesName
  <2>4. \A i \in DOMAIN tab : tab[i].text = TextOf(tab[i].name)
    BY <2>3 DEF TextInv, TextNow
  <2>. QED  BY <2>1, <2>2, <2>4 DEF TextInv, TableInv, Unique
<1>. QED  BY <1>1, <1>2, PTL

-----------------------------------------------------------------------------
(* Commands and conditions *)

\* While the command of a condition runs no "if" is open and no command of it
\* has failed yet; once the condition is known if_result is what it came to.
CondInv ==
  /\ pending > 0 =>
       /\ if_state = "NEUTRAL"
       /\ pc \notin {"prompt", "exited"}
       /\ pc = "process" => ~condfailed
       /\ pc = "return" => (condfailed <=> rv # 0)
  /\ if_state # "NEUTRAL" => (condfailed <=> if_result = "FALL")

\* At the start.
LEMMA CondStart == Init => CondInv
BY DEF Init, CondInv

\* The condition of an "if" that is not nested: its command fails or not, and
\* if_result says which until "fi".
LEMMA CondStep ==
  ASSUME MaxIfs <= 1
  PROVE  TypeInv /\ CondInv /\ [Next]_vars => CondInv'
<1>. SUFFICES ASSUME TypeInv, CondInv, [Next]_vars  PROVE CondInv'
  OBVIOUS
<1>1. /\ MaxIfs \in Nat /\ args.ifs \in 0 .. MaxIfs /\ pending \in 0 .. MaxIfs
      /\ args.ifs + pending <= MaxIfs
      /\ condfailed \in BOOLEAN /\ rv \in {-1, 0, 1}
      /\ if_result \in {"SUCCESS", "FALL"}
      /\ if_state \in {"NEUTRAL", "WANT_THEN", "THEN_BLOCK"}
  BY WordsName, ShellAssumption DEF ShellAssumption, TypeInv, TypeOK
<1>2. args.ifs > 0 => pending = 0
  BY <1>1
<1>. USE DEF CondInv, Outcome, Return, At
<1>4. ASSUME NEW l \in Lines, ReadLine(l)  PROVE CondInv'
  BY <1>1, <1>4 DEF ReadLine, control
<1>5. CASE EndOfInput
  BY <1>1, <1>5 DEF EndOfInput, control, ghosts
<1>6. CASE EmptyLine
  BY <1>1, <1>6 DEF EmptyLine, control, ghosts
<1>7. CASE If
  BY <1>1, <1>2, <1>7 DEF If, control
<1>8. CASE IfUnexpected
  BY <1>1, <1>2, <1>8 DEF IfUnexpected, syn_err
<1>9. CASE Then
  BY <1>1, <1>9 DEF Then, ghosts
<1>10. CASE Fi
  BY <1>1, <1>10 DEF Fi, ghosts
<1>11. CASE ControlUnexpected
  BY <1>1, <1>11 DEF ControlUnexpected, syn_err
<1>12. CASE ThenExpected
  BY <1>1, <1>12 DEF ThenExpected, syn_err
<1>13. CASE Skip
  BY <1>1, <1>13 DEF Skip, Skipped, control, ghosts
<1>14. CASE SetCommand
  BY <1>1, <1>14 DEF SetCommand, control
<1>15. CASE Assign
  <2>. DEFINE bad == VLstoreFails(args.word.name)
  <2>1. bad \in BOOLEAN
    BY DEF VLstoreFails
  <2>2. /\ pc' = "return" /\ pending' = pending /\ UNCHANGED control
        /\ rv' = IF bad THEN 1 ELSE 0
        /\ condfailed' = IF pending > 0 THEN bad ELSE condfailed
    BY <1>15 DEF Assign
  <2>. HIDE DEF bad
  <2>. QED  BY <1>1, <1>15, <2>1, <2>2 DEF Assign, control
<1>16. CASE Export
  BY <1>1, <1>16 DEF Export, control, VLexportResult
<1>17. CASE ExportHangs
  BY <1>1, <1>17 DEF ExportHangs, control, ghosts
<1>18. CASE ExportNothing
  BY <1>1, <1>18 DEF ExportNothing, control
<1>19. CASE ForkFails
  BY <1>1, <1>19 DEF ForkFails, control
<1>20. CASE Fork
  BY <1>1, <1>20 DEF Fork, control, ghosts
<1>21. ASSUME NEW bad \in BOOLEAN, ChildEnds(bad)  PROVE CondInv'
  BY <1>1, <1>21 DEF ChildEnds, control
<1>22. CASE IfReturns
  BY <1>1, <1>22 DEF IfReturns, ghosts
<1>23. CASE LineDone
  BY <1>1, <1>23 DEF LineDone, control, ghosts
<1>24. CASE UNCHANGED vars
  BY <1>1, <1>24 DEF vars, control, ghosts
<1>. QED
  BY <1>4, <1>5, <1>6, <1>7, <1>8, <1>9, <1>10, <1>11, <1>12, <1>13, <1>14,
     <1>15, <1>16, <1>17, <1>18, <1>19, <1>20, <1>21, <1>22, <1>23, <1>24
  DEF Next, ProcessLine

\* Where a command is at hand and not a line to read or a program to wait for,
\* these are the only steps.
LEMMA CommandSteps ==
  ASSUME TypeInv, IsCommand, Next
  PROVE  \/ ThenExpected \/ Skip
         \/ OkToExecute
<1>1. pc = "process" /\ args.ifs = 0
      /\ args.word.op \in {"set", "run", "assign", "export", "export-nothing"}
  BY DEF IsCommand, At
<1>2. ~(\E l \in Lines : ReadLine(l)) /\ ~EndOfInput /\ ~IfReturns /\ ~LineDone
      /\ ~(\E bad \in BOOLEAN : ChildEnds(bad))
  BY <1>1 DEF ReadLine, EndOfInput, IfReturns, LineDone, ChildEnds
<1>3. ~EmptyLine /\ ~If /\ ~IfUnexpected /\ ~Then /\ ~Fi /\ ~ControlUnexpected
  BY <1>1 DEF EmptyLine, If, IfUnexpected, Then, Fi, ControlUnexpected, At
<1>. QED
  BY <1>2, <1>3 DEF Next, ProcessLine, SetCommand, Assign, Export, ExportHangs,
     ExportNothing, ForkFails, Fork

\* With conditions that are not nested the commands of a then block follow the
\* result of the condition.  (Of "if if command" do_control_command remembers
\* that the inner "if" was well formed, and not how the command ended.)
THEOREM ConditionTheorem ==
  ASSUME MaxIfs <= 1
  PROVE  Spec => CommandsFollowCondition
<1>1. Spec => [](TypeInv /\ CondInv)
  <2>1. TypeInv /\ CondInv /\ [Next]_vars => (TypeInv /\ CondInv)'
    BY TypeStep, CondStep
  <2>. QED  BY TypeStart, CondStart, <2>1, PTL DEF Spec
<1>2. TypeInv /\ CondInv /\ [Next]_vars
        => [IsCommand /\ if_state = "THEN_BLOCK" =>
              IF condfailed THEN pc' = "return" /\ UNCHANGED tab
              ELSE ~Skip]_vars
  <2>. SUFFICES ASSUME TypeInv, CondInv, Next,
                       IsCommand, if_state = "THEN_BLOCK"
                PROVE  IF condfailed THEN pc' = "return" /\ UNCHANGED tab
                       ELSE ~Skip
    OBVIOUS
  <2>1. condfailed <=> Skipped
    BY DEF CondInv, Skipped
  <2>2. ~ThenExpected
    BY DEF ThenExpected
  <2>3. CASE condfailed
    <3>1. Skip
      BY <2>1, <2>2, <2>3, CommandSteps DEF OkToExecute
    <3>. QED  BY <2>3, <3>1 DEF Skip, Return
  <2>4. CASE ~condfailed
    BY <2>1, <2>4 DEF Skip
  <2>. QED  BY <2>3, <2>4
<1>. QED  BY <1>1, <1>2, PTL DEF Spec, CommandsFollowCondition

-----------------------------------------------------------------------------
(* The table as a map *)

\* The map that the array stands for.
Stored == [n \in InUse |-> StoredAs(n)]

\* The map with one name given a text and a mark.
PutIn(n, x, g) == [m \in DOMAIN Stored \cup {n} |->
                     IF m = n THEN [text |-> x, global |-> g] ELSE Stored[m]]

\* There are no more names than entries.
LEMMA FewNames ==
  ASSUME TableInv
  PROVE  /\ IsFiniteSet(InUse) /\ Cardinality(InUse) \in Nat
         /\ Cardinality(InUse) <= Len(tab)
         /\ InUse \subseteq Names
<1>1. DOMAIN tab = 1 .. Len(tab) /\ Len(tab) \in Nat
  BY DEF TableInv
<1>2. IsFiniteSet(1 .. Len(tab)) /\ Cardinality(1 .. Len(tab)) = Len(tab)
  <2>1. 1 \in Int /\ Len(tab) \in Int
    BY <1>1
  <2>2. /\ IsFiniteSet(1 .. Len(tab))
        /\ Cardinality(1 .. Len(tab)) =
             IF 1 > Len(tab) THEN 0 ELSE Len(tab) - 1 + 1
    BY <2>1, FS_Interval
  <2>. QED  BY <1>1, <2>2
<1>. DEFINE f == [i \in DOMAIN tab |-> tab[i].name]
<1>3. f \in Surjection(1 .. Len(tab), InUse)
  BY <1>1 DEF Surjection, InUse
<1>. HIDE DEF f
<1>4. IsFiniteSet(InUse) /\ Cardinality(InUse) <= Len(tab)
  BY <1>2, <1>3, FS_Surjection
<1>5. Cardinality(InUse) \in Nat
  BY <1>4, FS_CardinalityType
<1>. QED  BY <1>4, <1>5, EntriesName DEF InUse

\* What the map says of a name is what the entry of that name says.
LEMMA StoredEntry ==
  ASSUME TableInv, NEW i \in DOMAIN tab
  PROVE  /\ tab[i].name \in InUse
         /\ Stored[tab[i].name] = [text |-> tab[i].text, global |-> tab[i].global]
<1>1. tab[i].name \in InUse
  BY DEF InUse
<1>2. Found(tab[i].name)
  BY DEF Found, Places
<1>3. FindItem(tab[i].name) = i
  BY <1>2, FindItemFinds
<1>. QED  BY <1>1, <1>3 DEF Stored, StoredAs

\* The map has texts and marks for names.
LEMMA StoredIsStore == TableInv => Stored \in Store!Stores
<1>. SUFFICES ASSUME TableInv  PROVE Stored \in Store!Stores
  OBVIOUS
<1>1. ASSUME NEW n \in InUse
      PROVE  Stored[n] \in [text : Texts, global : BOOLEAN]
  <2>1. PICK i \in DOMAIN tab : tab[i].name = n
    BY DEF InUse
  <2>2. tab[i] \in Entries
    BY DEF TableInv
  <2>3. tab[i].text \in Texts /\ tab[i].global \in BOOLEAN
    BY <2>2 DEF Entries
  <2>4. \A x \in Texts, g \in BOOLEAN :
          [text |-> x, global |-> g] \in [text : Texts, global : BOOLEAN]
    OBVIOUS
  <2>5. Stored[n] = [text |-> tab[i].text, global |-> tab[i].global]
    BY <2>1, StoredEntry
  <2>. QED  BY <2>3, <2>4, <2>5
<1>2. Stored \in [InUse -> [text : Texts, global : BOOLEAN]]
  BY <1>1 DEF Stored
<1>. QED  BY <1>2, FewNames DEF Store!Stores

\* The store counts its names as we do.
LEMMA SameCount == ASSUME NEW S  PROVE Store!Cardinality(S) = Cardinality(S)
BY DEF Cardinality, Store!Cardinality

\* The table is loaded with a map all of whose names are marked.
LEMMA StoreStarts == Init => Store!StoreInit
<1>. SUFFICES ASSUME Init  PROVE Store!StoreInit
  OBVIOUS
<1>1. environ \in Environs /\ tab = VLenviron2table(environ)
  BY DEF Init
<1>. HIDE DEF VLenviron2table
<1>2. TableInv /\ \A i \in DOMAIN tab : tab[i].global = TRUE
  BY <1>1, LoadedTable
<1>3. Cardinality(DOMAIN Stored) <= MAXVARS
  <2>1. DOMAIN Stored = InUse /\ Len(tab) \in Nat /\ Len(tab) <= MAXVARS
    BY <1>2 DEF Stored, TableInv
  <2>. QED  BY <1>2, <2>1, FewNames, Sizes
<1>4. ASSUME NEW n \in DOMAIN Stored  PROVE Stored[n].global
  <2>1. PICK i \in DOMAIN tab : tab[i].name = n
    BY DEF Stored, InUse
  <2>2. Stored[n] = [text |-> tab[i].text, global |-> tab[i].global]
    BY <1>2, <2>1, StoredEntry
  <2>3. Stored[n] = [text |-> tab[i].text, global |-> TRUE]
    BY <1>2, <2>2
  <2>. QED  BY <2>3
<1>. QED  BY <1>2, <1>3, <1>4, StoredIsStore, SameCount DEF Store!StoreInit, Stored

\* Replacing an entry gives its name another text or its mark.
LEMMA ReplacedStored ==
  ASSUME TableInv, NEW e, Replaced(e)
  PROVE  /\ e.name \in DOMAIN Stored
         /\ Stored' = PutIn(e.name, e.text, e.global)
         /\ Stored[e.name] = [text |-> tab[FindItem(e.name)].text,
                              global |-> tab[FindItem(e.name)].global]
<1>1. /\ TableInv' /\ DOMAIN tab' = DOMAIN tab
      /\ \A i \in DOMAIN tab :
           tab'[i] = IF tab[i].name = e.name THEN e ELSE tab[i]
  BY ReplacedKeeps
<1>2. FindItem(e.name) \in DOMAIN tab /\ tab[FindItem(e.name)].name = e.name
  BY FindItemFinds DEF Replaced, TableInv
<1>3. e.name \in InUse /\ DOMAIN Stored = InUse
  BY <1>2 DEF InUse, Stored
<1>4. \A i \in DOMAIN tab : tab'[i].name = tab[i].name
  BY <1>1
<1>5. InUse' = InUse
  BY <1>1, <1>4 DEF InUse
<1>. DEFINE M == PutIn(e.name, e.text, e.global)
<1>6. DOMAIN M = InUse /\ M = [n \in DOMAIN M |-> M[n]]
  BY <1>3 DEF PutIn
<1>7. ASSUME NEW i \in DOMAIN tab'
      PROVE  M[tab'[i].name] = [text |-> tab'[i].text, global |-> tab'[i].global]
  <2>1. Stored[tab[i].name] = [text |-> tab[i].text, global |-> tab[i].global]
        /\ tab[i].name \in InUse
    BY <1>1, StoredEntry
  <2>. QED  BY <1>1, <1>3, <1>4, <2>1 DEF PutIn
<1>. HIDE DEF M
<1>8. ASSUME NEW n \in InUse'  PROVE Stored'[n] = M[n]
  <2>1. PICK i \in DOMAIN tab' : tab'[i].name = n
    BY DEF InUse
  <2>2. Stored'[tab'[i].name] = [text |-> tab'[i].text, global |-> tab'[i].global]
    <3>1. FindItem(n)' = i
      BY <1>1, <2>1 DEF FindItem, Places, TableInv, Unique
    <3>. QED  BY <2>1, <3>1 DEF Stored, StoredAs
  <2>. QED  BY <1>7, <2>1, <2>2
<1>9. Stored' = M
  BY <1>5, <1>6, <1>8 DEF Stored
<1>. QED  BY <1>2, <1>3, <1>9, StoredEntry DEF M

\* A new entry puts a new name into the map, if there is room for it.
LEMMA AppendedStored ==
  ASSUME TableInv, NEW e, Appended(e)
  PROVE  /\ e.name \notin DOMAIN Stored
         /\ Cardinality(DOMAIN Stored) < MAXVARS
         /\ Stored' = PutIn(e.name, e.text, e.global)
<1>1. /\ TableInv' /\ DOMAIN tab' = DOMAIN tab \cup {Len(tab) + 1}
      /\ Len(tab) + 1 \notin DOMAIN tab
      /\ \A i \in DOMAIN tab : tab'[i] = tab[i] /\ tab[i].name # e.name
      /\ tab'[Len(tab) + 1] = e
  BY AppendedKeeps
<1>2. DOMAIN Stored = InUse /\ e.name \notin InUse
  BY <1>1 DEF Stored, InUse
<1>3. Cardinality(InUse) < MAXVARS
  <2>1. ~(Len(tab) >= MAXVARS) /\ Len(tab) \in Nat
    BY DEF Appended, Full, TableInv
  <2>. QED  BY <2>1, FewNames, Sizes
<1>4. InUse' = InUse \cup {e.name}
  <2>1. \A i \in DOMAIN tab' :
          tab'[i].name = IF i = Len(tab) + 1 THEN e.name ELSE tab[i].name
    BY <1>1
  <2>. QED  BY <1>1, <2>1 DEF InUse
<1>. DEFINE M == PutIn(e.name, e.text, e.global)
<1>5. ASSUME NEW i \in DOMAIN tab'
      PROVE  M[tab'[i].name] = [text |-> tab'[i].text, global |-> tab'[i].global]
  <2>1. CASE i \in DOMAIN tab
    <3>1. Stored[tab[i].name] = [text |-> tab[i].text, global |-> tab[i].global]
          /\ tab[i].name \in InUse
      BY <2>1, StoredEntry
    <3>. QED  BY <1>1, <1>2, <2>1, <3>1 DEF PutIn
  <2>2. CASE i = Len(tab) + 1
    BY <1>1, <2>2 DEF PutIn
  <2>. QED  BY <1>1, <2>1, <2>2
<1>6. DOMAIN M = InUse' /\ M = [n \in DOMAIN M |-> M[n]]
  BY <1>2, <1>4 DEF PutIn
<1>. HIDE DEF M
<1>7. ASSUME NEW n \in InUse'  PROVE Stored'[n] = M[n]
  <2>1. PICK i \in DOMAIN tab' : tab'[i].name = n
    BY DEF InUse
  <2>2. Stored'[tab'[i].name] = [text |-> tab'[i].text, global |-> tab'[i].global]
    <3>1. FindItem(n)' = i
      BY <1>1, <2>1 DEF FindItem, Places, TableInv, Unique
    <3>. QED  BY <2>1, <3>1 DEF Stored, StoredAs
  <2>. QED  BY <1>5, <2>1, <2>2
<1>8. Stored' = M
  BY <1>6, <1>7 DEF Stored
<1>. QED  BY <1>2, <1>3, <1>8 DEF M

\* A text assigned to a variable replaces its text or adds it to the store.
LEMMA AssignStored == TypeInv /\ Assign => [Store!StoreNext]_Stored
<1>. SUFFICES ASSUME TypeInv, Assign  PROVE [Store!StoreNext]_Stored
  OBVIOUS
<1>. DEFINE n == args.word.name
            x == args.word.text
<1>1. TableInv /\ args \in Lines
  BY DEF TypeInv, TypeOK, TableInv
<1>2. n \in Names /\ x \in Texts /\ VLstore(n, x)
  BY <1>1, WordsName DEF Assign, At
<1>. HIDE DEF n, x
<1>3. ASSUME NEW g
      PROVE  LET e == Entry(NewString(n, x), g) IN
               e.name = n /\ e.text = x /\ e.global = g
  BY DEF Entry, NewString
<1>4. CASE Found(n)
  <2>. DEFINE g == tab[FindItem(n)].global
              e == Entry(NewString(n, x), g)
  <2>1. Replaced(e)
    BY <1>1, <1>2, <1>4, StoreSteps
  <2>2. e.name = n /\ e.text = x /\ e.global = g
    BY <1>3
  <2>. HIDE DEF e, g
  <2>3. n \in DOMAIN Stored /\ Stored' = PutIn(n, x, g)
    BY <1>1, <2>1, <2>2, ReplacedStored
  <2>4. Stored[n].global = g
    <3>1. Stored[n] = [text |-> tab[FindItem(n)].text, global |-> g]
      BY <1>1, <2>1, <2>2, ReplacedStored DEF g
    <3>. QED  BY <3>1
  <2>5. Store!Replace(n, x)
    BY <2>3, <2>4 DEF Store!Replace, Store!Put, Stored, PutIn
  <2>. QED  BY <1>2, <2>5 DEF Store!StoreNext
<1>5. CASE ~Found(n) /\ ~Full
  <2>. DEFINE e == Entry(NewString(n, x), FALSE)
  <2>1. Appended(e)
    BY <1>1, <1>2, <1>5, StoreSteps
  <2>2. e.name = n /\ e.text = x /\ e.global = FALSE
    BY <1>3
  <2>. HIDE DEF e
  <2>3. n \notin DOMAIN Stored /\ Cardinality(DOMAIN Stored) < MAXVARS
        /\ Stored' = PutIn(n, x, FALSE)
    BY <1>1, <2>1, <2>2, AppendedStored
  <2>4. Store!Add(n, x)
    BY <2>3, SameCount DEF Store!Add, Store!Put, Stored, PutIn
  <2>. QED  BY <1>2, <2>4 DEF Store!StoreNext
<1>6. CASE ~Found(n) /\ Full
  <2>1. tab' = tab
    BY <1>2, <1>6 DEF VLstore
  <2>. QED  BY <2>1 DEF Stored, InUse, StoredAs, FindItem, Places
<1>. QED  BY <1>4, <1>5, <1>6

\* Exporting marks a variable or adds an empty one.
LEMMA ExportStored == TypeInv /\ Export => [Store!StoreNext]_Stored
<1>. SUFFICES ASSUME TypeInv, Export  PROVE [Store!StoreNext]_Stored
  OBVIOUS
<1>. DEFINE n == args.word.name
<1>1. TableInv /\ args \in Lines
  BY DEF TypeInv, TypeOK, TableInv
<1>2. n \in Names /\ VLexport(n) /\ ~VLexportNeverReturns(n) /\ "" \in Texts
  BY <1>1, WordsName, VarTableAssumption DEF Export, At, VarTableAssumption
<1>. HIDE DEF n
<1>3. CASE Found(n)
  <2>. DEFINE f == tab[FindItem(n)]
              e == [f EXCEPT !.global = TRUE]
  <2>1. Replaced(e)
    BY <1>1, <1>2, <1>3, ExportSteps
  <2>2. f \in Entries /\ f.name = n
    BY <1>1, <1>3, FindItemFinds
  <2>3. e.name = n /\ e.text = f.text /\ e.global = TRUE
    BY <2>2 DEF Entries
  <2>. HIDE DEF e
  <2>4. /\ n \in DOMAIN Stored /\ Stored' = PutIn(n, f.text, TRUE)
        /\ Stored[n] = [text |-> f.text, global |-> f.global]
    BY <1>1, <2>1, <2>3, ReplacedStored
  <2>5. Stored[n].text = f.text
    BY <2>4
  <2>6. Store!Mark(n)
    BY <2>4, <2>5 DEF Store!Mark, Store!Put, Stored, PutIn
  <2>. QED  BY <1>2, <2>6 DEF Store!StoreNext
<1>4. CASE ~Found(n)
  <2>. DEFINE e == Entry(NewString(n, ""), FALSE)
  <2>1. Appended(e)
    BY <1>1, <1>2, <1>4, ExportSteps
  <2>2. e.name = n /\ e.text = "" /\ e.global = FALSE
    BY DEF Entry, NewString
  <2>. HIDE DEF e
  <2>3. n \notin DOMAIN Stored /\ Cardinality(DOMAIN Stored) < MAXVARS
        /\ Stored' = PutIn(n, "", FALSE)
    BY <1>1, <2>1, <2>2, AppendedStored
  <2>4. Store!Add(n, "")
    BY <2>3, SameCount DEF Store!Add, Store!Put, Stored, PutIn
  <2>. QED  BY <1>2, <2>4 DEF Store!StoreNext
<1>. QED  BY <1>3, <1>4

\* Every step of the shell is a step of the store or none.
LEMMA StoreStep == TypeInv /\ [Next]_vars => [Store!StoreNext]_Stored
<1>. SUFFICES ASSUME TypeInv, [Next]_vars  PROVE [Store!StoreNext]_Stored
  OBVIOUS
<1>1. CASE Assign \/ Export
  BY <1>1, AssignStored, ExportStored
<1>2. CASE ~(Assign \/ Export)
  <2>1. UNCHANGED tab
    BY <1>2 DEF Next, ProcessLine, ReadLine, EndOfInput, EmptyLine, If,
       IfUnexpected, Then, Fi, ControlUnexpected, ThenExpected, Skip,
       SetCommand, ExportHangs, ExportNothing, ForkFails, Fork, ChildEnds,
       IfReturns, LineDone, vars
  <2>. QED  BY <2>1 DEF Stored, InUse, StoredAs, FindItem, Places
<1>. QED  BY <1>1, <1>2

\* The array of strings implements the store of variables: a bounded map whose
\* names are never lost and whose marks are never taken back (VLstore and
\* VLexport over find_item).
THEOREM StoreRefinement == Spec => ImplementsStore
<1>1. Spec => []TypeInv
  BY TypeStart, TypeStep, PTL DEF Spec
<1>2. TypeInv /\ [Next]_vars => [Store!StoreNext]_[n \in InUse |-> StoredAs(n)]
  BY StoreStep DEF Stored
<1>. QED
  BY <1>1, <1>2, StoreStarts, PTL
  DEF Spec, ImplementsStore, Store!StoreSpec
=============================================================================
