------------------------------ MODULE VarTable -------------------------------
(***************************************************************************)
(* varlib.c: the variables of the shell, an array of at most MAXVARS       *)
(* strings "name=text" with a flag for the exported ones.  Nothing is ever *)
(* deleted, so the entries in use are a prefix of the array: tab is that   *)
(* prefix.                                                                 *)
(*                                                                         *)
(* An entry's string is its name, whether a space follows the '=' (the     *)
(* format of new_string puts one there, a string taken from the            *)
(* environment has none) and its text.                                     *)
(***************************************************************************)
EXTENDS Integers, Sequences, FiniteSets

CONSTANTS
  Names,     \* legal names of variables
  Texts,     \* texts a user types, the empty one included
  MAXVARS,   \* entries of the array
  MaxEnviron \* bound: strings in the environment the shell is started with

ASSUME VarTableAssumption ==
  /\ "" \in Texts
  /\ MAXVARS \in Nat
  /\ MaxEnviron \in Nat

Entries == [name : Names, space : BOOLEAN, text : Texts, global : BOOLEAN]

\* An environment names each variable once.
Environs ==
  {e \in UNION {[1 .. k -> [name : Names, text : Texts]] : k \in 0 .. MaxEnviron} :
     \A i, j \in DOMAIN e : e[i].name = e[j].name => i = j}

VARIABLE tab

\* The places where find_item finds a name; it returns the first of them.
Places(n) == {i \in DOMAIN tab : tab[i].name = n}
FindItem(n) == CHOOSE i \in Places(n) : \A j \in Places(n) : i <= j
Found(n) == Places(n) # {}
Full == Len(tab) >= MAXVARS

NewString(n, x) == [name |-> n, space |-> TRUE, text |-> x]

Entry(s, g) == [name |-> s.name, space |-> s.space, text |-> s.text,
                global |-> g]

\* Wrong on purpose: adds at the end even if the name is there.
VLstoreAppends(n, x) ==
  tab' = IF Full THEN tab ELSE Append(tab, Entry(NewString(n, x), FALSE))

\* Wrong on purpose: a new text clears the mark.
VLstoreUnmarks(n, x) ==
  tab' = IF Found(n)
         THEN [tab EXCEPT ![FindItem(n)] = Entry(NewString(n, x), FALSE)]
         ELSE IF Full THEN tab
         ELSE Append(tab, Entry(NewString(n, x), FALSE))

\* Wrong on purpose: takes the entry after the last one as free.
VLstorePastEnd(n, x) ==
  tab' = IF Found(n)
         THEN [tab EXCEPT ![FindItem(n)] = Entry(NewString(n, x), @.global)]
         ELSE Append(tab, Entry(NewString(n, x), FALSE))

\* Replaces the string of a variable that is there, else takes a free entry.
\* It fails, and changes nothing, when it needs one and there is none.
VLstoreFails(n) == ~Found(n) /\ Full
VLstore(n, x) ==
  tab' = IF Found(n)
         THEN [tab EXCEPT ![FindItem(n)] = Entry(NewString(n, x), @.global)]
         ELSE IF Full THEN tab
         ELSE Append(tab, Entry(NewString(n, x), FALSE))

\* A name that is not there is stored, not marked, and 1 is returned; if it
\* cannot be stored either, VLexport calls itself again with nothing changed.
VLexportNeverReturns(n) == VLstoreFails(n)
VLexportResult(n) == IF Found(n) THEN 0 ELSE 1
VLexport(n) ==
  IF Found(n) THEN tab' = [tab EXCEPT ![FindItem(n)].global = TRUE]
  ELSE VLstore(n, "")

\* Loads the first MAXVARS strings of an environment; the others are dropped.
VLenviron2table(e) ==
  [i \in 1 .. (IF Len(e) < MAXVARS THEN Len(e) ELSE MAXVARS) |->
     [name |-> e[i].name, space |-> FALSE, text |-> e[i].text,
      global |-> TRUE]]

\* The strings a new program gets as its environment: those of the exported
\* variables in the order of the table, each under its place there.
VLtable2environ == [i \in {j \in DOMAIN tab : tab[j].global} |-> tab[i]]
=============================================================================
