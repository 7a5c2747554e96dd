------------------------------ MODULE VarStore -------------------------------
(***************************************************************************)
(* What varlib.c promises to the shell, without its table: at most Room    *)
(* variables, each with a text and a mark that says whether children get   *)
(* it.  Texts may be replaced, marks only set, and nothing is deleted.     *)
(***************************************************************************)
EXTENDS Integers, FiniteSets

CONSTANTS Names, Texts, Room

VARIABLE store   \* a function from the names in use to texts and marks

Stores == UNION {[S -> [text : Texts, global : BOOLEAN]] : S \in SUBSET Names}

StoreInit ==
  /\ store \in Stores
  /\ Cardinality(DOMAIN store) <= Room
  /\ \A n \in DOMAIN store : store[n].global

Put(n, x, g) == store' = [m \in DOMAIN store \cup {n} |->
                            IF m = n THEN [text |-> x, global |-> g]
                            ELSE store[m]]

\* A new text for a variable that exists: its mark stays.
Replace(n, x) == n \in DOMAIN store /\ Put(n, x, store[n].global)

\* A new variable, if there is room for it: children do not get it.
Add(n, x) ==
  /\ n \notin DOMAIN store
  /\ Cardinality(DOMAIN store) < Room
  /\ Put(n, x, FALSE)

Mark(n) == n \in DOMAIN store /\ Put(n, store[n].text, TRUE)

StoreNext == \E n \in Names :
  \/ \E x \in Texts : Replace(n, x) \/ Add(n, x)
  \/ Mark(n)

StoreSpec == StoreInit /\ [][StoreNext]_store
=============================================================================
