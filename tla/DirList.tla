------------------------------- MODULE DirList -------------------------------
(***************************************************************************)
(* my_ls, test.c of my_ls: options, then for each directory named, or for  *)
(* the current one, read the names, sort them, print them.  The eight      *)
(* functions ls ... ls_ail are one here: they differ in whether they skip  *)
(* hidden names (no -a), call stat (-l), and in the entry the printing     *)
(* starts from (0 in ls_l, 1 in the others).                               *)
(*                                                                         *)
(* A name is a number; compare() orders names as < does.  What stat says   *)
(* of a file is the file itself, <<directory, name>>; inode numbers are    *)
(* left out.  MAXSIZE names fit: reading more would write behind L.        *)
(***************************************************************************)
EXTENDS Integers, Sequences, SequencesExt, FiniteSetsExt

CONSTANTS
  MAXSIZE,
  Contents,   \* the names in each directory that exists
  Hidden,     \* those that begin with a dot
  Letters     \* the option letters of each word that is one

Cwd == "."

ASSUME DirListAssumption ==
  /\ MAXSIZE \in Nat
  /\ DOMAIN Contents \subseteq STRING /\ Cwd \in DOMAIN Contents
  /\ \A w \in DOMAIN Letters : Letters[w] \subseteq {"a", "i", "l", "err"}
  /\ \A d \in DOMAIN Contents :
       /\ Contents[d] \subseteq Nat \ {0}
       /\ IsFiniteSet(Contents[d]) /\ Cardinality(Contents[d]) <= MAXSIZE

\* A global variable starts as zeros.
NoFile == <<Cwd, 0>>
NoEntry == [name |-> 0, status |-> NoFile]

VARIABLES
  ls,       \* none, getopt, opendir, sort, print, printed, exit
  argv,     \* the words getopt has not seen
  flags,    \* the letters given: a, i, l; "err" for any other
  dirs,     \* the directories still to list, the present one first
  files, length,   \* of L
  turn,     \* i of ls_sort: the entries before it are in order
  buf,      \* what stat filled in last
  printed   \* the lines for the present directory

listvars == <<files, length, turn, buf>>
lsvars == <<ls, argv, flags, dirs, listvars, printed>>

Entries == [name : Nat, status : {Cwd} \X Nat]

LsTypeOK ==
  /\ ls \in {"none", "getopt", "opendir", "sort", "print", "printed", "exit"}
  /\ argv \in Seq(STRING)
  /\ flags \subseteq {"a", "i", "l", "err"}
  /\ dirs \in Seq(STRING)
  /\ files \in [0 .. MAXSIZE -> Entries]
  /\ length \in 0 .. MAXSIZE
  /\ turn \in 2 .. MAXSIZE + 2
  /\ buf \in {Cwd} \X Nat
  /\ printed \in Seq(Entries)

NoList == [i \in 0 .. MAXSIZE |-> NoEntry]

LsInit ==
  /\ ls = "none"
  /\ argv = <<>>
  /\ flags = {}
  /\ dirs = <<>>
  /\ files = NoList
  /\ length = 0
  /\ turn = 2
  /\ buf = NoFile
  /\ printed = <<>>

\* The memory of a process goes when it ends.
LsForget ==
  /\ ls' = "none"
  /\ argv' = <<>>
  /\ flags' = {}
  /\ dirs' = <<>>
  /\ files' = NoList
  /\ length' = 0
  /\ turn' = 2
  /\ buf' = NoFile
  /\ printed' = <<>>

LsStart(words) ==
  /\ ls = "none"
  /\ ls' = "getopt"
  /\ argv' = words
  /\ UNCHANGED <<flags, dirs, listvars, printed>>

\* getopt takes options from anywhere among the words and leaves the others in
\* their order.
Getopt ==
  /\ ls = "getopt" /\ argv # <<>>
  /\ argv' = Tail(argv)
  /\ IF Head(argv) \in DOMAIN Letters
     THEN flags' = flags \cup Letters[Head(argv)] /\ UNCHANGED dirs
     ELSE dirs' = Append(dirs, Head(argv)) /\ UNCHANGED flags
  /\ UNCHANGED <<ls, listvars, printed>>

GetoptDone ==
  /\ ls = "getopt" /\ argv = <<>>
  /\ ls' = "opendir"
  /\ dirs' = IF dirs = <<>> THEN <<Cwd>> ELSE dirs
  /\ UNCHANGED <<argv, flags, listvars, printed>>

\* No function is called for an unknown option; the loop over the directories
\* does nothing.
LsUnknownOption ==
  /\ ls = "opendir" /\ "err" \in flags
  /\ ls' = "exit"
  /\ UNCHANGED <<argv, flags, dirs, listvars, printed>>

\* err_exit ends the program, whatever directories are left.
OpendirFails ==
  /\ ls = "opendir" /\ "err" \notin flags
  /\ Head(dirs) \notin DOMAIN Contents
  /\ ls' = "exit"
  /\ UNCHANGED <<argv, flags, dirs, listvars, printed>>

Shown(n) == "a" \in flags \/ n \notin Hidden

\* stat() looks for the name in the current directory, not in the one that is
\* listed; where it finds none buf keeps what it has.  buf after the first i
\* names of s:
Stat(s, i) ==
  LET found == {k \in 1 .. i : s[k] \in Contents[Cwd]}
  IN IF "l" \notin flags \/ found = {} THEN buf ELSE <<Cwd, s[Max(found)]>>

\* readdir gives the names in any order, hidden ones are passed over.  Entry 0
\* is what it was, zeros or the entry a sort before this one left there, whose
\* name is freed by now: NoEntry stands for both.
Readdir ==
  /\ ls = "opendir" /\ "err" \notin flags
  /\ Head(dirs) \in DOMAIN Contents
  /\ \E s \in SetToSeqs({n \in Contents[Head(dirs)] : Shown(n)}) :
       /\ files' = [i \in 0 .. MAXSIZE |->
                      IF i \in DOMAIN s
                      THEN [name |-> s[i],
                            status |-> IF "l" \in flags THEN Stat(s, i)
                                       ELSE NoFile]
                      ELSE NoEntry]
       /\ length' = Len(s)
       /\ buf' = Stat(s, Len(s))
  /\ ls' = "sort"
  /\ turn' = 2
  /\ UNCHANGED <<argv, flags, dirs, printed>>

\* One turn of ls_sort: entry i moves down to its place among 1 .. i-1.  Entry
\* 0 holds it meanwhile, and stops the search.
Insert(f, i) ==
  LET x == f[i]
      j == Max({k \in 1 .. i - 2 : f[k].name <= x.name} \cup {0})
  IN IF f[i - 1].name <= x.name THEN f
     ELSE [k \in DOMAIN f |->
             CASE k = 0 \/ k = j + 1 -> x
               [] k \in j + 2 .. i -> f[k - 1]
               [] OTHER -> f[k]]

\* Wrong on purpose: names move, the rest of the entries stays.
InsertName(f, i) ==
  LET g == Insert(f, i)
  IN [k \in DOMAIN f |-> [f[k] EXCEPT !.name = g[k].name]]

\* Wrong on purpose: see InsertName.
LsSortNames ==
  /\ ls = "sort" /\ turn <= length
  /\ files' = InsertName(files, turn)
  /\ turn' = turn + 1
  /\ UNCHANGED <<ls, argv, flags, dirs, length, buf, printed>>

LsSort ==
  /\ ls = "sort" /\ turn <= length
  /\ files' = Insert(files, turn)
  /\ turn' = turn + 1
  /\ UNCHANGED <<ls, argv, flags, dirs, length, buf, printed>>

\* Wrong on purpose: i < L.length.
LsSortedShort ==
  /\ ls = "sort" /\ turn >= length
  /\ ls' = "print"
  /\ UNCHANGED <<argv, flags, dirs, listvars, printed>>

LsSorted ==
  /\ ls = "sort" /\ turn > length
  /\ ls' = "print"
  /\ UNCHANGED <<argv, flags, dirs, listvars, printed>>

First == IF flags = {"l"} THEN 0 ELSE 1

LsPrint ==
  /\ ls = "print"
  /\ ls' = "printed"
  /\ printed' = [i \in 1 .. length - First + 1 |-> files[First + i - 1]]
  /\ UNCHANGED <<argv, flags, dirs, listvars>>

LsNextDirectory ==
  /\ ls = "printed"
  /\ ls' = IF Len(dirs) > 1 THEN "opendir" ELSE "exit"
  /\ dirs' = Tail(dirs)
  /\ printed' = <<>>
  /\ UNCHANGED <<argv, flags, listvars>>

LsNext ==
  \/ Getopt \/ GetoptDone \/ LsUnknownOption \/ OpendirFails
  \/ Readdir \/ LsSort \/ LsSorted \/ LsPrint \/ LsNextDirectory

\* The line ls_l prints for entry 0 is not about a file of its own.
Listed == IF First = 0 THEN Tail(printed) ELSE printed

\* The names to show are printed, each once and in order, for any order readdir
\* gives them in (ls_sort, which keeps the entry it moves in entry 0).
ListingSorted ==
  ls = "printed" =>
    /\ \A i, j \in DOMAIN Listed : i < j => Listed[i].name < Listed[j].name
    /\ {Listed[i].name : i \in DOMAIN Listed}
         = {n \in Contents[Head(dirs)] : Shown(n)}

\* In the current directory every line of a long listing has what stat said of
\* that file, wherever the sort moved its entry and whatever directory was
\* listed before.  (In another directory it may be about any file.)
OwnAttributes ==
  ls = "printed" /\ "l" \in flags /\ Head(dirs) = Cwd =>
    \A i \in DOMAIN Listed : Listed[i].status = <<Cwd, Listed[i].name>>
=============================================================================
