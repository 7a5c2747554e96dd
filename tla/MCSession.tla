------------------------------ MODULE MCSession ------------------------------
(***************************************************************************)
(* What is typed, what is in the directories, and what is asked for.       *)
(***************************************************************************)
EXTENDS Session

MCLetters == [w \in {"-l", "-al", "-x"} |->
                CASE w = "-l" -> {"l"} [] w = "-al" -> {"a", "l"}
                  [] w = "-x" -> {"err"}]

\* 1 is hidden; 4 is only in sub.
MCContents == [d \in {".", "sub"} |->
                 IF d = "." THEN {1, 2, 3, 5} ELSE {1, 2, 4}]

\* The longest is too long for psh2.
LocalCommands ==
  {<<"my_ls", "-l", "sub", ".">>, <<"my_ls", "-al">>, <<"my_ls", "none", ".">>,
   <<"my_ls", ".", "-x">>, <<"tinybc">>, <<"nosuch">>,
   <<"my_ls", "-l", "sub", ".", "sub", "sub">>}

MCCommandsOf ==
  [s \in {"none", "rlsd", "timeserv"} |->
     CASE s = "none" -> LocalCommands
       [] s = "rlsd" -> {<<"rls", "host", "e;">>, <<"rls", "host", "x">>}
       [] s = "timeserv" -> {<<"timecInt", "host", "13000">>}]
MCCommands == UNION {MCCommandsOf[s] : s \in DOMAIN MCCommandsOf}

MCAsksOf == [s \in {"none", "rlsd", "timeserv"} |->
               IF s = "rlsd" THEN {"d/a"} ELSE {"13000"}]

\* An answer of one line, a negative one, one that is too long for a line, one
\* that is too long for the pipe, numbers with a sign, a division by zero.
MCRequests ==
  {[n1 |-> 2, op |-> "+", n2 |-> 3], [n1 |-> 2, op |-> "-", n2 |-> 3],
   [n1 |-> 9, op |-> "*", n2 |-> 2], [n1 |-> 9, op |-> "^", n2 |-> 2],
   [n1 |-> -7, op |-> "/", n2 |-> 2], [n1 |-> 2, op |-> "*", n2 |-> -3],
   [n1 |-> 7, op |-> "/", n2 |-> 0]}

\* There is no directory x.
MCSpelled == [d \in {"d/a", "e;", "x", "13000"} |->
                CASE d = "d/a" -> <<"d", "/", "a">> [] d = "e;" -> <<"e", ";">>
                  [] d = "x" -> <<"x">> [] d = "13000" -> <<"1", "3">>]
MCBlocks == [s \in {<<"d", "/", "a">>, <<"e">>} |->
               IF s = <<"e">> THEN 1 ELSE 2]
=============================================================================
