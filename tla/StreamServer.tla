---------------------------- MODULE StreamServer -----------------------------
(***************************************************************************)
(* The stream servers and their clients: timeserv.c, which sends each      *)
(* caller the time, with timecInt.c; and rlsd.c, which reads the name of a *)
(* directory and sends what ls prints, with rls.c.  A server serves one    *)
(* call at a time; the others are in the queue of its listening socket, or *)
(* still dialing.                                                          *)
(*                                                                         *)
(* What a server sends is a sequence of blocks, one for each time its      *)
(* stdio buffer is written out; what it has sent is at the client.         *)
(***************************************************************************)
EXTENDS Integers, Sequences, SequencesExt

CONSTANTS
  Clients,    \* programs rls or timecInt, each started once
  Servers,    \* which of the servers there may be
  QueueMax,   \* connections the queue holds: 1, as listen() was told, and
              \* one more on Linux
  Dirs,       \* bound: the names clients ask for
  Spelled,    \* the characters of each
  Kept,       \* the characters that are '/' or alphanumeric
  Blocks      \* how many blocks ls prints for each name it knows

ASSUME StreamServerAssumption ==
  /\ Servers \subseteq {"timeserv", "rlsd", "none"}
  /\ QueueMax \in Nat \ {0}
  /\ Spelled \in [Dirs -> Seq(UNION {ToSet(Spelled[d]) : d \in Dirs})]
  /\ \A s \in DOMAIN Blocks : Blocks[s] \in Nat

Nobody == "nobody"
ASSUME NobodyAssumption == Nobody \notin Clients

VARIABLES
  server,      \* which server runs, or ran
  srv,         \* accept, read, popen, write, gone
  queue,       \* connections it has not accepted
  caller,      \* the client it serves
  dirname, left,   \* for rlsd; blocks of this answer still to send
  reset,       \* was something written to a caller that is gone?
  nopopen,     \* did popen fail?
  client,      \* where each client is
  wants,       \* the directory it asks for
  sent,        \* its write calls: 1 the name, 2 the newline too
  got,         \* the blocks it was sent
  hungup       \* has the server closed its connection?

srvvars == <<server, srv, queue, caller, dirname, left, reset, nopopen>>
callvars == <<client, wants, sent, got, hungup>>
streamvars == <<srvvars, callvars>>

\* The characters of s that are in kept; dest[i] is what is there of them after
\* i turns of the loop.
Copied(s, kept) ==
  LET dest[i \in 0 .. Len(s)] ==
        IF i = 0 THEN <<>>
        ELSE IF s[i] \in kept THEN Append(dest[i - 1], s[i])
        ELSE dest[i - 1]
  IN dest[Len(s)]

\* Wrong on purpose: "/" goes too.
SanitizeSlash(s) == Copied(s, Kept \ {"/"})

Sanitize(s) == Copied(s, Kept)

\* ls says on another stream, which stays at the server, that there is no such
\* directory.
Output(s) == IF s \in DOMAIN Blocks THEN Blocks[s] ELSE 0

Names == {Sanitize(Spelled[d]) : d \in Dirs} \cup {<<>>}
SentBlocks == [dir : Names, part : Nat]

StreamTypeOK ==
  /\ server \in Servers
  /\ srv \in {"accept", "read", "popen", "write", "gone"}
  /\ queue \in Seq(Clients) /\ Len(queue) <= QueueMax
  /\ caller \in Clients \cup {Nobody}
  /\ (caller = Nobody) = (srv \in {"accept", "gone"})
  /\ dirname \in Names
  /\ left \in Nat
  /\ reset \in BOOLEAN /\ nopopen \in BOOLEAN
  /\ client \in [Clients -> {"idle", "dial", "send", "newline", "receive",
                             "done", "failed", "killed"}]
  /\ wants \in [Clients -> Dirs \cup {Nobody}]
  /\ sent \in [Clients -> 0 .. 2]
  /\ got \in [Clients -> Seq(SentBlocks)]
  /\ hungup \in [Clients -> BOOLEAN]

StreamInit ==
  /\ server \in Servers
  /\ srv = IF server = "none" THEN "gone" ELSE "accept"
  /\ queue = <<>>
  /\ caller = Nobody
  /\ dirname = <<>>
  /\ left = 0
  /\ reset = FALSE
  /\ nopopen = FALSE
  /\ client = [c \in Clients |-> "idle"]
  /\ wants = [c \in Clients |-> Nobody]
  /\ sent = [c \in Clients |-> 0]
  /\ got = [c \in Clients |-> <<>>]
  /\ hungup = [c \in Clients |-> FALSE]

Closed(c) == hungup[c] \/ srv = "gone"

ClientGoto(c, from, to) ==
  /\ client[c] = from
  /\ client' = [client EXCEPT ![c] = to]

-----------------------------------------------------------------------------
(* Clients *)

\* The program is started, timecInt too with something to ask for that it does
\* not send.
Dial(c, d) ==
  /\ ClientGoto(c, "idle", "dial")
  /\ wants' = [wants EXCEPT ![c] = d]
  /\ UNCHANGED <<srvvars, sent, got, hungup>>

\* connect() waits while the queue is full.
Connect(c) ==
  /\ srv # "gone" /\ Len(queue) < QueueMax
  /\ ClientGoto(c, "dial", IF server = "rlsd" THEN "send" ELSE "receive")
  /\ queue' = Append(queue, c)
  /\ UNCHANGED <<server, srv, caller, dirname, left, reset, nopopen, wants,
                 sent, got, hungup>>

\* Nobody listens, or the server ended before a write.
ClientOops(c) ==
  /\ srv = "gone"
  /\ \E from \in {"dial", "send", "newline"} : ClientGoto(c, from, "failed")
  /\ UNCHANGED <<srvvars, wants, sent, got, hungup>>

Write(c, from, to) ==
  /\ srv # "gone"
  /\ ClientGoto(c, from, to)
  /\ sent' = [sent EXCEPT ![c] = @ + 1]
  /\ UNCHANGED <<srvvars, wants, got, hungup>>

WriteName(c) == Write(c, "send", "newline")
WriteNewline(c) == Write(c, "newline", "receive")

\* rls reads until there is no more, timecInt reads once.  Neither can tell why
\* the connection was closed.
Receive(c) ==
  /\ \/ Closed(c)
     \/ server = "timeserv" /\ got[c] # <<>>
  /\ ClientGoto(c, "receive", "done")
  /\ UNCHANGED <<srvvars, wants, sent, got, hungup>>

\* Somebody kills the client; before it is connected no server knows of it.
Kill(c) ==
  /\ \/ ClientGoto(c, "dial", "failed")
     \/ \E from \in {"send", "newline", "receive"} : ClientGoto(c, from, "killed")
  /\ UNCHANGED <<srvvars, wants, sent, got, hungup>>

ClientStep(c) ==
  \/ Connect(c) \/ ClientOops(c) \/ WriteName(c) \/ WriteNewline(c)
  \/ Receive(c)

-----------------------------------------------------------------------------
(* Servers *)

\* The process ends; its connections with it.
Die ==
  /\ srv' = "gone"
  /\ caller' = Nobody
  /\ queue' = <<>>

Accept ==
  /\ srv = "accept" /\ queue # <<>>
  /\ caller' = Head(queue)
  /\ queue' = Tail(queue)
  /\ srv' = IF server = "rlsd" THEN "read" ELSE "write"
  /\ left' = IF server = "rlsd" THEN 0 ELSE 1
  /\ dirname' = <<>>
  /\ reset' = FALSE
  /\ UNCHANGED <<server, nopopen, callvars>>

\* fgets returns a line, or what there is of one when the caller has gone.
ReadDirname ==
  /\ srv = "read"
  /\ \/ sent[caller] = 2
     \/ sent[caller] = 1 /\ client[caller] = "killed"
  /\ dirname' = Sanitize(Spelled[wants[caller]])
  /\ srv' = "popen"
  /\ UNCHANGED <<server, queue, caller, left, reset, nopopen, callvars>>

\* Wrong on purpose: does not wait for the caller's line.
ReadNothingYet ==
  /\ srv = "read"
  /\ sent[caller] = 0
  /\ Die
  /\ UNCHANGED <<server, dirname, left, reset, nopopen, callvars>>

\* The caller has gone and sent nothing: oops.
ReadNothing ==
  /\ srv = "read"
  /\ sent[caller] = 0 /\ client[caller] = "killed"
  /\ Die
  /\ UNCHANGED <<server, dirname, left, reset, nopopen, callvars>>

Popen ==
  /\ srv = "popen"
  /\ srv' = "write"
  /\ left' = Output(dirname)
  /\ UNCHANGED <<server, queue, caller, dirname, reset, nopopen, callvars>>

PopenFails ==
  /\ srv = "popen"
  /\ nopopen' = TRUE
  /\ Die
  /\ UNCHANGED <<server, dirname, left, reset, callvars>>

NextBlock == [dir |-> dirname, part |-> Len(got[caller]) + 1]

WriteBlock ==
  /\ srv = "write" /\ left > 0
  /\ left' = left - 1
  /\ got' = IF client[caller] = "killed" THEN got
            ELSE [got EXCEPT ![caller] = Append(@, NextBlock)]
  /\ reset' = (client[caller] = "killed")
  /\ UNCHANGED <<server, srv, queue, caller, dirname, nopopen, client, wants, sent,
                 hungup>>

\* A write after one that went to a caller who was gone: if its host has said
\* so by now, the server gets a SIGPIPE.
BrokenPipe ==
  /\ srv = "write" /\ left > 0
  /\ reset
  /\ Die
  /\ UNCHANGED <<server, dirname, left, reset, nopopen, callvars>>

\* Wrong on purpose: fclose(sock_fp) was forgotten.
HangUpForgotten ==
  /\ srv = "write" /\ left = 0
  /\ srv' = "accept"
  /\ caller' = Nobody
  /\ UNCHANGED <<server, queue, dirname, left, reset, nopopen, callvars>>

HangUp ==
  /\ srv = "write" /\ left = 0
  /\ srv' = "accept"
  /\ caller' = Nobody
  /\ hungup' = [hungup EXCEPT ![caller] = TRUE]
  /\ UNCHANGED <<server, queue, dirname, left, reset, nopopen, client, wants, sent,
                 got>>

ServerStep ==
  \/ Accept \/ ReadDirname \/ ReadNothing \/ Popen \/ PopenFails
  \/ WriteBlock \/ BrokenPipe \/ HangUp

-----------------------------------------------------------------------------
Clean(d) == \A i \in DOMAIN Spelled[d] : Spelled[d][i] \in Kept

Listing(s) == [i \in 1 .. Output(s) |-> [dir |-> s, part |-> i]]

\* As long as rlsd runs, an rls that ended by itself was sent the whole listing
\* of the directory it named and nothing of another client's, if sanitize()
\* leaves the name alone; with any name it was sent one whole listing.  (If
\* rlsd ended, rls shows what came before as if it were all.)
WholeReply ==
  server = "rlsd" /\ srv # "gone" => \A c \in Clients :
    client[c] = "done" =>
      /\ Clean(wants[c]) => got[c] = Listing(Spelled[wants[c]])
      /\ \E s \in Names : got[c] = Listing(s)

\* timeserv goes on whatever its callers do.  rlsd ends only if popen failed,
\* or for a caller who was killed, before it sent anything (fgets returns
\* NULL) or while rlsd wrote more than one block (SIGPIPE).
ServerLives ==
  srv = "gone" /\ server # "none" =>
    /\ server = "rlsd"
    /\ \/ nopopen
       \/ \E c \in Clients :
            /\ client[c] = "killed"
            /\ sent[c] = 0 \/ Output(Sanitize(Spelled[wants[c]])) > 1
=============================================================================
