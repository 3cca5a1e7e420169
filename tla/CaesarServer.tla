---------------------------- MODULE CaesarServer ----------------------------
(***************************************************************************)
(* The Caesar encryption service of Project1/submit/Prom4: server.c (an    *)
(* accept loop in main() and one thread per connection running server())   *)
(* and the client.c processes that talk to it.                             *)
(*                                                                         *)
(* A client opens one connection, so a connection is named by its client.  *)
(* A message is "text" (anything the server encrypts), "empty" (the empty  *)
(* line, which puts no byte on the stream) or "quit" (":q").  The kernel's *)
(* side of the sockets - descriptor table, end-of-file, reset - is         *)
(* external and modelled by what the two programs can observe of it.       *)
(***************************************************************************)
EXTENDS Integers, Sequences, FiniteSets

CONSTANTS
  Clients,           \* client processes, one connection each
  Fds,               \* descriptor numbers accept() can return
  Lines,             \* what a user types besides ":q": a subset of {"text", "empty"}
  NUM_THREADS_AVAL,  \* clients served at the same time (2 in server.c)
  CanDie,            \* a client may be killed without sending ":q"
  CanFailCreate,     \* pthread_create() may fail
  None               \* no client, no descriptor, no owner

ASSUME ServerAssumption ==
  /\ IsFiniteSet(Clients)
  /\ Fds \subseteq Nat /\ IsFiniteSet(Fds)
  /\ Lines \subseteq {"text", "empty"}
  /\ NUM_THREADS_AVAL \in Nat \ {0}
  /\ CanDie \in BOOLEAN /\ CanFailCreate \in BOOLEAN
  /\ None \notin Clients \cup Fds \cup (1 .. Cardinality(Clients))

\* Threads are numbered in the order of their pthread_create() call.
Threads == 1 .. Cardinality(Clients)

VARIABLES
  main,      \* main(): "accept", "load", "store" (num_thread++), "create"; "dead" once killed
  mtmp,      \* num_thread as main() loaded it
  connectfd, \* the one variable whose address every thread receives
  created,   \* how many pthread_create() calls were made
  num_thread, num_working_thread, mutex,
  pc,        \* control point of every thread; "none" before creation
  newsockfd, block, buffer, ttmp,  \* locals of server()
  sock,      \* the socket a blocked recv() holds a reference to
  fdTable,   \* descriptor -> connection
  backlog,   \* connections not yet accepted
  cpc,       \* client: "off", "gets", "recv", "quit" (left by :q), "dead"
  toServer, toClient,              \* bytes in flight, one entry per send()
  reset                            \* the peer was gone when the server last sent

serverVars == <<main, mtmp, connectfd, created, num_thread,
                num_working_thread, mutex>>
threadVars == <<pc, newsockfd, block, buffer, ttmp, sock>>
netVars == <<fdTable, backlog, toServer, toClient, reset>>
vars == <<serverVars, threadVars, netVars, cpc>>

Init ==
  /\ main = "accept" /\ mtmp = 0 /\ connectfd = None /\ created = 0
  /\ num_thread = 0 /\ num_working_thread = 0 /\ mutex = None
  /\ pc = [t \in Threads |-> "none"]
  /\ newsockfd = [t \in Threads |-> None]
  /\ block = [t \in Threads |-> TRUE]
  /\ buffer = [t \in Threads |-> "empty"]
  /\ ttmp = [t \in Threads |-> 0]
  /\ sock = [t \in Threads |-> None]
  /\ fdTable = [f \in Fds |-> None]
  /\ backlog = << >>
  /\ cpc = [c \in Clients |-> "off"]
  /\ toServer = [c \in Clients |-> << >>]
  /\ toClient = [c \in Clients |-> << >>]
  /\ reset = [c \in Clients |-> FALSE]

-----------------------------------------------------------------------------
(* Sockets (external): what close(), recv() and send() find at the other end *)

ClientOpen(c) == cpc[c] \in {"gets", "recv"}

\* The server end lives while a descriptor or a blocked recv() refers to it.
ServerOpen(c) ==
  \/ \E i \in DOMAIN backlog : backlog[i] = c
  \/ \E f \in Fds : fdTable[f] = c
  \/ \E t \in Threads : pc[t] = "blocked" /\ sock[t] = c

\* accept() returns the lowest free descriptor.
LowestFree(f) == fdTable[f] = None /\ \A g \in Fds : fdTable[g] = None => f <= g

-----------------------------------------------------------------------------
(* main() of server.c *)

\* while(1): accept() a connection into the shared connectfd.
Accept ==
  /\ main = "accept" /\ backlog # << >>
  /\ \E f \in Fds :
       /\ LowestFree(f)
       /\ connectfd' = f
       /\ fdTable' = [fdTable EXCEPT ![f] = Head(backlog)]
  /\ backlog' = Tail(backlog)
  /\ main' = "load"
  /\ UNCHANGED <<mtmp, created, num_thread, num_working_thread, mutex,
                 threadVars, toServer, toClient, reset, cpc>>

\* num_thread++ outside the mutex: a load and a store.
LoadNumThread ==
  /\ main = "load" /\ main' = "store" /\ mtmp' = num_thread
  /\ UNCHANGED <<connectfd, created, num_thread, num_working_thread, mutex,
                 threadVars, netVars, cpc>>

StoreNumThread ==
  /\ main = "store" /\ main' = "create" /\ num_thread' = mtmp + 1 /\ mtmp' = 0
  /\ UNCHANGED <<connectfd, created, num_working_thread, mutex,
                 threadVars, netVars, cpc>>

\* pthread_create(..., &connectfd).  A failure returns a positive error code,
\* never -1, so the loop goes on as if the thread existed.
CreateThread ==
  /\ main = "create" /\ main' = "accept"
  /\ created' = created + 1
  /\ \/ pc' = [pc EXCEPT ![created + 1] = "start"]
     \/ CanFailCreate /\ UNCHANGED pc
  /\ UNCHANGED <<mtmp, connectfd, num_thread, num_working_thread, mutex,
                 newsockfd, block, buffer, ttmp, sock, netVars, cpc>>

-----------------------------------------------------------------------------
(* server(): one thread *)

\* int newsockfd = *((int*)sockfd): connectfd as it is when the thread runs.
Start(t) ==
  /\ pc[t] = "start"
  /\ newsockfd' = [newsockfd EXCEPT ![t] = connectfd]
  /\ pc' = [pc EXCEPT ![t] = "recv"]
  /\ UNCHANGED <<block, buffer, ttmp, sock, serverVars, netVars, cpc>>

\* recv() looks the descriptor up; a closed one fails with EBADF: break.
Recv(t) ==
  /\ pc[t] = "recv"
  /\ LET c == fdTable[newsockfd[t]]
     IN  IF c = None
         THEN pc' = [pc EXCEPT ![t] = "close"] /\ UNCHANGED sock
         ELSE pc' = [pc EXCEPT ![t] = "blocked"] /\ sock' = [sock EXCEPT ![t] = c]
  /\ UNCHANGED <<newsockfd, block, buffer, ttmp, serverVars, netVars, cpc>>

\* Everything in flight arrives in one recv(); two sends would be one buffer,
\* which strcmp() does not find equal to ":q".
Coalesce(s) == IF Len(s) = 1 THEN s[1] ELSE "text"

\* recv() returns: with the bytes in flight, or with n = 0 at end-of-file,
\* which the code treats as an empty message, or with an error after a reset.
RecvReturn(t) ==
  LET c == sock[t]
  IN  /\ pc[t] = "blocked"
      /\ \/ /\ toServer[c] # << >>
            /\ buffer' = [buffer EXCEPT ![t] = Coalesce(toServer[c])]
            /\ toServer' = [toServer EXCEPT ![c] = << >>]
            /\ pc' = [pc EXCEPT ![t] = IF buffer'[t] = "quit" THEN "close" ELSE "lock"]
         \/ /\ toServer[c] = << >> /\ ~ClientOpen(c)
            /\ buffer' = [buffer EXCEPT ![t] = "empty"]
            /\ pc' = [pc EXCEPT ![t] = "lock"]
            /\ UNCHANGED toServer
         \/ /\ toServer[c] = << >> /\ ~ClientOpen(c) /\ reset[c]
            /\ pc' = [pc EXCEPT ![t] = "close"]
            /\ UNCHANGED <<buffer, toServer>>
      /\ UNCHANGED <<newsockfd, block, ttmp, sock, serverVars, fdTable,
                     backlog, toClient, reset, cpc>>

Lock(t) ==
  /\ mutex = None
  /\ \/ pc[t] = "lock" /\ pc' = [pc EXCEPT ![t] = "check"]
     \/ pc[t] = "lock2" /\ pc' = [pc EXCEPT ![t] = "dec"]
  /\ mutex' = t
  /\ UNCHANGED <<main, mtmp, connectfd, created, num_thread, num_working_thread,
                 newsockfd, block, buffer, ttmp, sock, netVars, cpc>>

\* Mutant: one place too many (<= for <).
CheckPlaceOneMore(t) ==
  /\ pc[t] = "check"
  /\ IF block[t] /\ num_working_thread <= NUM_THREADS_AVAL
     THEN /\ num_working_thread' = num_working_thread + 1
          /\ block' = [block EXCEPT ![t] = FALSE]
     ELSE UNCHANGED <<num_working_thread, block>>
  /\ pc' = [pc EXCEPT ![t] = IF block'[t] THEN "wait" ELSE "serve"]
  /\ mutex' = None
  /\ UNCHANGED <<main, mtmp, connectfd, created, num_thread,
                 newsockfd, buffer, ttmp, sock, netVars, cpc>>

\* The critical section that hands out a service place, and the unlock.
CheckPlace(t) ==
  /\ pc[t] = "check"
  /\ IF block[t] /\ num_working_thread < NUM_THREADS_AVAL
     THEN /\ num_working_thread' = num_working_thread + 1
          /\ block' = [block EXCEPT ![t] = FALSE]
     ELSE UNCHANGED <<num_working_thread, block>>
  /\ pc' = [pc EXCEPT ![t] = IF block'[t] THEN "wait" ELSE "serve"]
  /\ mutex' = None
  /\ UNCHANGED <<main, mtmp, connectfd, created, num_thread,
                 newsockfd, buffer, ttmp, sock, netVars, cpc>>

\* The signal of a send() on a reset connection ends the whole process.
Killed ==
  /\ main' = "dead"
  /\ pc' = [t \in Threads |-> IF pc[t] = "none" THEN "none" ELSE "exit"]
  /\ fdTable' = [f \in Fds |-> None]
  /\ backlog' = << >> /\ mutex' = None
  /\ UNCHANGED <<mtmp, connectfd, created, num_thread, num_working_thread,
                 newsockfd, block, buffer, ttmp, sock, toServer, toClient, reset, cpc>>

\* send() of a reply (<< >> when strlen(buffer) is 0): back to recv(), or
\* out of the loop when it fails.
SendReply(t, reply) ==
  LET c == fdTable[newsockfd[t]]
      Go(where) == pc' = [pc EXCEPT ![t] = where]
      Rest == UNCHANGED <<newsockfd, block, buffer, ttmp, sock, serverVars,
                          fdTable, backlog, toServer, cpc>>
  IN  \/ c = None /\ Go("close") /\ UNCHANGED <<toClient, reset>> /\ Rest
      \/ /\ c # None /\ (ClientOpen(c) \/ ~reset[c]) /\ Go("recv") /\ Rest
         /\ toClient' = [toClient EXCEPT ![c] = IF ClientOpen(c) THEN @ \o reply ELSE @]
         /\ reset' = [reset EXCEPT ![c] = ~ClientOpen(c) /\ reply # << >>]
      \/ c # None /\ ~ClientOpen(c) /\ reset[c] /\ Killed

\* Mutant: the else before the "Please wait" reply is lost.
ServeAndWait(t) ==
  /\ pc[t] = "serve"
  /\ SendReply(t, << "cipher", "please_wait" >>)

\* if(!block): encrypt and send back; else "Please wait ...".
Serve(t) ==
  /\ pc[t] = "serve"
  /\ SendReply(t, IF buffer[t] = "empty" THEN << >> ELSE << "cipher" >>)

\* Mutant: a client without a place is left without a reply.
WaitSilently(t) == pc[t] = "wait" /\ SendReply(t, << >>)

Wait(t) == pc[t] = "wait" /\ SendReply(t, << "please_wait" >>)

\* close(newsockfd): whatever connection the descriptor names by now.
Close(t) ==
  /\ pc[t] = "close"
  /\ fdTable' = [fdTable EXCEPT ![newsockfd[t]] = None]
  /\ pc' = [pc EXCEPT ![t] = "lock2"]
  /\ UNCHANGED <<newsockfd, block, buffer, ttmp, sock, serverVars, backlog,
                 toServer, toClient, reset, cpc>>

\* num_thread-- inside the mutex, again a load ...
LoadDec(t) ==
  /\ pc[t] = "dec"
  /\ ttmp' = [ttmp EXCEPT ![t] = num_thread]
  /\ pc' = [pc EXCEPT ![t] = "release"]
  /\ UNCHANGED <<newsockfd, block, buffer, sock, serverVars, netVars, cpc>>

\* ... and a store, then the service place is given back and the thread exits
\* (its locals, dead from here on, go back to their initial values).
Release(t) ==
  /\ pc[t] = "release"
  /\ num_thread' = ttmp[t] - 1
  /\ num_working_thread' = num_working_thread - (IF block[t] THEN 0 ELSE 1)
  /\ mutex' = None
  /\ pc' = [pc EXCEPT ![t] = "exit"]
  /\ newsockfd' = [newsockfd EXCEPT ![t] = None] /\ sock' = [sock EXCEPT ![t] = None]
  /\ block' = [block EXCEPT ![t] = TRUE] /\ buffer' = [buffer EXCEPT ![t] = "empty"]
  /\ ttmp' = [ttmp EXCEPT ![t] = 0]
  /\ UNCHANGED <<main, mtmp, connectfd, created, netVars, cpc>>

-----------------------------------------------------------------------------
(* main() of client.c *)

\* connect() succeeds once the kernel queued the connection.
Connect(c) ==
  /\ cpc[c] = "off" /\ main # "dead"
  /\ cpc' = [cpc EXCEPT ![c] = "gets"]
  /\ backlog' = Append(backlog, c)
  /\ UNCHANGED <<serverVars, threadVars, fdTable, toServer, toClient, reset>>

\* gets(content); send(); ":q" leaves, anything else waits for an answer.
\* An empty line sends nothing.  With the server gone the send may fail.
SendLine(c, line) ==
  /\ cpc[c] = "gets"
  /\ \/ /\ cpc' = [cpc EXCEPT ![c] = IF line = "quit" THEN "quit" ELSE "recv"]
        /\ toServer' = [toServer EXCEPT ![c] =
                          IF line = "empty" \/ ~ServerOpen(c) THEN @ ELSE Append(@, line)]
     \/ /\ ~ServerOpen(c)
        /\ cpc' = [cpc EXCEPT ![c] = "dead"] /\ UNCHANGED toServer
  /\ UNCHANGED <<serverVars, threadVars, fdTable, backlog, toClient, reset>>

\* recv() returns an answer, or n = 0 when the server closed the connection,
\* or an error after a reset, which ends the client.
Answer(c) ==
  /\ cpc[c] = "recv"
  /\ \/ /\ toClient[c] # << >> \/ ~ServerOpen(c)
        /\ cpc' = [cpc EXCEPT ![c] = "gets"]
        /\ toClient' = [toClient EXCEPT ![c] = << >>]
     \/ /\ ~ServerOpen(c)
        /\ cpc' = [cpc EXCEPT ![c] = "dead"] /\ UNCHANGED toClient
  /\ UNCHANGED <<serverVars, threadVars, fdTable, backlog, toServer, reset>>

\* The client is killed: its socket closes without a ":q".
Die(c) ==
  /\ CanDie /\ ClientOpen(c)
  /\ cpc' = [cpc EXCEPT ![c] = "dead"]
  /\ UNCHANGED <<serverVars, threadVars, netVars>>

-----------------------------------------------------------------------------
Thread(t) ==
  Start(t) \/ Recv(t) \/ RecvReturn(t) \/ Lock(t) \/ CheckPlace(t)
  \/ Serve(t) \/ Wait(t) \/ Close(t) \/ LoadDec(t) \/ Release(t)

Main == Accept \/ LoadNumThread \/ StoreNumThread \/ CreateThread

User(c) == Connect(c) \/ (\E line \in Lines \cup {"quit"} : SendLine(c, line)) \/ Die(c)

Next ==
  \/ Main
  \/ \E t \in Threads : Thread(t)
  \/ \E c \in Clients : User(c) \/ Answer(c)

Spec == Init /\ [][Next]_vars

\* Threads, main() and the clients' recv() are scheduled; pthread_mutex_lock
\* is granted to every thread in the end.  What the users type is up to them.
Fairness ==
  /\ WF_vars(Main)
  /\ \A t \in Threads : WF_vars(Thread(t)) /\ SF_vars(Lock(t))
  /\ \A c \in Clients : WF_vars(Answer(c))

FairSpec == Spec /\ Fairness

-----------------------------------------------------------------------------
(* Properties *)

Holder(t) == pc[t] \notin {"none", "exit"} /\ ~block[t]

\* At most NUM_THREADS_AVAL clients are in service ("at most 2 clients can be
\* served simultaneously", server.c:3), and num_working_thread counts exactly
\* the threads that hold a place: a place is neither lost nor given back twice.
PlacesCounted ==
  main # "dead" =>
    /\ num_working_thread = Cardinality({t \in Threads : Holder(t)})
    /\ num_working_thread \in 0 .. NUM_THREADS_AVAL

\* "for each newly coming client, allocate a thread for it" (server.c:5): no
\* two live threads work on the same descriptor.
Live(t) == pc[t] \notin {"none", "start", "lock2", "dec", "release", "exit"}
OwnConnection ==
  \A t, u \in Threads : t # u /\ Live(t) /\ Live(u) => newsockfd[t] # newsockfd[u]

\* Every thread has read connectfd before main() accepts the next connection.
\* The code does nothing to ensure it: it is the premise under which the
\* properties of a conversation below are worth stating.
ReadBeforeAccept == main = "accept" \/ \A t \in Threads : pc[t] # "start"

\* The request/answer discipline of client.c: at most one message is in flight
\* in each direction, so ":q" never arrives glued to another message (strcmp()
\* compares the whole buffer) and a client never takes an old answer for the
\* answer to its last line.
OneInFlight ==
  []ReadBeforeAccept =>
    [](\A c \in Clients : Len(toServer[c]) + Len(toClient[c]) <= 1)

\* A line that reached the socket of a thread is answered, by the cipher or by
\* "Please wait ...", or its client learns that the connection is closed; and
\* the thread of a client that left by ":q" gives its place back: while other
\* clients come, wait, quit and die.
ClientsServed ==
  []ReadBeforeAccept =>
    \A t \in Threads, c \in Clients :
      /\ (pc[t] = "blocked" /\ sock[t] = c /\ cpc[c] = "recv" /\ toServer[c] # << >>)
           ~> cpc[c] # "recv"
      /\ (Holder(t) /\ sock[t] = c /\ cpc[c] = "quit") ~> ~Holder(t)

=============================================================================
