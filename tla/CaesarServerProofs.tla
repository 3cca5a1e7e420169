------------------------- MODULE CaesarServerProofs -------------------------
(***************************************************************************)
(* The Caesar service, for any number of clients, descriptors and places,  *)
(* whatever clients die and threads fail to be created: the places are     *)
(* counted exactly, and one message of a connection is in flight.          *)
(*                                                                         *)
(* PlacesCounted is not inductive: nothing in it keeps main() from         *)
(* starting a thread that counts already, so the invariant adds that a     *)
(* thread not yet created exists nowhere and holds no place (Fresh).       *)
(*                                                                         *)
(* OneInFlight rests on the descriptors: a thread answers the client whose *)
(* message it read, because its descriptor is open, nobody else's, and     *)
(* names the connection that recv() was blocked on (OwnDescriptor); and on *)
(* whose turn it is in every conversation (Turns).                         *)
(***************************************************************************)
EXTENDS CaesarServer, DataProofs, FiniteSetTheorems, SequenceTheorems

Places ==
  {"none", "start", "recv", "blocked", "lock", "check", "serve", "wait", "close", "lock2",
   "dec", "release", "exit"}

Holders == {t \in Threads : Holder(t)}

Types ==
  /\ created \in Nat /\ num_working_thread \in Int
  /\ pc \in [Threads -> Places] /\ block \in [Threads -> BOOLEAN]

Fresh ==
  \A t \in Threads : /\ t > created => pc[t] = "none"
                     /\ pc[t] = "none" => block[t]

PlacesInv == main # "dead" => Types /\ Fresh /\ PlacesCounted

LEMMA HoldersFinite == IsFiniteSet(Threads) /\ IsFiniteSet(Holders) /\ Cardinality(Holders) \in Nat
<1>1. Cardinality(Clients) \in Nat
  BY ServerAssumption, FS_CardinalityType
<1>2. IsFiniteSet(Threads)
  BY <1>1, FS_Interval DEF Threads
<1>3. Holders \subseteq Threads
  BY DEF Holders
<1> QED BY <1>2, <1>3, FS_Subset, FS_CardinalityType

LEMMA ThreadsType == Threads \subseteq Nat
BY ServerAssumption, FS_CardinalityType DEF Threads

LEMMA PlacesStart == Init => PlacesInv
<1> SUFFICES ASSUME Init PROVE PlacesInv
  OBVIOUS
<1>1. Types /\ Fresh
  BY DEF Init, Types, Fresh, Places
<1>2. {t \in Threads : Holder(t)} = {}
  BY DEF Init, Holder
<1>3. PlacesCounted
  <2>1. Cardinality({t \in Threads : Holder(t)}) = 0
    BY <1>2, FS_EmptySet
  <2>2. 0 \in 0 .. NUM_THREADS_AVAL
    BY ServerAssumption
  <2> QED BY <2>1, <2>2 DEF Init, PlacesCounted
<1> QED BY <1>1, <1>3 DEF PlacesInv

\* Steps that neither create a thread nor hand out or give back a place.
LEMMA PlacesKept ==
  ASSUME Types, Fresh, PlacesCounted, main # "dead", UNCHANGED <<created, num_working_thread, block>>,
         pc' \in [Threads -> Places],
         \A t \in Threads : pc'[t] = pc[t] \/ (pc[t] \notin {"none", "exit"} /\ pc'[t] \notin {"none", "exit"})
  PROVE  PlacesInv'
<1>1. Types' /\ Fresh'
  BY DEF Types, Fresh
<1>2. {t \in Threads : Holder(t)}' = {t \in Threads : Holder(t)}
  BY DEF Holder, Types
<1>3. PlacesCounted'
  BY <1>2 DEF PlacesCounted
<1> QED BY <1>1, <1>3 DEF PlacesInv

\* main() and the clients: of all threads they only touch one that does not exist yet.
LEMMA MainKeeps ==
  ASSUME Types, Fresh, PlacesCounted, main # "dead", Main
  PROVE  PlacesInv'
<1>1. CASE Accept \/ LoadNumThread \/ StoreNumThread
  BY <1>1, PlacesKept DEF Accept, LoadNumThread, StoreNumThread, threadVars, Types
<1>2. CASE CreateThread
  <2>1. /\ created' = created + 1 /\ created \in Nat /\ UNCHANGED <<num_working_thread, block>>
        /\ pc' = [pc EXCEPT ![created + 1] = "start"] \/ pc' = pc
    BY <1>2 DEF CreateThread, Types
  <2>2. /\ pc' \in [Threads -> Places]
        /\ \A t \in Threads : pc'[t] = pc[t] \/ (t = created + 1 /\ pc'[t] = "start")
    BY <2>1 DEF Types, Places
  <2>3. \A t \in Threads : t = created + 1 => pc[t] = "none" /\ block[t]
    BY <2>1, ThreadsType DEF Fresh
  <2>4. Types' /\ Fresh'
    BY <2>1, <2>2, <2>3, ThreadsType DEF Types, Fresh
  <2>5. {t \in Threads : Holder(t)}' = {t \in Threads : Holder(t)}
    BY <2>1, <2>2, <2>3 DEF Holder
  <2>6. PlacesCounted'
    BY <2>1, <2>5 DEF PlacesCounted
  <2> QED BY <2>4, <2>6 DEF PlacesInv
<1> QED BY <1>1, <1>2 DEF Main

\* A thread takes one of the places that are left, or gives back the one it holds.
LEMMA PlaceChanges ==
  ASSUME Types, Fresh, PlacesCounted, main # "dead", NEW u \in Threads, CheckPlace(u) \/ Release(u)
  PROVE  PlacesInv'
<1>1. /\ UNCHANGED created
      /\ pc' = [pc EXCEPT ![u] = pc'[u]] /\ block' = [block EXCEPT ![u] = block'[u]]
      /\ pc[u] \in {"check", "release"} /\ pc'[u] \in {"wait", "serve", "exit"}
      /\ block[u] \in BOOLEAN /\ block'[u] \in BOOLEAN
      /\ num_working_thread \in Int
  BY DEF CheckPlace, Release, Types
<1>2. /\ pc' \in [Threads -> Places] /\ block' \in [Threads -> BOOLEAN]
      /\ \A t \in Threads \ {u} : pc'[t] = pc[t] /\ block'[t] = block[t]
  BY <1>1 DEF Types, Places
<1>3. Fresh'
  BY <1>1, <1>2 DEF Fresh
<1>4. /\ num_working_thread = Cardinality(Holders) /\ num_working_thread \in 0 .. NUM_THREADS_AVAL
      /\ NUM_THREADS_AVAL \in Nat
  BY ServerAssumption DEF PlacesCounted, Holders
<1>5. \/ /\ CheckPlace(u) /\ block[u] /\ num_working_thread < NUM_THREADS_AVAL
         /\ num_working_thread' = num_working_thread + 1 /\ ~block'[u] /\ pc'[u] = "serve"
      \/ /\ CheckPlace(u) /\ UNCHANGED <<num_working_thread, block>> /\ pc'[u] # "exit"
      \/ /\ Release(u) /\ pc[u] = "release" /\ pc'[u] = "exit"
         /\ num_working_thread' = num_working_thread - (IF block[u] THEN 0 ELSE 1)
  BY DEF CheckPlace, Release, Types
<1>6. /\ num_working_thread' = Cardinality(Holders') /\ num_working_thread' \in 0 .. NUM_THREADS_AVAL
  <2>1. ASSUME Holders' = Holders, num_working_thread' = num_working_thread
        PROVE  num_working_thread' = Cardinality(Holders') /\ num_working_thread' \in 0 .. NUM_THREADS_AVAL
    BY <1>4, <2>1
  <2>2. CASE block[u] /\ ~block'[u]
    <3>1. CheckPlace(u) /\ num_working_thread < NUM_THREADS_AVAL
          /\ num_working_thread' = num_working_thread + 1 /\ pc'[u] = "serve"
      BY <1>1, <1>5, <2>2 DEF Release, Types
    <3>2. u \notin Holders /\ Holders' = Holders \cup {u}
      BY <1>2, <2>2, <3>1 DEF Holders, Holder
    <3>3. Cardinality(Holders') = Cardinality(Holders) + 1
      BY <3>2, HoldersFinite, FS_AddElement
    <3> QED BY <1>4, <3>1, <3>3
  <2>3. CASE Release(u) /\ ~block[u]
    <3>1. u \in Holders /\ Holders' = Holders \ {u}
      BY <1>1, <1>2, <1>5, <2>3 DEF Holders, Holder, Release, CheckPlace
    <3>2. Cardinality(Holders') = Cardinality(Holders) - 1
      BY <3>1, HoldersFinite, FS_RemoveElement
    <3>3. num_working_thread' = num_working_thread - 1
      BY <2>3 DEF Release
    <3>4. Cardinality(Holders) # 0
      BY <3>1, HoldersFinite, FS_EmptySet
    <3> QED BY <1>4, <3>2, <3>3, <3>4, HoldersFinite
  <2>4. CASE Release(u) /\ block[u]
    <3>1. Holders' = Holders
      BY <1>2, <2>4 DEF Holders, Holder, Release
    <3> QED BY <1>1, <2>1, <2>4, <3>1 DEF Release
  <2>5. CASE CheckPlace(u) /\ UNCHANGED <<num_working_thread, block>> /\ pc'[u] # "exit"
    <3>1. Holders' = Holders
      BY <1>1, <1>2, <2>5 DEF Holders, Holder, CheckPlace
    <3> QED BY <2>1, <2>5, <3>1
  <2> QED BY <1>5, <2>2, <2>3, <2>4, <2>5
<1>7. Types'
  BY <1>1, <1>2, <1>6, <1>4 DEF Types
<1>8. PlacesCounted'
  BY <1>6 DEF PlacesCounted, Holders
<1> QED BY <1>3, <1>7, <1>8 DEF PlacesInv

\* Where the other steps of a thread lead.
LEMMA ThreadMoves ==
  ASSUME Types, Fresh, PlacesCounted, main # "dead", NEW u \in Threads, Thread(u)
  PROVE  PlacesInv'
<1>1. CASE CheckPlace(u) \/ Release(u)
  BY <1>1, PlaceChanges
<1>2. CASE Start(u) \/ Recv(u) \/ RecvReturn(u) \/ Lock(u) \/ Close(u) \/ LoadDec(u)
  <2>1. /\ UNCHANGED <<created, num_working_thread, block>>
        /\ pc' = [pc EXCEPT ![u] = pc'[u]]
        /\ pc[u] \notin {"none", "exit"} /\ pc'[u] \in Places \ {"none", "exit"}
    BY <1>2 DEF Start, Recv, RecvReturn, Lock, Close, LoadDec, Types, serverVars, Places
  <2>2. pc' \in [Threads -> Places] /\ \A t \in Threads \ {u} : pc'[t] = pc[t]
    BY <2>1 DEF Types
  <2> QED BY <2>1, <2>2, PlacesKept
<1>3. CASE Serve(u) \/ Wait(u)
  <2>1. PICK reply : SendReply(u, reply) /\ pc[u] \in {"serve", "wait"}
    BY <1>3 DEF Serve, Wait
  <2>2. CASE Killed
    BY <2>2 DEF Killed, PlacesInv
  <2>3. CASE ~Killed
    <3>1. /\ UNCHANGED <<created, num_working_thread, block>>
          /\ pc' = [pc EXCEPT ![u] = "recv"] \/ pc' = [pc EXCEPT ![u] = "close"]
      BY <2>1, <2>3 DEF SendReply, serverVars
    <3>2. pc' \in [Threads -> Places] /\ pc'[u] \in {"recv", "close"}
          /\ \A t \in Threads \ {u} : pc'[t] = pc[t]
      BY <3>1 DEF Types, Places
    <3> QED BY <2>1, <3>1, <3>2, PlacesKept
  <2> QED BY <2>2, <2>3
<1> QED BY <1>1, <1>2, <1>3 DEF Thread

LEMMA DeadStays == main = "dead" /\ [Next]_vars => main' = "dead"
<1> SUFFICES ASSUME main = "dead", [Next]_vars PROVE main' = "dead"
  OBVIOUS
<1> USE DEF serverVars, threadVars, netVars
<1>1. CASE UNCHANGED vars
  BY <1>1 DEF vars
<1>2. CASE Main
  BY <1>2 DEF Main, Accept, LoadNumThread, StoreNumThread, CreateThread
<1>3. ASSUME NEW t \in Threads, Thread(t) PROVE main' = "dead"
  <2>1. CASE Serve(t) \/ Wait(t)
    BY <2>1 DEF Serve, Wait, SendReply, Killed
  <2> QED BY <1>3, <2>1
       DEF Thread, Start, Recv, RecvReturn, Lock, CheckPlace, Close, LoadDec, Release
<1>4. ASSUME NEW c \in Clients, User(c) \/ Answer(c) PROVE main' = "dead"
  BY <1>4 DEF User, Answer, Connect, SendLine, Die
<1> QED BY <1>1, <1>2, <1>3, <1>4 DEF Next

LEMMA PlacesStep == PlacesInv /\ [Next]_vars => PlacesInv'
<1> SUFFICES ASSUME PlacesInv, [Next]_vars PROVE PlacesInv'
  OBVIOUS
<1>1. CASE main = "dead"
  BY <1>1, DeadStays DEF PlacesInv
<1>2. CASE main # "dead"
  <2>1. Types /\ Fresh /\ PlacesCounted
    BY <1>2 DEF PlacesInv
  <2>2. CASE Main
    BY <1>2, <2>1, <2>2, MainKeeps
  <2>3. CASE \E t \in Threads : Thread(t)
    BY <1>2, <2>1, <2>3, ThreadMoves
  <2>4. CASE UNCHANGED vars \/ \E c \in Clients : User(c) \/ Answer(c)
    <3>1. UNCHANGED <<created, num_working_thread, block, pc>>
      BY <2>4 DEF User, Answer, Connect, SendLine, Die, vars, serverVars, threadVars
    <3> QED BY <1>2, <2>1, <3>1, PlacesKept DEF Types
  <2> QED BY <2>2, <2>3, <2>4 DEF Next
<1> QED BY <1>1, <1>2

\* At most NUM_THREADS_AVAL clients are in service, and num_working_thread is the number of
\* threads that hold a place: none is lost and none given back twice, until a send() on a
\* reset connection ends the process.
THEOREM PlacesAreCounted == Spec => []PlacesCounted
<1>1. PlacesInv => PlacesCounted
  BY DEF PlacesInv, PlacesCounted
<1> QED BY <1>1, PlacesStart, PlacesStep, PTL DEF Spec

-----------------------------------------------------------------------------
(* One message in flight *)

ClientPlaces == {"off", "gets", "recv", "quit", "dead"}
Messages == {"text", "empty", "quit", "cipher", "please_wait"}

\* A direction of a connection with no message or one in flight.
Short == {<< >>} \cup {<<m>> : m \in Messages}

TalkTypes ==
  /\ main \in {"accept", "load", "store", "create", "dead"}
  /\ pc \in [Threads -> Places]
  /\ connectfd \in Fds \cup {None} /\ newsockfd \in [Threads -> Fds \cup {None}]
  /\ sock \in [Threads -> Clients \cup {None}] /\ fdTable \in [Fds -> Clients \cup {None}]
  /\ Lists(backlog, Linked(backlog)) /\ Linked(backlog) \subseteq Clients
  /\ cpc \in [Clients -> ClientPlaces]
  /\ toServer \in [Clients -> Short] /\ toClient \in [Clients -> Short]

\* A connection is in one place: in the backlog or behind one descriptor.
OnePlace ==
  /\ \A f, g \in Fds : fdTable[f] # None /\ fdTable[f] = fdTable[g] => f = g
  /\ \A f \in Fds : fdTable[f] \notin Linked(backlog)
  /\ \A c \in Clients : cpc[c] = "off" => c \notin Linked(backlog) /\ \A f \in Fds : fdTable[f] # c

\* A thread has its own descriptor, which is open.
OwnDescriptor ==
  /\ \A t \in Threads : Live(t) =>
       /\ newsockfd[t] \in Fds /\ fdTable[newsockfd[t]] # None
       /\ pc[t] = "blocked" => sock[t] = fdTable[newsockfd[t]]
  /\ OwnConnection

\* Somebody will read connectfd: main() with a new connection, or a thread that starts.
Handing == main \in {"load", "store", "create"} \/ \E t \in Threads : pc[t] = "start"

HandedAlone ==
  /\ Handing =>
       /\ connectfd \in Fds /\ fdTable[connectfd] # None
       /\ \A t \in Threads : Live(t) => newsockfd[t] # connectfd
  /\ \A t, u \in Threads : pc[t] = "start" /\ pc[u] = "start" => t = u

\* A thread has a message of c in hand.
InHand(t) == pc[t] \in {"lock", "check", "serve", "wait"}
Busy(c) == \E t \in Threads : InHand(t) /\ fdTable[newsockfd[t]] = c
Open(c) == c \in Linked(backlog) \/ \E f \in Fds : fdTable[f] = c
Quiet(c) == toServer[c] = << >> /\ toClient[c] = << >>

\* Of an open connection one message is in flight or in hand, none when the client has
\* its answer.
Turns ==
  \A c \in Clients :
    /\ toServer[c] = << >> \/ toClient[c] = << >>
    /\ cpc[c] = "off" => Quiet(c)
    /\ Open(c) /\ cpc[c] = "gets" => Quiet(c) /\ ~Busy(c)
    /\ Open(c) /\ cpc[c] = "recv" /\ Busy(c) => Quiet(c)

TalkInv == TalkTypes /\ OnePlace /\ OwnDescriptor /\ HandedAlone /\ Turns

LEMMA OpenToServer ==
  ASSUME TalkInv, NEW c \in Clients
  PROVE  ServerOpen(c) <=> Open(c)
<1>1. ASSUME NEW t \in Threads, pc[t] = "blocked", sock[t] = c PROVE Open(c)
  <2>1. Live(t) /\ newsockfd[t] \in Fds /\ c = fdTable[newsockfd[t]]
    BY <1>1 DEF Live, TalkInv, OwnDescriptor
  <2> QED BY <2>1 DEF Open
<1> QED BY <1>1 DEF ServerOpen, Open, Linked

LEMMA TalkStart == Init => TalkInv
<1> SUFFICES ASSUME Init PROVE TalkInv
  OBVIOUS
<1>1. backlog = << >> /\ Linked(backlog) = {} /\ Lists(backlog, {})
  BY DEF Init, Linked, Lists
<1>2. TalkTypes
  BY <1>1 DEF Init, TalkTypes, Places, ClientPlaces, Short
<1>3. OnePlace /\ OwnDescriptor /\ HandedAlone
  BY <1>1, ServerAssumption DEF Init, OnePlace, OwnDescriptor, OwnConnection, HandedAlone, Handing, Live
<1>4. Turns
  BY <1>1 DEF Init, Turns, Quiet
<1> QED BY <1>2, <1>3, <1>4 DEF TalkInv

\* A step of one thread that leaves the descriptor table as it is: a thread that starts
\* takes connectfd, which nobody else will then read.
LEMMA DescriptorsKept ==
  ASSUME TalkInv, ReadBeforeAccept, NEW u \in Threads,
         UNCHANGED <<main, connectfd, fdTable, backlog, cpc>>,
         pc' \in [Threads -> Places], newsockfd' \in [Threads -> Fds \cup {None}],
         sock' \in [Threads -> Clients \cup {None}],
         toServer' \in [Clients -> Short], toClient' \in [Clients -> Short],
         \A t \in Threads \ {u} : pc'[t] = pc[t] /\ newsockfd'[t] = newsockfd[t] /\ sock'[t] = sock[t],
         pc'[u] # "start",
         \/ ~Live(u)'
         \/ Live(u) /\ newsockfd'[u] = newsockfd[u]
         \/ pc[u] = "start" /\ newsockfd'[u] = connectfd,
         pc'[u] = "blocked" => sock'[u] = fdTable[newsockfd'[u]]
  PROVE  TalkTypes' /\ OnePlace' /\ OwnDescriptor' /\ HandedAlone'
<1> USE DEF TalkInv
<1>1. TalkTypes' /\ OnePlace'
  BY DEF TalkTypes, OnePlace
<1>2. \A t \in Threads \ {u} : Live(t)' <=> Live(t)
  BY DEF Live
<1>3. pc[u] = "start" => /\ Handing /\ main = "accept"
                         /\ \A t \in Threads : pc[t] = "start" => t = u
  BY DEF Handing, HandedAlone, ReadBeforeAccept
<1>4. ASSUME Live(u)'
      PROVE  /\ newsockfd'[u] \in Fds /\ fdTable[newsockfd'[u]] # None
             /\ \A t \in Threads \ {u} : Live(t) => newsockfd[t] # newsockfd'[u]
  <2>1. CASE Live(u) /\ newsockfd'[u] = newsockfd[u]
    BY <2>1 DEF OwnDescriptor, OwnConnection
  <2>2. CASE pc[u] = "start" /\ newsockfd'[u] = connectfd
    BY <1>3, <2>2 DEF HandedAlone
  <2> QED BY <1>4, <2>1, <2>2
<1>5. OwnDescriptor'
  <2>1. \A t \in Threads : Live(t)' =>
          /\ newsockfd'[t] \in Fds /\ fdTable[newsockfd'[t]] # None
          /\ pc'[t] = "blocked" => sock'[t] = fdTable[newsockfd'[t]]
    BY <1>2, <1>4 DEF OwnDescriptor
  <2>2. OwnConnection'
    BY <1>2, <1>4 DEF OwnDescriptor, OwnConnection
  <2> QED BY <2>1, <2>2 DEF OwnDescriptor
<1>6. HandedAlone'
  <2>1. Handing' => Handing /\ pc[u] # "start"
    BY <1>3 DEF Handing
  <2>2. Handing' => \A t \in Threads : Live(t)' => newsockfd'[t] # connectfd
    BY <1>2, <2>1 DEF HandedAlone
  <2> QED BY <2>1, <2>2 DEF HandedAlone
<1> QED BY <1>1, <1>5, <1>6

\* Steps of a thread that touch no socket, or only look one up.
LEMMA LocalStepTalks ==
  ASSUME TalkInv, ReadBeforeAccept, NEW u \in Threads,
         Start(u) \/ Recv(u) \/ Lock(u) \/ CheckPlace(u) \/ LoadDec(u) \/ Release(u)
  PROVE  TalkInv'
<1>1. /\ UNCHANGED <<main, connectfd, fdTable, backlog, cpc, toServer, toClient>>
      /\ pc' = [pc EXCEPT ![u] = pc'[u]] /\ newsockfd' = [newsockfd EXCEPT ![u] = newsockfd'[u]]
      /\ sock' = [sock EXCEPT ![u] = sock'[u]]
      /\ pc'[u] \in Places \ {"start"} /\ newsockfd'[u] \in Fds \cup {None} /\ sock'[u] \in Clients \cup {None}
      /\ InHand(u)' => InHand(u) /\ newsockfd'[u] = newsockfd[u]
  <2>1. CASE Start(u)
    BY <2>1 DEF Start, TalkInv, TalkTypes, serverVars, netVars, Places, InHand
  <2>2. CASE Recv(u)
    <3>1. newsockfd[u] \in Fds
      BY <2>2 DEF Recv, TalkInv, OwnDescriptor, Live
    <3> QED BY <2>2, <3>1 DEF Recv, TalkInv, TalkTypes, serverVars, netVars, Places, InHand
  <2>3. CASE Lock(u) \/ CheckPlace(u) \/ LoadDec(u) \/ Release(u)
    BY <2>3 DEF Lock, CheckPlace, LoadDec, Release, TalkInv, TalkTypes, serverVars, netVars, Places, InHand
  <2> QED BY <2>1, <2>2, <2>3
<1>2. /\ pc' \in [Threads -> Places] /\ newsockfd' \in [Threads -> Fds \cup {None}]
      /\ sock' \in [Threads -> Clients \cup {None}]
      /\ \A t \in Threads \ {u} : pc'[t] = pc[t] /\ newsockfd'[t] = newsockfd[t] /\ sock'[t] = sock[t]
  BY <1>1 DEF TalkInv, TalkTypes
<1>3. /\ \/ ~Live(u)'
         \/ Live(u) /\ newsockfd'[u] = newsockfd[u]
         \/ pc[u] = "start" /\ newsockfd'[u] = connectfd
      /\ pc'[u] = "blocked" => sock'[u] = fdTable[newsockfd'[u]]
  <2>1. CASE Start(u)
    BY <2>1 DEF Start, TalkInv, TalkTypes
  <2>2. CASE Recv(u)
    BY <2>2 DEF Recv, Live, TalkInv, TalkTypes
  <2>3. CASE Lock(u) \/ CheckPlace(u) \/ LoadDec(u) \/ Release(u)
    BY <2>3 DEF Lock, CheckPlace, LoadDec, Release, Live, TalkInv, TalkTypes
  <2> QED BY <2>1, <2>2, <2>3
<1>4. TalkTypes' /\ OnePlace' /\ OwnDescriptor' /\ HandedAlone'
  <2>1. toServer' \in [Clients -> Short] /\ toClient' \in [Clients -> Short]
    BY <1>1 DEF TalkInv, TalkTypes
  <2> QED BY <1>1, <1>2, <1>3, <2>1, DescriptorsKept
<1>5. \A c \in Clients : (Busy(c)' => Busy(c)) /\ (Open(c)' <=> Open(c)) /\ (Quiet(c)' <=> Quiet(c))
  BY <1>1, <1>2 DEF Busy, Open, InHand, Quiet
<1>6. Turns'
  BY <1>1, <1>5 DEF TalkInv, Turns
<1> QED BY <1>4, <1>6 DEF TalkInv

\* A client's descriptor is its own: only one thread has its message in hand.
LEMMA OneHand ==
  ASSUME TalkInv, NEW t \in Threads, NEW u \in Threads, Live(t), Live(u),
         fdTable[newsockfd[t]] = fdTable[newsockfd[u]]
  PROVE  t = u
<1>1. /\ newsockfd[t] \in Fds /\ newsockfd[u] \in Fds /\ fdTable[newsockfd[t]] # None
  BY DEF TalkInv, OwnDescriptor
<1>2. newsockfd[t] = newsockfd[u]
  BY <1>1 DEF TalkInv, OnePlace
<1> QED BY <1>2 DEF TalkInv, OwnDescriptor, OwnConnection

\* recv() takes what is in flight into the hand of the thread.
LEMMA RecvReturnTalks ==
  ASSUME TalkInv, ReadBeforeAccept, NEW u \in Threads, RecvReturn(u)
  PROVE  TalkInv'
<1> DEFINE c == sock[u]
<1>1. /\ Live(u) /\ pc[u] = "blocked" /\ newsockfd[u] \in Fds /\ c = fdTable[newsockfd[u]]
      /\ c \in Clients /\ Open(c)
  <2>1. Live(u) /\ pc[u] = "blocked"
    BY DEF RecvReturn, Live
  <2>2. newsockfd[u] \in Fds /\ c = fdTable[newsockfd[u]] /\ c # None
    BY <2>1 DEF TalkInv, OwnDescriptor
  <2> QED BY <2>1, <2>2 DEF TalkInv, TalkTypes, Open
<1>2. /\ UNCHANGED <<main, connectfd, fdTable, backlog, cpc, toClient, newsockfd, sock>>
      /\ pc' = [pc EXCEPT ![u] = pc'[u]] /\ pc'[u] \in {"close", "lock"}
      /\ \/ toServer[c] # << >> /\ toServer' = [toServer EXCEPT ![c] = << >>]
         \/ ~ClientOpen(c) /\ toServer' = toServer
  BY DEF RecvReturn, serverVars, TalkInv, TalkTypes
<1> HIDE DEF c
<1>3. /\ pc' \in [Threads -> Places] /\ toServer' \in [Clients -> Short]
      /\ \A t \in Threads \ {u} : pc'[t] = pc[t]
      /\ \A d \in Clients \ {c} : toServer'[d] = toServer[d]
      /\ toServer'[c] = toServer[c] \/ toServer'[c] = << >>
      /\ ClientOpen(c) => toServer[c] # << >> /\ toServer'[c] = << >>
  <2>1. pc' \in [Threads -> Places] /\ \A t \in Threads \ {u} : pc'[t] = pc[t]
    BY <1>2 DEF TalkInv, TalkTypes, Places
  <2>2. << >> \in Short
    BY DEF Short
  <2> QED BY <1>1, <1>2, <2>1, <2>2 DEF TalkInv, TalkTypes
<1>4. TalkTypes' /\ OnePlace' /\ OwnDescriptor' /\ HandedAlone'
  <2>1. toClient' \in [Clients -> Short] /\ newsockfd' \in [Threads -> Fds \cup {None}]
        /\ sock' \in [Threads -> Clients \cup {None}]
    BY <1>2 DEF TalkInv, TalkTypes
  <2> QED BY <1>1, <1>2, <1>3, <2>1, DescriptorsKept
<1>5. \A d \in Clients : (Open(d)' <=> Open(d)) /\ (d # c /\ Busy(d)' => Busy(d))
  BY <1>1, <1>2, <1>3 DEF Busy, Open, InHand
<1>6. Turns'
  <2> SUFFICES ASSUME NEW d \in Clients
               PROVE  /\ toServer'[d] = << >> \/ toClient[d] = << >>
                      /\ cpc[d] = "off" => Quiet(d)'
                      /\ Open(d) /\ cpc[d] = "gets" => Quiet(d)' /\ ~Busy(d)'
                      /\ Open(d) /\ cpc[d] = "recv" /\ Busy(d)' => Quiet(d)'
    BY <1>2, <1>5 DEF Turns
  <2>1. CASE d # c
    BY <1>2, <1>3, <1>5, <2>1 DEF TalkInv, Turns, Quiet
  <2>2. CASE d = c
    <3>1. toServer'[d] = << >> \/ toClient[d] = << >>
      BY <1>3, <2>2 DEF TalkInv, Turns
    <3>2. cpc[d] # "off"
      BY <1>1, <2>2 DEF TalkInv, OnePlace
    <3>3. cpc[d] # "gets"
      BY <1>1, <1>3, <2>2 DEF TalkInv, Turns, Quiet, ClientOpen
    <3>4. cpc[d] = "recv" => Quiet(d)'
      BY <1>2, <1>3, <2>2 DEF TalkInv, Turns, Quiet, ClientOpen
    <3> QED BY <3>1, <3>2, <3>3, <3>4
  <2> QED BY <2>1, <2>2
<1> QED BY <1>4, <1>6 DEF TalkInv

\* A reply goes to the client whose message was in hand, while it has nothing else to read.
LEMMA ReplyTalks ==
  ASSUME TalkInv, ReadBeforeAccept, NEW u \in Threads, Serve(u) \/ Wait(u), ~Killed
  PROVE  TalkInv'
<1>1. PICK reply \in {<< >>, << "cipher" >>, << "please_wait" >>} : SendReply(u, reply) /\ InHand(u)
  BY DEF Serve, Wait, InHand
<1>2. reply \in Short /\ << >> \o reply = reply
  <2>1. reply \in Short
    BY <1>1 DEF Short, Messages
  <2>2. \A r \in Seq(Messages) : << >> \o r = r
    BY ConcatEmptySeq
  <2>3. reply \in Seq(Messages)
    <3>1. << >> \in Seq(Messages) /\ \A m \in Messages : << m >> \in Seq(Messages)
      OBVIOUS
    <3> QED BY <1>1, <3>1 DEF Messages
  <2> QED BY <2>1, <2>2, <2>3, Zenon
<1> DEFINE c == fdTable[newsockfd[u]]
<1>3. /\ Live(u) /\ newsockfd[u] \in Fds /\ c \in Clients /\ c # None /\ Open(c) /\ Busy(c)
  <2>1. Live(u) /\ pc[u] # "blocked"
    BY <1>1 DEF InHand, Live
  <2>2. newsockfd[u] \in Fds /\ c # None
    BY <2>1 DEF TalkInv, OwnDescriptor
  <2> QED BY <1>1, <2>1, <2>2 DEF TalkInv, TalkTypes, Open, Busy
<1>4. /\ UNCHANGED <<main, connectfd, fdTable, backlog, cpc, toServer, newsockfd, sock>>
      /\ pc' = [pc EXCEPT ![u] = "recv"]
      /\ toClient' = [toClient EXCEPT ![c] = IF ClientOpen(c) THEN @ \o reply ELSE @]
  BY <1>1, <1>3 DEF SendReply, serverVars
<1>5. /\ cpc[c] # "off" /\ cpc[c] # "gets"
      /\ ClientOpen(c) => cpc[c] = "recv" /\ toServer[c] = << >> /\ toClient[c] = << >>
  BY <1>3 DEF TalkInv, Turns, OnePlace, ClientOpen, Quiet
<1> HIDE DEF c
<1>6. /\ \A d \in Clients \ {c} : toClient'[d] = toClient[d]
      /\ \/ ClientOpen(c) /\ toClient'[c] = reply
         \/ ~ClientOpen(c) /\ toClient'[c] = toClient[c]
      /\ toClient' \in [Clients -> Short]
  <2>1. toClient \in [Clients -> Short]
    BY DEF TalkInv, TalkTypes
  <2>2. CASE ClientOpen(c)
    <3>1. toClient' = [toClient EXCEPT ![c] = reply]
      BY <1>2, <1>4, <1>5, <2>2
    <3> QED BY <1>2, <1>3, <2>1, <2>2, <3>1
  <2>3. CASE ~ClientOpen(c)
    <3>1. toClient' = toClient
      BY <1>3, <1>4, <2>1, <2>3
    <3> QED BY <2>1, <2>3, <3>1
  <2> QED BY <2>2, <2>3
<1>7. pc' \in [Threads -> Places] /\ pc'[u] = "recv" /\ \A t \in Threads \ {u} : pc'[t] = pc[t]
  BY <1>4 DEF TalkInv, TalkTypes, Places
<1>8. TalkTypes' /\ OnePlace' /\ OwnDescriptor' /\ HandedAlone'
  <2>1. toServer' \in [Clients -> Short] /\ newsockfd' \in [Threads -> Fds \cup {None}]
        /\ sock' \in [Threads -> Clients \cup {None}]
    BY <1>4 DEF TalkInv, TalkTypes
  <2> QED BY <1>3, <1>4, <1>6, <1>7, <2>1, DescriptorsKept
<1>9. \A d \in Clients : (Open(d)' <=> Open(d)) /\ (Busy(d)' => Busy(d) /\ d # c)
  <2>1. \A d \in Clients : Open(d)' <=> Open(d)
    BY <1>4 DEF Open
  <2>2. ASSUME NEW d \in Clients, Busy(d)' PROVE Busy(d) /\ d # c
    <3>1. PICK t \in Threads : InHand(t)' /\ fdTable[newsockfd[t]] = d
      BY <1>4, <2>2 DEF Busy
    <3>2. t # u /\ InHand(t) /\ Live(t)
      BY <1>7, <3>1 DEF InHand, Live
    <3> QED BY <1>3, <3>1, <3>2, OneHand DEF Busy, c
  <2> QED BY <2>1, <2>2
<1>10. Turns'
  <2> SUFFICES ASSUME NEW d \in Clients
               PROVE  /\ toServer[d] = << >> \/ toClient'[d] = << >>
                      /\ cpc[d] = "off" => Quiet(d)'
                      /\ Open(d) /\ cpc[d] = "gets" => Quiet(d)' /\ ~Busy(d)'
                      /\ Open(d) /\ cpc[d] = "recv" /\ Busy(d)' => Quiet(d)'
    BY <1>4, <1>9 DEF Turns
  <2>1. CASE d # c
    BY <1>4, <1>6, <1>9, <2>1 DEF TalkInv, Turns, Quiet
  <2>2. CASE d = c
    <3>1. toServer[d] = << >> \/ toClient'[d] = << >>
      BY <1>5, <1>6, <2>2 DEF TalkInv, Turns
    <3> QED BY <1>5, <1>9, <2>2, <3>1
  <2> QED BY <2>1, <2>2
<1> QED BY <1>8, <1>10 DEF TalkInv

\* close() of a thread's own descriptor ends its connection.
LEMMA CloseTalks ==
  ASSUME TalkInv, NEW u \in Threads, Close(u)
  PROVE  TalkInv'
<1> DEFINE f == newsockfd[u]
<1>1. Live(u) /\ f \in Fds /\ fdTable[f] # None
  BY DEF Close, Live, TalkInv, OwnDescriptor
<1>2. /\ UNCHANGED <<main, connectfd, backlog, cpc, toServer, toClient, newsockfd, sock>>
      /\ pc' = [pc EXCEPT ![u] = "lock2"] /\ fdTable' = [fdTable EXCEPT ![f] = None]
  BY DEF Close, serverVars
<1>3. TalkTypes'
  BY <1>2 DEF TalkInv, TalkTypes, Places
<1>4. /\ \A t \in Threads \ {u} : pc'[t] = pc[t]
      /\ pc'[u] = "lock2" /\ ~Live(u)'
      /\ fdTable'[f] = None /\ \A g \in Fds \ {f} : fdTable'[g] = fdTable[g]
      /\ \A t \in Threads : Live(t)' => Live(t) /\ t # u /\ newsockfd[t] # f /\ newsockfd[t] \in Fds
  <2>1. /\ \A t \in Threads \ {u} : pc'[t] = pc[t]
        /\ pc'[u] = "lock2" /\ fdTable'[f] = None /\ \A g \in Fds \ {f} : fdTable'[g] = fdTable[g]
    BY <1>1, <1>2 DEF TalkInv, TalkTypes
  <2>2. ~Live(u)' /\ \A t \in Threads \ {u} : Live(t)' <=> Live(t)
    BY <2>1 DEF Live
  <2> QED BY <1>1, <2>1, <2>2 DEF TalkInv, OwnDescriptor, OwnConnection
<1> HIDE DEF f
<1>5. OnePlace'
  <2>1. None \notin Linked(backlog) /\ None \notin Clients
    BY ServerAssumption DEF TalkInv, TalkTypes
  <2> QED BY <1>2, <1>4, <2>1 DEF TalkInv, OnePlace
<1>6. OwnDescriptor'
  <2>1. \A t \in Threads : Live(t)' =>
          /\ newsockfd'[t] \in Fds /\ fdTable'[newsockfd'[t]] # None
          /\ pc'[t] = "blocked" => sock'[t] = fdTable'[newsockfd'[t]]
    BY <1>2, <1>4 DEF TalkInv, OwnDescriptor
  <2>2. OwnConnection'
    BY <1>2, <1>4 DEF TalkInv, OwnDescriptor, OwnConnection
  <2> QED BY <2>1, <2>2 DEF OwnDescriptor
<1>7. HandedAlone'
  <2>1. Handing' => Handing
    BY <1>2, <1>4 DEF Handing
  <2>2. Handing => connectfd # f
    BY <1>1 DEF TalkInv, HandedAlone, f
  <2> QED BY <1>2, <1>4, <2>1, <2>2 DEF TalkInv, HandedAlone
<1>8. \A c \in Clients : (Open(c)' => Open(c)) /\ (Busy(c)' => Busy(c)) /\ (Quiet(c)' <=> Quiet(c))
  <2>1. \A c \in Clients : Open(c)' => Open(c)
    BY <1>2, <1>4, ServerAssumption DEF Open
  <2>2. ASSUME NEW c \in Clients, Busy(c)' PROVE Busy(c)
    <3>1. PICK t \in Threads : InHand(t)' /\ fdTable'[newsockfd[t]] = c
      BY <1>2, <2>2 DEF Busy
    <3>2. Live(t)'
      BY <3>1 DEF InHand, Live
    <3> QED BY <1>4, <3>1, <3>2 DEF Busy, InHand
  <2> QED BY <1>2, <2>1, <2>2 DEF Quiet
<1>9. Turns'
  BY <1>2, <1>8 DEF TalkInv, Turns
<1> QED BY <1>3, <1>5, <1>6, <1>7, <1>9 DEF TalkInv

\* The signal of a send() closes every connection.
LEMMA KilledTalks ==
  ASSUME TalkInv, Killed
  PROVE  TalkInv'
<1>1. /\ main' = "dead" /\ pc' = [t \in Threads |-> IF pc[t] = "none" THEN "none" ELSE "exit"]
      /\ fdTable' = [f \in Fds |-> None] /\ backlog' = << >>
      /\ UNCHANGED <<connectfd, newsockfd, sock, toServer, toClient, cpc>>
  BY DEF Killed
<1>2. Linked(backlog') = {} /\ Lists(backlog', Linked(backlog'))
  BY <1>1 DEF Linked, Lists
<1>3. TalkTypes'
  BY <1>1, <1>2 DEF TalkInv, TalkTypes, Places
<1>4. \A t \in Threads : ~Live(t)' /\ pc'[t] # "start"
  BY <1>1 DEF Live
<1>5. OnePlace' /\ OwnDescriptor' /\ HandedAlone'
  BY <1>1, <1>2, <1>4, ServerAssumption DEF OnePlace, OwnDescriptor, OwnConnection, HandedAlone, Handing
<1>6. \A c \in Clients : ~Open(c)' /\ (Quiet(c)' <=> Quiet(c))
  BY <1>1, <1>2, ServerAssumption DEF Open, Quiet
<1>7. Turns'
  BY <1>1, <1>6 DEF TalkInv, Turns
<1> QED BY <1>3, <1>5, <1>7 DEF TalkInv

\* accept() takes a descriptor that nobody holds; the connection stays open.
LEMMA AcceptTalks ==
  ASSUME TalkInv, ReadBeforeAccept', Accept
  PROVE  TalkInv'
<1> DEFINE h == Head(backlog)
<1>1. PICK f \in Fds : /\ fdTable[f] = None /\ connectfd' = f
                       /\ fdTable' = [fdTable EXCEPT ![f] = h]
  BY DEF Accept, LowestFree
<1>2. /\ backlog # << >> /\ backlog' = Tail(backlog) /\ main' = "load"
      /\ UNCHANGED <<pc, newsockfd, sock, toServer, toClient, cpc>>
  BY DEF Accept, threadVars
<1>3. /\ h \in Linked(backlog) /\ Linked(backlog') = Linked(backlog) \ {h}
      /\ Lists(backlog', Linked(backlog')) /\ h \in Clients /\ h # None
  BY <1>2, LinkedDelFirst, ServerAssumption DEF TalkInv, TalkTypes
<1> HIDE DEF h
<1>4. fdTable'[f] = h /\ \A g \in Fds \ {f} : fdTable'[g] = fdTable[g]
  BY <1>1 DEF TalkInv, TalkTypes
<1>5. TalkTypes'
  BY <1>1, <1>2, <1>3 DEF TalkInv, TalkTypes
<1>6. OnePlace'
  BY <1>2, <1>3, <1>4 DEF TalkInv, OnePlace
<1>7. /\ \A t \in Threads : (Live(t)' <=> Live(t)) /\ pc'[t] # "start"
      /\ \A t \in Threads : Live(t) => newsockfd[t] \in Fds \ {f}
  BY <1>1, <1>2 DEF Live, ReadBeforeAccept, TalkInv, OwnDescriptor
<1>8. OwnDescriptor'
  <2>1. OwnConnection'
    BY <1>2, <1>7 DEF TalkInv, OwnDescriptor, OwnConnection
  <2> QED BY <1>2, <1>4, <1>7, <2>1 DEF TalkInv, OwnDescriptor
<1>9. HandedAlone'
  BY <1>1, <1>2, <1>3, <1>4, <1>7 DEF HandedAlone
<1>10. \A c \in Clients : (Open(c)' => Open(c)) /\ (Busy(c)' => Busy(c)) /\ (Quiet(c)' <=> Quiet(c))
  <2>1. \A c \in Clients : Open(c)' => Open(c)
    BY <1>3, <1>4 DEF Open
  <2>2. ASSUME NEW c \in Clients, Busy(c)' PROVE Busy(c)
    <3>1. PICK t \in Threads : InHand(t) /\ fdTable'[newsockfd[t]] = c
      BY <1>2, <2>2 DEF Busy, InHand
    <3>2. Live(t)
      BY <3>1 DEF InHand, Live
    <3> QED BY <1>4, <1>7, <3>1, <3>2 DEF Busy
  <2> QED BY <1>2, <2>1, <2>2 DEF Quiet
<1>11. Turns'
  BY <1>2, <1>10 DEF TalkInv, Turns
<1> QED BY <1>5, <1>6, <1>8, <1>9, <1>11 DEF TalkInv

\* The rest of main(): the new thread is the only one that starts.
LEMMA HandOverTalks ==
  ASSUME TalkInv, ReadBeforeAccept, LoadNumThread \/ StoreNumThread \/ CreateThread
  PROVE  TalkInv'
<1>1. /\ UNCHANGED <<connectfd, fdTable, backlog, cpc, toServer, toClient, newsockfd, sock>>
      /\ main \in {"load", "store", "create"} /\ main' \in {"accept", "store", "create"}
      /\ pc' = pc \/ pc' = [pc EXCEPT ![created + 1] = "start"]
  BY DEF LoadNumThread, StoreNumThread, CreateThread, threadVars, netVars
<1>2. Handing /\ \A t \in Threads : pc[t] # "start"
  BY <1>1 DEF Handing, ReadBeforeAccept
<1>3. \A t \in Threads : /\ pc'[t] = pc[t] \/ (t = created + 1 /\ pc'[t] = "start")
                         /\ Live(t)' => Live(t) /\ pc'[t] = pc[t]
                         /\ InHand(t)' => InHand(t)
  BY <1>1 DEF Live, InHand, TalkInv, TalkTypes
<1>4. TalkTypes' /\ OnePlace'
  BY <1>1 DEF TalkInv, TalkTypes, OnePlace, Places
<1>5. OwnDescriptor'
  BY <1>1, <1>3 DEF TalkInv, OwnDescriptor, OwnConnection
<1>6. HandedAlone'
  <2>1. \A t, v \in Threads : pc'[t] = "start" /\ pc'[v] = "start" => t = v
    BY <1>2, <1>3
  <2> QED BY <1>1, <1>2, <1>3, <2>1 DEF TalkInv, HandedAlone
<1>7. Turns'
  <2>1. \A c \in Clients : (Open(c)' <=> Open(c)) /\ (Busy(c)' => Busy(c)) /\ (Quiet(c)' <=> Quiet(c))
    BY <1>1, <1>3 DEF Open, Busy, Quiet
  <2> QED BY <1>1, <2>1 DEF TalkInv, Turns
<1> QED BY <1>4, <1>5, <1>6, <1>7 DEF TalkInv

\* A step of a client leaves the server as it is.
LEMMA ClientStep ==
  ASSUME TalkInv, UNCHANGED <<main, connectfd, fdTable, pc, newsockfd, sock>>
  PROVE  /\ OwnDescriptor' /\ HandedAlone'
         /\ \A c \in Clients : Busy(c)' <=> Busy(c)
<1>1. \A t \in Threads : (Live(t)' <=> Live(t)) /\ (InHand(t)' <=> InHand(t))
  BY DEF Live, InHand
<1>2. Handing' <=> Handing
  BY DEF Handing
<1> QED BY <1>1, <1>2 DEF TalkInv, OwnDescriptor, OwnConnection, HandedAlone, Busy

LEMMA ConnectTalks ==
  ASSUME TalkInv, NEW c \in Clients, Connect(c)
  PROVE  TalkInv'
<1>1. /\ UNCHANGED <<main, connectfd, fdTable, pc, newsockfd, sock, toServer, toClient>>
      /\ cpc[c] = "off" /\ cpc' = [cpc EXCEPT ![c] = "gets"] /\ backlog' = Append(backlog, c)
  BY DEF Connect, serverVars, threadVars
<1>2. /\ c \notin Linked(backlog) /\ \A f \in Fds : fdTable[f] # c
      /\ Quiet(c)
  BY <1>1 DEF TalkInv, OnePlace, Turns
<1>3. Linked(backlog') = Linked(backlog) \cup {c} /\ Lists(backlog', Linked(backlog'))
  BY <1>1, <1>2, LinkedAddTail DEF TalkInv, TalkTypes
<1>4. /\ cpc' \in [Clients -> ClientPlaces] /\ cpc'[c] = "gets"
      /\ \A d \in Clients \ {c} : cpc'[d] = cpc[d]
  BY <1>1 DEF TalkInv, TalkTypes, ClientPlaces
<1>5. TalkTypes' /\ OnePlace'
  BY <1>1, <1>2, <1>3, <1>4 DEF TalkInv, TalkTypes, OnePlace
<1>6. OwnDescriptor' /\ HandedAlone' /\ \A d \in Clients : Busy(d)' <=> Busy(d)
  BY <1>1, ClientStep
<1>7. ~Busy(c)
  <2>1. ASSUME NEW t \in Threads, InHand(t), fdTable[newsockfd[t]] = c PROVE FALSE
    BY <1>2, <2>1 DEF InHand, Live, TalkInv, OwnDescriptor
  <2> QED BY <2>1 DEF Busy
<1>8. \A d \in Clients : (Quiet(d)' <=> Quiet(d)) /\ (d # c /\ Open(d)' => Open(d))
  BY <1>1, <1>3 DEF Quiet, Open
<1>9. Turns'
  BY <1>1, <1>2, <1>4, <1>6, <1>7, <1>8 DEF TalkInv, Turns
<1> QED BY <1>5, <1>6, <1>9 DEF TalkInv

\* Steps of a client with its connection: one line is sent when nothing is in flight, and
\* the answer leaves nothing behind.
LEMMA ConversationTalks ==
  ASSUME TalkInv, NEW c \in Clients,
         \/ \E line \in Lines \cup {"quit"} : SendLine(c, line)
         \/ Answer(c) \/ Die(c)
  PROVE  TalkInv'
<1>1. /\ UNCHANGED <<main, connectfd, fdTable, backlog, pc, newsockfd, sock>>
      /\ cpc' = [cpc EXCEPT ![c] = cpc'[c]] /\ cpc'[c] \in ClientPlaces \ {"off"}
      /\ cpc[c] \in {"gets", "recv"}
      /\ cpc'[c] = "gets" => toClient' = [toClient EXCEPT ![c] = << >>] /\ toServer' = toServer /\ cpc[c] = "recv"
                             /\ (toClient[c] # << >> \/ ~ServerOpen(c))
      /\ cpc'[c] = "recv" => cpc[c] = "gets"
      /\ \/ UNCHANGED <<toServer, toClient>>
         \/ /\ cpc[c] = "gets" /\ ServerOpen(c) /\ UNCHANGED toClient
            /\ \E line \in Messages : toServer' = [toServer EXCEPT ![c] = Append(@, line)]
         \/ cpc'[c] = "gets"
  <2>1. ASSUME NEW line \in Lines \cup {"quit"}, SendLine(c, line)
        PROVE  /\ cpc[c] = "gets" /\ UNCHANGED <<main, connectfd, fdTable, backlog, pc, newsockfd, sock, toClient>>
               /\ \E w \in {"quit", "recv", "dead"} : cpc' = [cpc EXCEPT ![c] = w]
               /\ \/ UNCHANGED toServer
                  \/ ServerOpen(c) /\ line \in Messages /\ toServer' = [toServer EXCEPT ![c] = Append(@, line)]
    <3>1. line \in Messages
      BY <2>1, ServerAssumption DEF Messages
    <3>2. toServer = [toServer EXCEPT ![c] = toServer[c]]
      BY DEF TalkInv, TalkTypes
    <3> QED BY <2>1, <3>1, <3>2 DEF SendLine, serverVars, threadVars
  <2>2. CASE \E line \in Lines \cup {"quit"} : SendLine(c, line)
    BY <2>1, <2>2 DEF TalkInv, TalkTypes, ClientPlaces
  <2>3. CASE Answer(c)
    BY <2>3 DEF Answer, serverVars, threadVars, TalkInv, TalkTypes, ClientPlaces
  <2>4. CASE Die(c)
    BY <2>4 DEF Die, ClientOpen, serverVars, threadVars, netVars, TalkInv, TalkTypes, ClientPlaces
  <2> QED BY <2>2, <2>3, <2>4
<1>2. ServerOpen(c) <=> Open(c)
  BY OpenToServer
<1>3. OwnDescriptor' /\ HandedAlone' /\ \A d \in Clients : (Busy(d)' <=> Busy(d)) /\ (Open(d)' <=> Open(d))
  BY <1>1, ClientStep DEF Open
<1>4. /\ \A d \in Clients \ {c} : cpc'[d] = cpc[d] /\ toServer'[d] = toServer[d] /\ toClient'[d] = toClient[d]
      /\ cpc' \in [Clients -> ClientPlaces]
      /\ toServer' \in [Clients -> Short] /\ toClient' \in [Clients -> Short]
      /\ toServer'[c] = << >> \/ toClient'[c] = << >>
  <2>1. cpc' \in [Clients -> ClientPlaces] /\ \A d \in Clients \ {c} : cpc'[d] = cpc[d]
    BY <1>1 DEF TalkInv, TalkTypes
  <2>2. CASE UNCHANGED <<toServer, toClient>>
    BY <2>1, <2>2 DEF TalkInv, TalkTypes, Turns
  <2>3. CASE /\ cpc[c] = "gets" /\ ServerOpen(c) /\ UNCHANGED toClient
             /\ \E line \in Messages : toServer' = [toServer EXCEPT ![c] = Append(@, line)]
    <3>1. Quiet(c)
      BY <1>2, <2>3 DEF TalkInv, Turns
    <3>2. PICK line \in Messages : toServer' = [toServer EXCEPT ![c] = << line >>]
      <4>1. \A line \in Messages : Append(<< >>, line) = << line >>
        OBVIOUS
      <4> QED BY <2>3, <3>1, <4>1 DEF Quiet
    <3>3. << line >> \in Short
      BY DEF Short
    <3> QED BY <2>1, <2>3, <3>1, <3>2, <3>3 DEF TalkInv, TalkTypes, Quiet
  <2>4. CASE cpc'[c] = "gets"
    <3>1. << >> \in Short
      BY DEF Short
    <3> QED BY <1>1, <2>1, <2>4, <3>1 DEF TalkInv, TalkTypes
  <2> QED BY <1>1, <2>2, <2>3, <2>4
<1>5. TalkTypes' /\ OnePlace'
  BY <1>1, <1>4 DEF TalkInv, TalkTypes, OnePlace
<1>6. Turns'
  <2> SUFFICES ASSUME NEW d \in Clients
               PROVE  /\ toServer'[d] = << >> \/ toClient'[d] = << >>
                      /\ cpc'[d] = "off" => Quiet(d)'
                      /\ Open(d) /\ cpc'[d] = "gets" => Quiet(d)' /\ ~Busy(d)
                      /\ Open(d) /\ cpc'[d] = "recv" /\ Busy(d) => Quiet(d)'
    BY <1>3 DEF Turns
  <2>1. CASE d # c
    BY <1>4, <2>1 DEF TalkInv, Turns, Quiet
  <2>2. CASE d = c
    <3>1. Open(d) /\ cpc'[d] = "gets" => Quiet(d)' /\ ~Busy(d)
      <4> SUFFICES ASSUME Open(d), cpc'[d] = "gets" PROVE Quiet(d)' /\ ~Busy(d)
        OBVIOUS
      <4>1. /\ toClient[c] # << >> /\ cpc[c] = "recv" /\ toServer'[c] = toServer[c]
            /\ toClient'[c] = << >>
        BY <1>1, <1>2, <2>2 DEF TalkInv, TalkTypes
      <4> QED BY <2>2, <4>1 DEF TalkInv, Turns, Quiet
    <3>2. ~(Open(d) /\ cpc'[d] = "recv" /\ Busy(d))
      BY <1>1, <2>2 DEF TalkInv, Turns
    <3> QED BY <1>1, <1>4, <2>2, <3>1, <3>2
  <2> QED BY <2>1, <2>2
<1> QED BY <1>3, <1>5, <1>6 DEF TalkInv

LEMMA TalkStep ==
  TalkInv /\ ReadBeforeAccept /\ ReadBeforeAccept' /\ [Next]_vars => TalkInv'
<1> SUFFICES ASSUME TalkInv, ReadBeforeAccept, ReadBeforeAccept', [Next]_vars
             PROVE  TalkInv'
  OBVIOUS
<1>1. CASE Main
  BY <1>1, AcceptTalks, HandOverTalks DEF Main
<1>2. ASSUME NEW t \in Threads, Thread(t) PROVE TalkInv'
  <2>1. CASE Start(t) \/ Recv(t) \/ Lock(t) \/ CheckPlace(t) \/ LoadDec(t) \/ Release(t)
    BY <2>1, LocalStepTalks
  <2>2. CASE Serve(t) \/ Wait(t)
    BY <2>2, ReplyTalks, KilledTalks
  <2> QED BY <1>2, <2>1, <2>2, RecvReturnTalks, CloseTalks DEF Thread
<1>3. ASSUME NEW c \in Clients, User(c) \/ Answer(c) PROVE TalkInv'
  BY <1>3, ConnectTalks, ConversationTalks DEF User
<1>4. CASE UNCHANGED vars
  <2>1. /\ UNCHANGED <<main, connectfd, fdTable, backlog, cpc, pc, newsockfd, sock, toServer, toClient>>
    BY <1>4 DEF vars, serverVars, threadVars, netVars
  <2>2. \A c \in Clients : (Quiet(c)' <=> Quiet(c)) /\ (Open(c)' <=> Open(c))
    BY <2>1 DEF Quiet, Open
  <2>3. OwnDescriptor' /\ HandedAlone' /\ \A c \in Clients : Busy(c)' <=> Busy(c)
    BY <2>1, ClientStep
  <2>4. TalkTypes' /\ OnePlace'
    BY <2>1 DEF TalkInv, TalkTypes, OnePlace
  <2> QED BY <2>1, <2>2, <2>3, <2>4 DEF TalkInv, Turns
<1> QED BY <1>1, <1>2, <1>3, <1>4 DEF Next

\* As long as every thread has read connectfd before main() accepts the next connection, at
\* most one message of a connection is in flight: ":q" is never glued to another message,
\* and no client takes an old answer for a new one.
THEOREM OneMessageAtATime == Spec => OneInFlight
<1>1. TalkInv => \A c \in Clients : Len(toServer[c]) + Len(toClient[c]) <= 1
  <2> SUFFICES ASSUME TalkInv, NEW c \in Clients
               PROVE  Len(toServer[c]) + Len(toClient[c]) <= 1
    OBVIOUS
  <2>1. \A s \in Short : Len(s) \in {0, 1} /\ (s = << >> => Len(s) = 0)
    BY DEF Short
  <2>2. toServer[c] \in Short /\ toClient[c] \in Short /\ (toServer[c] = << >> \/ toClient[c] = << >>)
    BY DEF TalkInv, TalkTypes, Turns
  <2>3. \/ Len(toServer[c]) = 0 /\ Len(toClient[c]) \in {0, 1}
        \/ Len(toServer[c]) \in {0, 1} /\ Len(toClient[c]) = 0
    BY <2>1, <2>2, Zenon
  <2>4. \A a, b : a = 0 /\ b \in {0, 1} => a + b <= 1 /\ b + a <= 1
    OBVIOUS
  <2> QED BY <2>3, <2>4, Zenon
<1> QED BY <1>1, TalkStart, TalkStep, PTL DEF Spec, OneInFlight

=============================================================================
