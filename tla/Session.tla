------------------------------- MODULE Session -------------------------------
(***************************************************************************)
(* A client and the server together, connected by Sockets.                 *)
(***************************************************************************)
EXTENDS Client, Connection

sessionVars == <<netVars, clientVars, serverVars>>

Init == NetInit /\ ClientInit /\ ServerInit

(* connect needs a server that listens; without one it throws, and main    *)
(* ends.                                                                   *)
OpenFails ==
  /\ running
  /\ mpc = "connect"
  /\ ~alive
  /\ running' = FALSE
  /\ UNCHANGED <<netVars, mainVars, readVars, writeVars>>

Next ==
  \/ Open /\ UNCHANGED serverVars
  \/ Connected /\ alive /\ UNCHANGED serverVars
  \/ OpenFails /\ UNCHANGED serverVars
  \/ Close /\ UNCHANGED serverVars
  \/ Quit /\ UNCHANGED serverVars
  \/ SendCommand /\ UNCHANGED serverVars
  \/ SendNothing /\ UNCHANGED serverVars
  \/ Image /\ UNCHANGED serverVars
  \/ Stop /\ UNCHANGED serverVars
  \/ Joined /\ UNCHANGED serverVars
  \/ QuitJoined /\ UNCHANGED serverVars
  \/ MainWrite /\ UNCHANGED serverVars
  \/ Poll /\ UNCHANGED serverVars
  \/ LoadCheck /\ UNCHANGED serverVars
  \/ LoadLock /\ UNCHANGED serverVars
  \/ LoadWrite /\ UNCHANGED serverVars
  \/ AnswerArrives /\ UNCHANGED serverVars
  \/ AnswerEnds /\ UNCHANGED serverVars
  \/ RunReturns /\ UNCHANGED serverVars
  \/ AnswerOverflow /\ UNCHANGED serverVars
  \/ TakePart /\ UNCHANGED serverVars
  \/ ReadAnswer /\ UNCHANGED serverVars
  \/ ReadAnswerFails /\ UNCHANGED serverVars
  \/ HandleAnswer /\ UNCHANGED serverVars
  \/ PutFails /\ UNCHANGED serverVars
  \/ Exit /\ UNCHANGED clientVars
  \/ \E c \in Conns :
       \/ Accept(c) /\ UNCHANGED clientVars
       \/ Arrive(c) /\ UNCHANGED clientVars
       \/ ArriveEnd(c) /\ UNCHANGED clientVars
       \/ ArriveDeaf(c) /\ UNCHANGED clientVars
       \/ Overflow(c) /\ UNCHANGED clientVars
       \/ Take(c) /\ UNCHANGED clientVars
       \/ SyncRead(c) /\ UNCHANGED clientVars
       \/ EntriesLate(c) /\ UNCHANGED clientVars
       \/ CutOff(c) /\ UNCHANGED clientVars
       \/ BadSize(c) /\ UNCHANGED clientVars
       \/ HandleCommand(c) /\ UNCHANGED clientVars
       \/ HandleChunk(c) /\ UNCHANGED clientVars
       \/ HandleShutdown(c) /\ UNCHANGED clientVars
       \/ HandleStatus(c) /\ UNCHANGED clientVars
       \/ WriteAnswer(c) /\ UNCHANGED clientVars
       \/ SendFind(c) /\ UNCHANGED clientVars
       \/ SendEnd(c) /\ UNCHANGED clientVars
       \/ SendLock(c) /\ UNCHANGED clientVars
       \/ SendWrite(c) /\ UNCHANGED clientVars
       \/ WriteFails(c) /\ UNCHANGED clientVars

Spec == Init /\ [][Next]_sessionVars

(* Threads run.  The user types or not.  A mutex is held only while its    *)
(* holder writes, and each thread writes finitely often.                   *)
Fairness ==
  /\ WF_sessionVars(IoThread /\ UNCHANGED clientVars)
  /\ \A c \in Conns : WF_sessionVars(SendThread(c) /\ UNCHANGED clientVars)
  /\ WF_sessionVars((MainThread \/ (Connected /\ alive) \/ OpenFails) /\ UNCHANGED serverVars)
  /\ WF_sessionVars(LoadThread /\ UNCHANGED serverVars)
  /\ WF_sessionVars(ClientIoThread /\ UNCHANGED serverVars)

FairSpec == Spec /\ Fairness
-----------------------------------------------------------------------------
TypeOK ==
  /\ serving \in {0} \cup Conns
  /\ \A c \in Conns :
       /\ cEnd[c] \in {"none", "open", "closed"}
       /\ sEnd[c] \in {"none", "backlog", "open", "closed"}
       /\ mutex[c] \in {"none", "io", "send"}
       /\ \A w \in Writers : pending[c][w] # <<>> => mutex[c] = w
       /\ spc[c] \in {"off", "loop", "send"}
       /\ armed[c] \/ serving = c => sEnd[c] \in {"open", "closed"}
  /\ depth \in 0 .. ServerStack + 1
  /\ mpc \in {"idle", "connect", "write", "poll", "join", "quit", "inline"}
  /\ iopc \in {"none", "run", "read"}
  /\ cdepth \in 0 .. ClientStack + 1
  /\ cmutex \in {"none", "main", "load"}
  /\ conn \in {0} \cup Conns

(* The commands of the client are handled whole, in the order in which     *)
(* they were written, each once, although two threads write them, TCP cuts *)
(* them anywhere and the handler takes them piece by piece                 *)
(* (Client.cpp:85-173, Server.cpp:16-130), on the first connection.        *)
Up == INSTANCE Wire WITH Lines <- {1},
                          sent <- [c \in {1} |-> written[c]],
                          taken <- [c \in {1} |-> handled[c]]
CommandsArrive == Up!Spec

(* So are those on a later connection, unless one before it was left while *)
(* the load thread was in the middle of a chunk, which then goes in part   *)
(* to each of two connections (Client.cpp:61-62, 152-159, 237).            *)
ChunkCut(c) ==
  \E d \in 1 .. c - 1 : \E k \in DOMAIN written[d] :
    k > Len(handled[d]) /\ written[d][k].kind = "chunk"

LaterInStep ==
  \A c \in Conns \ {1} : IsPrefix(handled[c], written[c]) \/ ChunkCut(c)

(* The answers of the server arrive in the same way, although its io       *)
(* thread and its send thread write them (Server.cpp:37-42, 138-145), on   *)
(* the first connection.                                                   *)
Down == INSTANCE Wire WITH Lines <- {1},
                            sent <- [c \in {1} |-> replied[c]],
                            taken <- [c \in {1} |-> received[c]]
AnswersArrive == Down!Spec

(* When the status command prints, the answer to its own request is there, *)
(* not an older one (Client.cpp:49-52, 90-92).                             *)
Count(s, kind) == Cardinality({k \in DOMAIN s : s[k].kind = kind})

StatusFresh ==
  [][mpc = "poll" /\ mpc' # "poll" /\ conn = 1 /\ connected =>
       Count(received[1], "answer") = Count(written[1], "status")]_sessionVars

(* A status request of the first connection is answered as long as the     *)
(* server and the client run and the stream is sound (Client.cpp:49,       *)
(* 84-95).  It is not so for later connections: disconnect stops the io    *)
(* service for ever.                                                       *)
StatusAnswered ==
  (mpc = "poll" /\ conn = 1 /\ connected)
     ~> (mpc # "poll" \/ ~alive \/ ~running \/ deaf[1])

(* SHUTDOWN ends the server, although other commands, answers and chunks   *)
(* are under way (Server.cpp:117-121, Main.cpp:52-53), unless the rest of  *)
(* a cut chunk comes before it or the client closes the connection behind  *)
(* it.                                                                     *)
ShutdownEnds ==
  \A c \in Conns :
    (running /\ \E k \in DOMAIN written[c] : written[c][k].kind = "shutdown")
       ~> (~alive \/ ~running \/ deaf[c] \/ ChunkCut(c) \/ cEnd[c] = "closed")

(* As long as the clients keep their connections and no sequence is cut by *)
(* TCP, the server ends in one other way only: no write of a thread fails, *)
(* and no size is made up for a command that was cut off (Server.cpp:      *)
(* 75-77, 134-144, 152-155), but the commands that come before the handler *)
(* has found its input empty once can fill the stack (Server.cpp:129,      *)
(* 188), and there are as many of them as it has calls.                    *)
SurvivesWhileConnected ==
  ~alive => \/ stopped
            \/ \E c \in Conns : cEnd[c] = "closed" \/ deaf[c]
            \/ depth > ServerStack /\ Len(handled[serving]) >= ServerStack

(* The client ends by quit, or because the server has ended, except in two *)
(* ways: the load thread writes while the main thread connects             *)
(* (Client.cpp:61-62, 237), and answers that come all at once fill the     *)
(* stack (Client.cpp:232, 266).  It is never cut off while the server runs *)
(* (Client.cpp:236, 246).                                                  *)
ClientStays ==
  ~running => \/ mpc = "quit" \/ ~alive
              \/ mpc = "connect" /\ cpending["load"] # <<>>
              \/ cdepth > ClientStack /\ Len(received[conn]) >= ClientStack
=============================================================================
