------------------------------- MODULE Client -------------------------------
(***************************************************************************)
(* The client program (CSApp.cpp) on the client library (Client.cpp): the  *)
(* user types commands; the main thread connects, sends, polls for the     *)
(* status, disconnects and quits; the load thread of an image sends its    *)
(* chunks; the io thread reads what the server answers.  The threads share *)
(* connected_, the status flag, and the output under a mutex.              *)
(*                                                                         *)
(* Not modelled: a second `open' while the first connection is open, two   *)
(* images at the same time, and what a chunk does to its image (Image).    *)
(***************************************************************************)
EXTENDS Sockets

CONSTANTS
  Scripts,     \* the sequences of commands that users type
  ClientStack  \* how many calls of handle_read a thread has stack for

(* What can be typed: the command line knows no other commands that need   *)
(* the connection.  An image is given by its chunks.                       *)
Requests == [kind : {"status", "load", "run", "param", "seq", "shutdown"}, id : Nat]
Chunks == [kind : {"chunk"}, id : Nat]

Inputs ==
  [cmd : {"open", "close", "quit"}]
    \cup [cmd : {"send"}, msg : Requests]
    \cup [cmd : {"image"}, chunks : Seq(Chunks)]

ASSUME ScriptsAssumption == Scripts \subseteq Seq(Inputs)
ASSUME ClientStackAssumption == ClientStack \in Nat \ {0}

VARIABLES
  running,    \* the client process runs
  script,     \* the commands still to be typed
  mpc,        \* where the main thread is
  conn,       \* the connection of socket_, 0 before the first
  connected,  \* connected_
  serviceStopped,  \* the io_service_ has been stopped; it is never reset
  iopc,       \* the io thread: none, run (between handlers) or read
  cdepth,     \* how many calls of handle_read it is in
  listening,  \* an async_read is outstanding
  cbuf,       \* input_buf_
  cgot,       \* the parts of an answer that the handler has taken
  received,   \* received[c]: the answers handled on connection c
  flag,       \* server_status_received_
  cmutex,     \* who holds output_mutex_: main, load or none
  cpending,   \* cpending[w]: the parts w still has to write
  written,    \* written[c]: the commands that were begun to be written
  chunks,     \* the chunks the load thread still has to send
  lpc         \* where it is: check, lock or write

mainVars == <<script, mpc, conn, connected, serviceStopped>>
readVars == <<iopc, cdepth, listening, cbuf, cgot, received, flag>>
writeVars == <<cmutex, cpending, written, chunks, lpc>>
clientVars == <<running, mainVars, readVars, writeVars>>

(* The constructor leaves the status flag uninitialised.                   *)
ClientInit ==
  /\ running = TRUE
  /\ script \in Scripts
  /\ mpc = "idle"
  /\ conn = 0
  /\ connected = FALSE
  /\ serviceStopped = FALSE
  /\ iopc = "none"
  /\ cdepth = 0
  /\ listening = FALSE
  /\ cbuf = <<>>
  /\ cgot = <<>>
  /\ received = [c \in Conns |-> <<>>]
  /\ flag \in BOOLEAN
  /\ cmutex = "none"
  /\ cpending = [w \in {"main", "load"} |-> <<>>]
  /\ written = [c \in Conns |-> <<>>]
  /\ chunks = <<>>
  /\ lpc = "check"

(* The process ends: by quit, by an exception that main catches, or by one *)
(* in another thread, which nobody catches.                                *)
Leave ==
  /\ running' = FALSE
  /\ cEnd' = AllClosed(cEnd)
  /\ up' \in CutShort(up)
  /\ UNCHANGED <<down, sEnd, mainVars, readVars, writeVars>>
-----------------------------------------------------------------------------
(* The main thread.                                                        *)
Type(cmd) ==
  /\ running
  /\ mpc = "idle"
  /\ script # <<>>
  /\ Head(script).cmd = cmd
  /\ script' = Tail(script)

(* client::connect.  The old socket is closed, which loses what the server *)
(* has not read if there are answers that the client has not read; the new *)
(* one can be used when the server has answered.                           *)
Open ==
  /\ Type("open")
  /\ ~connected
  /\ conn < MaxConns
  /\ cEnd' = AllClosed(cEnd)
  /\ up' \in CutShort(up)
  /\ mpc' = "connect"
  /\ UNCHANGED <<down, sEnd, running, conn, connected, serviceStopped,
                 readVars, writeVars>>

(* The first read is armed, and a thread is started that runs the io       *)
(* service, which returns at once if it was stopped before.  What is left  *)
(* in input_buf_ from a connection before is handled first, by the main    *)
(* thread.                                                                 *)
Connected ==
  /\ running
  /\ mpc = "connect"
  /\ conn' = conn + 1
  /\ connected' = TRUE
  /\ cEnd' = [cEnd EXCEPT ![conn + 1] = "open"]
  /\ sEnd' = [sEnd EXCEPT ![conn + 1] = "backlog"]
  /\ IF cbuf = <<>>
     THEN mpc' = "idle" /\ iopc' = "run" /\ listening' = TRUE /\ UNCHANGED cdepth
     ELSE mpc' = "inline" /\ iopc' = "read" /\ listening' = FALSE /\ cdepth' = 1
  /\ UNCHANGED <<up, down, running, script, serviceStopped, cbuf, cgot, received,
                 flag, writeVars>>

(* client::disconnect: connected_ is cleared, the io service stopped, the  *)
(* io thread joined.  The socket stays open.                               *)
Disconnect(next) ==
  /\ connected' = FALSE
  /\ mpc' = next

Close ==
  /\ Type("close")
  /\ IF connected THEN Disconnect("join") ELSE UNCHANGED <<connected, mpc>>
  /\ UNCHANGED <<netVars, running, conn, serviceStopped, readVars, writeVars>>

Quit ==
  /\ Type("quit")
  /\ Disconnect("quit")
  /\ UNCHANGED <<netVars, running, conn, serviceStopped, readVars, writeVars>>

Stop ==
  /\ running
  /\ mpc \in {"join", "quit"}
  /\ conn > 0
  /\ ~serviceStopped
  /\ serviceStopped' = TRUE
  /\ UNCHANGED <<netVars, running, script, mpc, conn, connected, readVars,
                 writeVars>>

(* The io thread has ended.  send_shutdown disconnects with the mutex held.*)
(* Mutant: nobody waits for the thread.                                    *)
HasEndedAlways == TRUE
HasEnded == iopc = "none"

Joined ==
  /\ running
  /\ mpc = "join"
  /\ serviceStopped
  /\ HasEnded
  /\ mpc' = "idle"
  /\ cmutex' = IF cmutex = "main" THEN "none" ELSE cmutex
  /\ UNCHANGED <<netVars, running, script, conn, connected, serviceStopped,
                 readVars, cpending, written, chunks, lpc>>

QuitJoined ==
  /\ running
  /\ mpc = "quit"
  /\ HasEnded
  /\ Leave

(* The output mutex of the client.  Mutant: nobody waits.                  *)
ClientLockAlways == TRUE
ClientLock == cmutex = "none"

BeginWrite(w, m) ==
  /\ ClientLock
  /\ cmutex' = w
  /\ cpending' = [cpending EXCEPT ![w] = PartsOf(m)]
  /\ written' = [written EXCEPT ![conn] = Append(@, m)]

(* send_status_request clears the flag.  Mutant: it does not.              *)
FlagKept(m) == flag
FlagFor(m) == IF m.kind = "status" THEN FALSE ELSE flag

(* The functions send_* of the main thread, and what it does afterwards.   *)
(* Without a connection they return at once, but the main thread polls all *)
(* the same.                                                               *)
After(kind) == IF kind = "status" THEN "poll" ELSE "idle"

SendCommand ==
  /\ Type("send")
  /\ connected
  /\ BeginWrite("main", Head(script).msg)
  /\ flag' = FlagFor(Head(script).msg)
  /\ mpc' = "write"
  /\ UNCHANGED <<netVars, running, conn, connected, serviceStopped, iopc,
                 cdepth, listening, cbuf, cgot, received, chunks, lpc>>

SendNothing ==
  /\ Type("send")
  /\ ~connected
  /\ mpc' = After(Head(script).msg.kind)
  /\ UNCHANGED <<netVars, running, conn, connected, serviceStopped, readVars,
                 writeVars>>

(* sync_write.  Parts that are written to a connection that the server has *)
(* closed vanish.                                                          *)
PutParts(w) ==
  \E n \in Some(cpending[w]) :
    /\ cEnd[conn] = "open"
    /\ up' = [up EXCEPT ![conn] =
                IF sEnd[conn] = "closed" THEN @ ELSE @ \o First(n, cpending[w])]
    /\ cpending' = [cpending EXCEPT ![w] = Rest(n, @)]

MainWrite ==
  /\ running
  /\ mpc = "write"
  /\ PutParts("main")
  /\ LET m == cpending["main"][1].msg IN
       IF cpending'["main"] # <<>>
       THEN UNCHANGED <<mpc, connected, cmutex>>
       ELSE IF m.kind = "shutdown"
            THEN Disconnect("join") /\ UNCHANGED cmutex
            ELSE /\ mpc' = After(m.kind)
                 /\ cmutex' = "none"
                 /\ UNCHANGED connected
  /\ UNCHANGED <<down, cEnd, sEnd, running, script, conn, serviceStopped,
                 readVars, written, chunks, lpc>>

(* server_status polls.                                                    *)
Poll ==
  /\ running
  /\ mpc = "poll"
  /\ flag
  /\ mpc' = "idle"
  /\ UNCHANGED <<netVars, running, script, conn, connected, serviceStopped,
                 readVars, writeVars>>

(* A write to a connection that the server has lost throws, and so does    *)
(* one to a socket that the main thread has closed and not yet connected.  *)
PutFails ==
  /\ running
  /\ \E w \in {"main", "load"} : cpending[w] # <<>>
  /\ sEnd[conn] = "closed" \/ cEnd[conn] = "closed"
  /\ Leave
-----------------------------------------------------------------------------
(* The load thread of an image: client::send_chunk for each of its chunks. *)
Image ==
  /\ Type("image")
  /\ chunks = <<>>
  /\ chunks' = Head(script).chunks
  /\ UNCHANGED <<netVars, running, mpc, conn, connected, serviceStopped,
                 readVars, cmutex, cpending, written, lpc>>

LoadCheck ==
  /\ running
  /\ lpc = "check"
  /\ chunks # <<>>
  /\ IF connected
     THEN lpc' = "lock" /\ UNCHANGED chunks
     ELSE chunks' = Tail(chunks) /\ UNCHANGED lpc
  /\ UNCHANGED <<netVars, running, mainVars, readVars, cmutex, cpending, written>>

LoadLock ==
  /\ running
  /\ lpc = "lock"
  /\ BeginWrite("load", Head(chunks))
  /\ lpc' = "write"
  /\ UNCHANGED <<netVars, running, mainVars, readVars, chunks>>

LoadWrite ==
  /\ running
  /\ lpc = "write"
  /\ PutParts("load")
  /\ IF cpending'["load"] = <<>>
     THEN lpc' = "check" /\ chunks' = Tail(chunks) /\ cmutex' = "none"
     ELSE UNCHANGED <<lpc, chunks, cmutex>>
  /\ UNCHANGED <<down, cEnd, sEnd, running, mainVars, readVars, written>>
-----------------------------------------------------------------------------
(* The io thread.                                                          *)
Take1(c) ==
  \E n \in Some(down[c]) :
    /\ cbuf' = cbuf \o First(n, down[c])
    /\ down' = [down EXCEPT ![c] = Rest(n, @)]

(* A read is completed.  Its handler returns at once after disconnect.     *)
AnswerArrives ==
  /\ running
  /\ iopc = "run"
  /\ listening
  /\ ~serviceStopped
  /\ Take1(conn)
  /\ listening' = FALSE
  /\ IF connected
     THEN iopc' = "read" /\ cdepth' = 1
     ELSE UNCHANGED <<iopc, cdepth>>
  /\ UNCHANGED <<up, cEnd, sEnd, running, mainVars, cgot, received, flag, writeVars>>

ServerGone == conn > 0 /\ down[conn] = <<>> /\ sEnd[conn] = "closed"

AnswerEnds ==
  /\ running
  /\ iopc = "run"
  /\ listening
  /\ ~serviceStopped
  /\ ServerGone
  /\ listening' = FALSE
  /\ UNCHANGED <<netVars, running, mainVars, iopc, cdepth, cbuf, cgot, received,
                 flag, writeVars>>

(* io_service::run returns when it was stopped or nothing is outstanding.  *)
RunReturns ==
  /\ running
  /\ iopc = "run"
  /\ serviceStopped \/ ~listening
  /\ iopc' = "none"
  /\ UNCHANGED <<netVars, running, mainVars, cdepth, listening, cbuf, cgot,
                 received, flag, writeVars>>

(* client::handle_read, which calls itself through async_read like the     *)
(* server's.                                                               *)
Reading == running /\ iopc = "read" /\ cdepth <= ClientStack

AnswerOverflow ==
  /\ running
  /\ iopc = "read"
  /\ cdepth > ClientStack
  /\ Leave

TakePart ==
  /\ Reading
  /\ cgot = <<>> \/ IsOpen(cgot)
  /\ cbuf # <<>>
  /\ cgot' = Append(cgot, Head(cbuf))
  /\ cbuf' = Tail(cbuf)
  /\ UNCHANGED <<netVars, running, mainVars, iopc, cdepth, listening, received,
                 flag, writeVars>>

AnswerNeeds == Reading /\ IsOpen(cgot) /\ cbuf = <<>>

ReadAnswer ==
  /\ AnswerNeeds
  /\ Take1(conn)
  /\ UNCHANGED <<up, cEnd, sEnd, running, mainVars, iopc, cdepth, listening, cgot,
                 received, flag, writeVars>>

(* sync_read throws.                                                       *)
ReadAnswerFails ==
  /\ AnswerNeeds
  /\ ServerGone
  /\ Leave

(* The answer is there; torn parts may be an answer to STATUS.  The        *)
(* handler is called again if there is more, and returns at once after     *)
(* disconnect; otherwise a read is armed.                                  *)
HandleAnswer ==
  /\ Reading
  /\ IsWhole(cgot)
  /\ received' = [received EXCEPT ![conn] = Append(@, MessageOf(cgot))]
  /\ flag' \in IF IsTorn(cgot) THEN {flag, TRUE}
               ELSE {flag \/ MessageOf(cgot).kind = "answer"}
  /\ cgot' = <<>>
  /\ \E left \in Leftovers(cgot) : cbuf' = left \o cbuf
  /\ listening' = (cbuf' = <<>>)
  /\ IF connected /\ cbuf' # <<>>
     THEN cdepth' = cdepth + 1 /\ UNCHANGED iopc
     ELSE cdepth' = 0 /\ iopc' = "run"
  /\ mpc' = IF mpc = "inline" /\ cbuf' = <<>> THEN "idle" ELSE mpc
  /\ UNCHANGED <<netVars, running, script, conn, connected, serviceStopped,
                 writeVars>>
-----------------------------------------------------------------------------
MainThread == Stop \/ Joined \/ QuitJoined \/ MainWrite \/ Poll

LoadThread == LoadCheck \/ LoadLock \/ LoadWrite

ClientIoThread ==
  \/ AnswerArrives \/ AnswerEnds \/ RunReturns
  \/ AnswerOverflow \/ TakePart \/ ReadAnswer \/ ReadAnswerFails \/ HandleAnswer
=============================================================================
