----------------------------- MODULE Connection -----------------------------
(***************************************************************************)
(* The server's side of the connections (tcp_connection, server): how the  *)
(* io thread accepts them, reads commands from them as they trickle in,    *)
(* and meets their end; how the send threads write chunks to them; how     *)
(* SHUTDOWN ends the process.  What the commands do to the tables and the  *)
(* buffer is in ChunkServer; here a chunk that has come in may be found by *)
(* a send thread from then on, or there was no slot for it.                *)
(***************************************************************************)
EXTENDS Sockets

CONSTANT
  ServerStack  \* how many calls of handle_read the io thread has stack for

ASSUME ServerStackAssumption == ServerStack \in Nat \ {0}

VARIABLES
  alive,    \* the server process runs
  stopped,  \* io_service_ has been stopped
  serving,  \* the connection whose handler the io thread is in, or 0
  depth,    \* how many calls of handle_read the io thread is in
  armed,    \* armed[c]: an async_read is outstanding
  sbuf,     \* sbuf[c]: input_buf_
  got,      \* got[c]: the parts of a command that the handler has taken
  handled,  \* handled[c]: the commands handled so far
  deaf,     \* deaf[c]: the stream input_ has failed
  mutex,    \* mutex[c]: who holds output_mutex_: io, send or none
  pending,  \* pending[c][w]: the parts w still has to write
  replied,  \* replied[c]: the messages w has begun to write, in order
  inside,   \* the chunks in the buffer
  spc,      \* spc[c]: where the send thread is: off, loop or send
  held      \* held[c]: the chunk it has taken

ioVars == <<stopped, serving, depth, armed, sbuf, got, handled, deaf>>
outVars == <<mutex, pending, replied, spc, held>>
serverVars == <<alive, ioVars, outVars, inside>>

Writers == {"io", "send"}

ServerInit ==
  /\ alive = TRUE
  /\ stopped = FALSE
  /\ serving = 0
  /\ depth = 0
  /\ armed = [c \in Conns |-> FALSE]
  /\ sbuf = [c \in Conns |-> <<>>]
  /\ got = [c \in Conns |-> <<>>]
  /\ handled = [c \in Conns |-> <<>>]
  /\ deaf = [c \in Conns |-> FALSE]
  /\ mutex = [c \in Conns |-> "none"]
  /\ pending = [c \in Conns |-> [w \in Writers |-> <<>>]]
  /\ replied = [c \in Conns |-> <<>>]
  /\ inside = {}
  /\ spc = [c \in Conns |-> "off"]
  /\ held = [c \in Conns |-> HalfChunk]

(* An uncaught exception, a crash, or the end of main.                     *)
Die ==
  /\ alive' = FALSE
  /\ sEnd' = AllClosed(sEnd)
  /\ down' \in CutShort(down)
  /\ UNCHANGED <<up, cEnd, ioVars, outVars, inside>>
-----------------------------------------------------------------------------
(* The io thread between two handlers.                                     *)
Free == alive /\ serving = 0 /\ ~stopped

(* start_handling: the send thread is started, and the first command is    *)
(* waited for.                                                             *)
StartHandling(c) ==
  /\ spc' = [spc EXCEPT ![c] = "loop"]
  /\ armed' = [armed EXCEPT ![c] = TRUE]

(* handle_accept.  The next connection can be accepted.                    *)
Accept(c) ==
  /\ Free
  /\ sEnd[c] = "backlog"
  /\ sEnd' = [sEnd EXCEPT ![c] = "open"]
  /\ StartHandling(c)
  /\ UNCHANGED <<up, down, cEnd, alive, stopped, serving, depth, sbuf, got,
                 handled, deaf, mutex, pending, replied, held, inside>>

(* The parts that a read takes from the socket.                            *)
Receive(c) ==
  \E n \in Some(up[c]) :
    /\ sbuf' = [sbuf EXCEPT ![c] = @ \o First(n, up[c])]
    /\ up' = [up EXCEPT ![c] = Rest(n, @)]

(* An async_read is completed and its handler called.                      *)
Arrive(c) ==
  /\ Free
  /\ armed[c]
  /\ ~deaf[c]
  /\ Receive(c)
  /\ serving' = c
  /\ depth' = 1
  /\ armed' = [armed EXCEPT ![c] = FALSE]
  /\ UNCHANGED <<down, cEnd, sEnd, alive, stopped, got, handled, deaf, outVars,
                 inside>>

(* It ends with an error: check_error closes the socket, and the handler   *)
(* does not listen again.  Mutant: the handler takes an empty socket for   *)
(* one at its end.                                                         *)
Ended(c) == up[c] = <<>> /\ cEnd[c] = "closed"

HangUp(c) ==
  /\ sEnd' = [sEnd EXCEPT ![c] = "closed"]
  /\ armed' = [armed EXCEPT ![c] = FALSE]
  /\ UNCHANGED <<up, down, cEnd, alive, stopped, serving, depth, sbuf, got,
                 handled, deaf, outVars, inside>>

ArriveEndWhenEmpty(c) == Free /\ armed[c] /\ up[c] = <<>> /\ HangUp(c)
ArriveEnd(c) == Free /\ armed[c] /\ Ended(c) /\ HangUp(c)

(* The handler of a stream that has failed reads nothing, so that bytes    *)
(* remain, async_read calls it at once, and it calls itself until the      *)
(* stack is full.                                                          *)
ArriveDeaf(c) ==
  /\ Free
  /\ armed[c]
  /\ deaf[c]
  /\ up[c] # <<>>
  /\ Die
-----------------------------------------------------------------------------
(* handle_read, while it does not write.  It and async_read call each      *)
(* other (see Listen), so that the stack may be full when a call begins.   *)
Serving(c) ==
  /\ alive
  /\ serving = c
  /\ depth <= ServerStack
  /\ pending[c]["io"] = <<>>

Overflow(c) ==
  /\ alive
  /\ serving = c
  /\ depth > ServerStack
  /\ Die

Take(c) ==
  /\ Serving(c)
  /\ got[c] = <<>> \/ IsOpen(got[c])
  /\ sbuf[c] # <<>>
  /\ got' = [got EXCEPT ![c] = Append(@, Head(sbuf[c]))]
  /\ sbuf' = [sbuf EXCEPT ![c] = Tail(@)]
  /\ UNCHANGED <<netVars, alive, stopped, serving, depth, armed, handled, deaf,
                 outVars, inside>>

(* The handler needs more than it has, except that it does not wait for    *)
(* the entries of a SEQUENCE.  Mutant: it waits for no second part.        *)
NoWait(ps) == ps[1].msg.kind = "seq" /\ ps = First(2, PartsOf(ps[1].msg))

Needs(c) == Serving(c) /\ IsOpen(got[c]) /\ sbuf[c] = <<>>

SyncRead(c) ==
  /\ Needs(c)
  /\ ~NoWait(got[c])
  /\ Receive(c)
  /\ UNCHANGED <<down, cEnd, sEnd, alive, stopped, serving, depth, armed, got,
                 handled, deaf, outVars, inside>>

(* After a handler: async_read waits for the next command, or calls the    *)
(* handler for one that is there, one call deeper.  Mutant: it forgets to  *)
(* wait.                                                                   *)
CallAgain(c) ==
  IF sbuf'[c] = <<>>
  THEN serving' = 0 /\ depth' = 0
  ELSE serving' = c /\ depth' = depth + 1

ListenForgotten(c) == CallAgain(c) /\ UNCHANGED armed
Listen(c) == CallAgain(c) /\ armed' = [armed EXCEPT ![c] = sbuf'[c] = <<>>]

Forget(c) == got' = [got EXCEPT ![c] = <<>>]

(* The entries of a SEQUENCE are not there yet: the stream fails and reads *)
(* nothing from then on.                                                   *)
EntriesLate(c) ==
  /\ Needs(c)
  /\ NoWait(got[c]) \/ IsTorn(got[c])
  /\ deaf' = [deaf EXCEPT ![c] = TRUE]
  /\ Forget(c)
  /\ UNCHANGED <<netVars, alive, stopped, sbuf, handled, outVars, inside>>
  /\ Listen(c)

(* The connection ends inside a command: sync_read closes the socket, but  *)
(* the handler goes on with what it has.  Half a chunk is put into the     *)
(* buffer.                                                                 *)
CutOff(c) ==
  /\ Needs(c)
  /\ ~NoWait(got[c])
  /\ Ended(c)
  /\ sEnd' = [sEnd EXCEPT ![c] = "closed"]
  /\ inside' \in IF IsTorn(got[c]) \/ got[c][1].msg.kind = "chunk"
                 THEN {inside, inside \cup {HalfChunk}}
                 ELSE {inside}
  /\ Forget(c)
  /\ UNCHANGED <<up, down, cEnd, alive, stopped, sbuf, handled, deaf, outVars>>
  /\ Listen(c)

(* The size of a PARAMETER that is cut off, or made up from torn parts, may *)
(* be anything: there is no memory for it.                                 *)
BadSize(c) ==
  /\ Serving(c)
  /\ \/ IsTorn(got[c])
     \/ /\ Needs(c)
        /\ Ended(c)
        /\ got[c][1].msg.kind = "param"
        /\ got[c] = First(1, PartsOf(got[c][1].msg))
  /\ Die

(* The command is there as a whole.  Torn parts may be any command.        *)
Whole(c, kinds) ==
  /\ Serving(c)
  /\ IsWhole(got[c])
  /\ IsTorn(got[c]) \/ MessageOf(got[c]).kind \in kinds

Handled(c) ==
  /\ handled' = [handled EXCEPT ![c] = Append(@, MessageOf(got[c]))]
  /\ Forget(c)
  /\ \E left \in Leftovers(got[c]) : sbuf' = [sbuf EXCEPT ![c] = left \o @]
  /\ Listen(c)

HandleCommand(c) ==
  /\ Whole(c, {"load", "run", "param", "seq"})
  /\ Handled(c)
  /\ UNCHANGED <<netVars, alive, stopped, deaf, outVars, inside>>

HandleChunk(c) ==
  /\ Whole(c, {"chunk"})
  /\ Handled(c)
  /\ inside' \in {inside, inside \cup {ChunkOf(got[c])}}
  /\ UNCHANGED <<netVars, alive, stopped, deaf, outVars>>

(* server::stop.  What is buffered is handled before the io thread ends.   *)
HandleShutdown(c) ==
  /\ Whole(c, {"shutdown"})
  /\ Handled(c)
  /\ stopped' = TRUE
  /\ UNCHANGED <<netVars, alive, deaf, outVars, inside>>

(* The output mutex of a connection, for io and send thread.  Mutant:      *)
(* nobody waits.                                                           *)
LockAlways(c) == TRUE
Lock(c) == mutex[c] = "none"

Begin(c, w, m) ==
  /\ Lock(c)
  /\ mutex' = [mutex EXCEPT ![c] = w]
  /\ pending' = [pending EXCEPT ![c][w] = PartsOf(m)]
  /\ replied' = [replied EXCEPT ![c] = Append(@, m)]

HandleStatus(c) ==
  /\ Whole(c, {"status"})
  /\ Begin(c, "io", [kind |-> "answer", id |-> MessageOf(got[c]).id])
  /\ UNCHANGED <<netVars, alive, ioVars, spc, held, inside>>

(* sync_write writes some parts, as many as the socket takes.  Those to a  *)
(* client that is gone vanish.                                             *)
Write(c, w) ==
  /\ alive
  /\ sEnd[c] = "open"
  /\ \E n \in Some(pending[c][w]) :
       /\ down' = [down EXCEPT ![c] =
                     IF cEnd[c] = "open" THEN @ \o First(n, pending[c][w]) ELSE @]
       /\ pending' = [pending EXCEPT ![c][w] = Rest(n, @)]
       /\ mutex' = [mutex EXCEPT ![c] = IF n = Len(pending[c][w]) THEN "none" ELSE @]
       /\ UNCHANGED <<up, cEnd, sEnd>>

WriteAnswer(c) ==
  /\ Write(c, "io")
  /\ IF pending'[c]["io"] = <<>>
     THEN Handled(c)
     ELSE UNCHANGED <<serving, depth, armed, sbuf, got, handled>>
  /\ UNCHANGED <<alive, stopped, deaf, replied, spc, held, inside>>

(* An error is thrown, and nobody catches it.                              *)
Broken(c) == sEnd[c] = "closed" \/ cEnd[c] = "closed"

WriteFails(c) ==
  /\ alive
  /\ \E w \in Writers : pending[c][w] # <<>>
  /\ Broken(c)
  /\ Die

(* The process ends when the io thread has returned, whatever the send     *)
(* threads do.                                                             *)
IoThreadReturned == stopped /\ serving = 0

Exit ==
  /\ alive
  /\ IoThreadReturned
  /\ Die
-----------------------------------------------------------------------------
(* handle_write, the send thread.  It ends when the io thread has closed   *)
(* the socket; it may take a chunk of any connection.                      *)
SendFind(c) ==
  /\ alive
  /\ spc[c] = "loop"
  /\ sEnd[c] = "open"
  /\ \E m \in inside :
       /\ inside' = inside \ {m}
       /\ held' = [held EXCEPT ![c] = m]
  /\ spc' = [spc EXCEPT ![c] = "send"]
  /\ UNCHANGED <<netVars, alive, ioVars, mutex, pending, replied>>

SendEnd(c) ==
  /\ alive
  /\ spc[c] = "loop"
  /\ sEnd[c] = "closed"
  /\ spc' = [spc EXCEPT ![c] = "off"]
  /\ UNCHANGED <<netVars, alive, ioVars, mutex, pending, replied, held, inside>>

SendLock(c) ==
  /\ alive
  /\ spc[c] = "send"
  /\ pending[c]["send"] = <<>>
  /\ Begin(c, "send", held[c])
  /\ UNCHANGED <<netVars, alive, ioVars, spc, held, inside>>

SendWrite(c) ==
  /\ Write(c, "send")
  /\ spc' = [spc EXCEPT ![c] = IF pending'[c]["send"] = <<>> THEN "loop" ELSE @]
  /\ UNCHANGED <<alive, ioVars, replied, held, inside>>
-----------------------------------------------------------------------------
IoThread ==
  \/ \E c \in Conns :
       \/ Accept(c) \/ Arrive(c) \/ ArriveEnd(c) \/ ArriveDeaf(c)
       \/ Overflow(c) \/ Take(c) \/ SyncRead(c) \/ EntriesLate(c) \/ CutOff(c)
       \/ BadSize(c)
       \/ HandleCommand(c) \/ HandleChunk(c) \/ HandleShutdown(c)
       \/ HandleStatus(c) \/ WriteAnswer(c)
  \/ Exit

SendThread(c) == SendFind(c) \/ SendEnd(c) \/ SendLock(c) \/ SendWrite(c)
=============================================================================
