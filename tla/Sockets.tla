------------------------------- MODULE Sockets -------------------------------
(***************************************************************************)
(* The TCP connections between the client and the server: what is in       *)
(* transit, and which ends are open.  protocol.h says which commands there *)
(* are; how many parts a command has is what its reader makes of it: a     *)
(* part is what one sync_read waits for.  TCP keeps the parts in order but *)
(* not together: a reader gets any number of them at a time.               *)
(*                                                                         *)
(* Not modelled: the limit of what can be in transit, which makes a writer *)
(* wait for its reader.                                                    *)
(***************************************************************************)
EXTENDS Naturals, Sequences, SequencesExt, FiniteSets

CONSTANT
  MaxConns  \* how often the client may open a connection

ASSUME MaxConnsAssumption == MaxConns \in Nat \ {0}

Conns == 1 .. MaxConns

(* The parts a command is read in.                                         *)
(* "answer" is what the server replies to STATUS.                          *)
Parts(kind) ==
  CASE kind \in {"status", "shutdown"} -> 1
    [] kind \in {"run", "chunk", "answer"} -> 2
    [] kind \in {"load", "param", "seq"} -> 3

PartsOf(m) == [k \in 1 .. Parts(m.kind) |-> [msg |-> m, part |-> k]]

(* What a reader has read so far.  It knows the command from its first     *)
(* part, and how many parts it has, unless these parts do not belong       *)
(* together or begin in the middle of a message: it then takes any of      *)
(* their bytes for a command, so that they may be one as they are, or be   *)
(* the beginning of one.  Mutant: it reads one part too many.              *)
IsTorn(ps) == ps # <<>> /\ ~IsPrefix(ps, PartsOf(ps[1].msg))

IsWholeLate(ps) == IsTorn(ps)
IsWhole(ps) ==
  ps # <<>> /\ (IsTorn(ps) \/ Len(ps) = Parts(ps[1].msg.kind))
IsOpen(ps) == ps # <<>> /\ (IsTorn(ps) \/ ~IsWhole(ps))

(* A command out of parts that are torn, and half a chunk.                 *)
Garbled == [kind |-> "garbled", id |-> 0]
HalfChunk == [kind |-> "chunk", id |-> 0]

MessageOf(ps) == IF IsTorn(ps) THEN Garbled ELSE ps[1].msg
ChunkOf(ps) == IF IsTorn(ps) THEN HalfChunk ELSE ps[1].msg

(* What a command leaves of its parts: of torn ones there may be bytes     *)
(* left, in which the next command is looked for.                          *)
Leftovers(ps) ==
  IF IsTorn(ps) THEN {<<>>, <<[msg |-> HalfChunk, part |-> 2]>>} ELSE {<<>>}

VARIABLES
  up,    \* up[c]: the parts on their way to the server
  down,  \* down[c]: the parts on their way to the client
  cEnd,  \* cEnd[c]: the client's socket: none, open or closed
  sEnd   \* sEnd[c]: the server's socket: none, backlog, open or closed

netVars == <<up, down, cEnd, sEnd>>

NetInit ==
  /\ up = [c \in Conns |-> <<>>]
  /\ down = [c \in Conns |-> <<>>]
  /\ cEnd = [c \in Conns |-> "none"]
  /\ sEnd = [c \in Conns |-> "none"]

(* n is a number of parts that a read or a write may move.                 *)
Some(ps) == 1 .. Len(ps)
First(n, ps) == SubSeq(ps, 1, n)
Rest(n, ps) == SubSeq(ps, n + 1, Len(ps))

(* A process ends: its sockets are closed, and what the other has not read *)
(* may be lost.                                                            *)
AllClosed(ends) == [c \in Conns |-> IF ends[c] = "none" THEN "none" ELSE "closed"]
CutShort(transit) ==
  {t \in [Conns -> UNION {{First(n, transit[c]) : n \in 0 .. Len(transit[c])} : c \in Conns}] :
     \A c \in Conns : IsPrefix(t[c], transit[c])}
=============================================================================
