---------------------------- MODULE SessionProofs ----------------------------
(***************************************************************************)
(* Proofs about a client and a server together, for every number of        *)
(* connections and every script: the types, why a process ends, that       *)
(* commands and answers arrive whole and in their order, and that status   *)
(* prints its own answer.  Not proved here, only checked: what must happen *)
(* eventually.                                                             *)
(***************************************************************************)
EXTENDS Session, SequenceTheorems, FiniteSetTheorems, TLAPS

(* What goes over a connection.  A part may be lost to a cut, so a message *)
(* that a reader has put together may be garbled.                          *)
Kinds == {"status", "load", "run", "param", "seq", "shutdown", "chunk", "answer"}
Messages == [kind : Kinds, id : Nat]
Pieces == [msg : Messages, part : 1 .. 3]
Taken == Messages \cup {Garbled}

(* The types of the variables, stronger than TypeOK, which leaves the      *)
(* streams out.                                                            *)
SocketTypes ==
  /\ up \in [Conns -> Seq(Pieces)]
  /\ down \in [Conns -> Seq(Pieces)]
  /\ cEnd \in [Conns -> {"none", "open", "closed"}]
  /\ sEnd \in [Conns -> {"none", "backlog", "open", "closed"}]

ClientTypes ==
  /\ running \in BOOLEAN
  /\ script \in Seq(Inputs)
  /\ mpc \in {"idle", "connect", "write", "poll", "join", "quit", "inline"}
  /\ conn \in 0 .. MaxConns
  /\ connected \in BOOLEAN
  /\ iopc \in {"none", "run", "read"}
  /\ cdepth \in 0 .. ClientStack + 1
  /\ cbuf \in Seq(Pieces)
  /\ cgot \in Seq(Pieces)
  /\ received \in [Conns -> Seq(Taken)]
  /\ cmutex \in {"none", "main", "load"}
  /\ cpending \in [{"main", "load"} -> Seq(Pieces)]
  /\ written \in [Conns -> Seq(Messages)]
  /\ chunks \in Seq(Chunks)
  /\ lpc \in {"check", "lock", "write"}
  /\ lpc # "check" => chunks # <<>>

ServerTypes ==
  /\ serving \in {0} \cup Conns
  /\ depth \in 0 .. ServerStack + 1
  /\ armed \in [Conns -> BOOLEAN]
  /\ sbuf \in [Conns -> Seq(Pieces)]
  /\ got \in [Conns -> Seq(Pieces)]
  /\ handled \in [Conns -> Seq(Taken)]
  /\ deaf \in [Conns -> BOOLEAN]
  /\ mutex \in [Conns -> {"none", "io", "send"}]
  /\ pending \in [Conns -> [Writers -> Seq(Pieces)]]
  /\ replied \in [Conns -> Seq(Messages)]
  /\ inside \subseteq Chunks
  /\ spc \in [Conns -> {"off", "loop", "send"}]
  /\ held \in [Conns -> Chunks]

(* The state of the two ends of connection c follows from the number of    *)
(* connections opened so far and from who is still there; the io thread    *)
(* serves only an open one, and holds nothing of any other.                *)
Ends(c) ==
  /\ cEnd[c] = IF c > conn THEN "none"
               ELSE IF c = conn /\ running /\ mpc # "connect" THEN "open" ELSE "closed"
  /\ sEnd[c] = "none" <=> c > conn
  /\ ~alive /\ c <= conn => sEnd[c] = "closed"
  /\ alive /\ sEnd[c] = "closed" => cEnd[c] = "closed" /\ up[c] = <<>> /\ serving # c
  /\ armed[c] \/ serving = c => sEnd[c] \in {"open", "closed"}
  /\ serving # c => got[c] = <<>> /\ sbuf[c] = <<>>
  /\ deaf[c] => serving # c
  /\ spc[c] # "off" => sEnd[c] \in {"open", "closed"}

(* A connection that is not opened yet is empty.                           *)
Unused(c) ==
  c > conn => /\ up[c] = <<>> /\ down[c] = <<>> /\ written[c] = <<>> /\ handled[c] = <<>>
              /\ replied[c] = <<>> /\ received[c] = <<>>
              /\ \A w \in Writers : pending[c][w] = <<>>

(* There are threads, locks and data in the client only after the first    *)
(* connection was opened.                                                  *)
Beginning ==
  /\ connected \/ lpc # "check" \/ iopc # "none" \/ listening => conn > 0
  /\ \A w \in {"main", "load"} : cpending[w] # <<>> => conn > 0
  /\ conn = 0 => cbuf = <<>> /\ cgot = <<>>

(* The io thread of the client ends with its connection, before the next.  *)
(* The handlers of both sides are nested no deeper than what they have     *)
(* handled.                                                                *)
Threads ==
  /\ iopc # "none" => connected \/ mpc \in {"join", "quit"}
  /\ mpc = "connect" => conn < MaxConns /\ ~connected
  /\ iopc = "read" => cdepth <= Len(received[conn]) + 1

Nested == serving # 0 => depth <= Len(handled[serving]) + 1

(* The parts that are still to be written belong to the holder of the      *)
(* mutex; only the load thread writes chunks, and it writes nothing else.  *)
ClientLocks ==
  /\ cpending["main"] # <<>> => mpc = "write" /\ cmutex = "main"
  /\ cpending["load"] # <<>> => lpc = "write" /\ cmutex = "load"
  /\ \A k \in DOMAIN cpending["load"] : cpending["load"][k].msg.kind = "chunk"

(* In the server as well; an answer is written while its request is        *)
(* served.                                                                 *)
ServerLocks(c) ==
  /\ \A w \in Writers : pending[c][w] # <<>> => mutex[c] = w
  /\ pending[c]["io"] # <<>> =>
       /\ serving = c /\ depth <= ServerStack /\ IsWhole(got[c])
       /\ IsTorn(got[c]) \/ MessageOf(got[c]).kind = "status"

(* A reader goes on after as many parts as the first of them announces     *)
(* only if these are torn.                                                 *)
Within(ps) ==
  ps # <<>> => LET p == Parts(ps[1].msg.kind) IN Len(ps) <= p \/ IsTorn(First(p, ps))

Measured == Within(cgot) /\ \A c \in Conns : Within(got[c])

(* The frame in which the streams are followed: an inductive invariant.    *)
Frame ==
  /\ SocketTypes /\ ClientTypes /\ ServerTypes
  /\ Beginning /\ Threads /\ Nested /\ ClientStays /\ ClientLocks /\ Measured
  /\ \A c \in Conns : Ends(c) /\ Unused(c) /\ ServerLocks(c)

(* Parts of a stream.                                                      *)
LEMMA Cuts ==
  ASSUME NEW S, NEW s \in Seq(S), NEW n \in 0 .. Len(s)
  PROVE  /\ First(n, s) \in Seq(S) /\ Len(First(n, s)) = n
         /\ \A k \in 1 .. n : First(n, s)[k] = s[k]
         /\ Rest(n, s) \in Seq(S) /\ Len(Rest(n, s)) = Len(s) - n
         /\ \A k \in 1 .. Len(s) - n : Rest(n, s)[k] = s[n + k]
         /\ First(n, s) \o Rest(n, s) = s
<1>1. Len(s) \in Nat /\ n \in Int /\ 1 \in Int /\ n + 1 \in Int /\ Len(s) \in Int
  OBVIOUS
<1>2. (\A i \in 1 .. n : s[i] \in S) /\ (\A i \in n + 1 .. Len(s) : s[i] \in S)
  BY <1>1, ElementOfSeq
<1>3. /\ First(n, s) \in Seq(S) /\ Len(First(n, s)) = n
      /\ \A k \in 1 .. n : First(n, s)[k] = s[k]
  BY <1>1, <1>2 DEF First
<1>4. /\ Rest(n, s) \in Seq(S) /\ Len(Rest(n, s)) = Len(s) - n
      /\ \A k \in 1 .. Len(s) - n : Rest(n, s)[k] = s[n + k]
  BY <1>1, <1>2 DEF Rest
<1>5. SubSeq(s, 1, n) \o SubSeq(s, n + 1, Len(s)) = SubSeq(s, 1, Len(s))
  <2>1. 1 \in 1 .. Len(s) + 1 /\ n \in 1 - 1 .. Len(s) /\ Len(s) \in n .. Len(s)
    BY <1>1
  <2>2. QED
    BY <2>1, ConcatAdjacentSubSeq
<1>6. SubSeq(s, 1, Len(s)) = s
  BY SubSeqFull
<1>7. QED
  BY <1>3, <1>4, <1>5, <1>6 DEF First, Rest

(* What is cut off one stream and put at the end of another stays in the   *)
(* line.                                                                   *)
LEMMA Moved ==
  ASSUME NEW S, NEW s \in Seq(S), NEW t \in Seq(S), NEW n \in 0 .. Len(t)
  PROVE  (s \o First(n, t)) \o Rest(n, t) = s \o t
<1> DEFINE u == First(n, t)
           v == Rest(n, t)
<1>1. u \in Seq(S) /\ v \in Seq(S) /\ u \o v = t
  BY Cuts
<1>2. u \in Seq(S) /\ v \in Seq(S)
  BY <1>1
<1> HIDE DEF u, v
<1>3. (s \o u) \o v = s \o (u \o v)
  <2>1. ASSUME NEW a \in Seq(S), NEW b \in Seq(S) PROVE (s \o a) \o b = s \o (a \o b)
    BY ConcatAssociative
  <2>2. QED
    BY <1>2, <2>1
<1>4. QED
  BY <1>1, <1>3 DEF u, v

(* A message has up to three parts.                                        *)
LEMMA PartsRange == \A kind \in Kinds : Parts(kind) \in 1 .. 3
BY DEF Kinds, Parts

(* The parts of a message, one by one.                                     *)
LEMMA PartsOfPieces ==
  ASSUME NEW m \in Messages
  PROVE  /\ PartsOf(m) \in Seq(Pieces) /\ Len(PartsOf(m)) = Parts(m.kind)
         /\ \A k \in 1 .. Parts(m.kind) : PartsOf(m)[k] = [msg |-> m, part |-> k]
<1>1. Parts(m.kind) \in 1 .. 3
  BY PartsRange DEF Messages
<1>2. \A k \in 1 .. Parts(m.kind) : [msg |-> m, part |-> k] \in Pieces
  BY <1>1 DEF Pieces
<1>3. QED
  BY <1>1, <1>2 DEF PartsOf

(* A reader puts together a message, or a garbled one.                     *)
LEMMA MessageTypes ==
  ASSUME NEW ps \in Seq(Pieces), ps # <<>>
  PROVE  MessageOf(ps) \in Taken /\ ps[1].msg \in Messages
<1>1. ps[1] \in Pieces
  BY ElementOfSeq, EmptySeq
<1>2. ps[1].msg \in Messages
  BY <1>1 DEF Pieces
<1>3. QED
  BY <1>2 DEF MessageOf, Taken

(* The first parts of a message are not torn.                              *)
LEMMA InOnePiece ==
  ASSUME NEW ps \in Seq(Pieces), ps # <<>>, NEW m \in Messages, Len(ps) <= Parts(m.kind),
         \A k \in 1 .. Len(ps) : ps[k] = [msg |-> m, part |-> k]
  PROVE  ~IsTorn(ps)
<1>1. /\ PartsOf(m) \in Seq(Pieces) /\ Len(PartsOf(m)) = Parts(m.kind)
      /\ \A k \in 1 .. Parts(m.kind) : PartsOf(m)[k] = [msg |-> m, part |-> k]
  BY PartsOfPieces
<1>2. Parts(m.kind) \in 1 .. 3
  BY PartsRange DEF Messages
<1>3. Len(ps) \in Nat /\ 1 \in 1 .. Len(ps)
  OBVIOUS
<1>4. ps[1].msg = m
  <2>1. ps[1] = [msg |-> m, part |-> 1]
    BY <1>3
  <2>2. QED
    BY <2>1
<1>5. /\ Len(ps) \in 0 .. Len(PartsOf(m)) /\ First(Len(ps), PartsOf(m)) \in Seq(Pieces)
      /\ Len(First(Len(ps), PartsOf(m))) = Len(ps)
      /\ \A k \in 1 .. Len(ps) : First(Len(ps), PartsOf(m))[k] = PartsOf(m)[k]
  <2>1. Len(ps) \in 0 .. Len(PartsOf(m))
    BY <1>1, <1>2, <1>3
  <2>2. PartsOf(m) \in Seq(Pieces)
    BY <1>1
  <2>3. QED
    BY <2>1, <2>2, Cuts
<1>6. \A k \in 1 .. Len(ps) : k \in 1 .. Parts(m.kind)
  BY <1>2, <1>3
<1>7. \A k \in 1 .. Len(ps) : ps[k] = First(Len(ps), PartsOf(m))[k]
  BY <1>1, <1>5, <1>6
<1>8. ps = First(Len(ps), PartsOf(m))
  BY <1>5, <1>7, SeqEqual
<1>9. SubSeq(ps, 1, Len(ps)) = ps
  BY SubSeqFull
<1>10. IsPrefix(ps, PartsOf(m))
  BY <1>1, <1>8, <1>9 DEF IsPrefix, First
<1>11. QED
  BY <1>4, <1>10 DEF IsTorn

(* A reader that takes another part measures it.                           *)
LEMMA TakesWithin ==
  ASSUME NEW ps \in Seq(Pieces), NEW x \in Pieces, Within(ps), ps = <<>> \/ IsOpen(ps)
  PROVE  Within(Append(ps, x))
<1> DEFINE qs == Append(ps, x)
<1>1. /\ qs \in Seq(Pieces) /\ Len(qs) = Len(ps) + 1
      /\ \A k \in 1 .. Len(ps) : qs[k] = ps[k]
  BY AppendProperties
<1>2. CASE ps = <<>>
  <2>1. Len(qs) = 1 /\ 1 \in 1 .. Len(qs)
    BY <1>1, <1>2
  <2>2. Parts(qs[1].msg.kind) \in 1 .. 3
    <3>1. qs # <<>>
      BY <1>1, <2>1
    <3>2. qs[1].msg \in Messages
      BY <1>1, <3>1, MessageTypes
    <3>3. QED
      BY <3>2, PartsRange DEF Messages
  <2>3. QED
    BY <2>1, <2>2 DEF Within
<1>3. CASE ps # <<>>
  <2> DEFINE p == Parts(ps[1].msg.kind)
  <2>1. ps[1].msg \in Messages
    BY <1>3, MessageTypes
  <2>2. p \in 1 .. 3
    BY <2>1, PartsRange DEF Messages
  <2>3. Len(ps) \in Nat /\ 1 \in 1 .. Len(ps) /\ qs[1] = ps[1]
    BY <1>1, <1>3
  <2> HIDE DEF qs
  <2>4. CASE Len(ps) < p
    BY <1>1, <2>2, <2>3, <2>4 DEF Within
  <2>5. CASE Len(ps) >= p
    <3>1. p \in 0 .. Len(ps) /\ p \in 0 .. Len(qs)
      BY <1>1, <2>2, <2>3, <2>5
    <3>2. First(p, qs) = First(p, ps)
      <4>1. /\ First(p, ps) \in Seq(Pieces) /\ Len(First(p, ps)) = p
            /\ \A k \in 1 .. p : First(p, ps)[k] = ps[k]
        BY <3>1, Cuts
      <4>2. /\ First(p, qs) \in Seq(Pieces) /\ Len(First(p, qs)) = p
            /\ \A k \in 1 .. p : First(p, qs)[k] = qs[k]
        BY <1>1, <3>1, Cuts
      <4>3. \A k \in 1 .. p : qs[k] = ps[k]
        BY <1>1, <2>2, <2>3, <2>5
      <4>4. QED
        BY <4>1, <4>2, <4>3, SeqEqual
    <3>3. IsTorn(First(p, ps))
      <4>1. CASE Len(ps) = p
        <5>1. First(p, ps) = ps
          BY <4>1, SubSeqFull DEF First
        <5>2. QED
          BY <1>3, <4>1, <5>1 DEF IsOpen, IsWhole
      <4>2. CASE Len(ps) # p
        BY <1>3, <2>2, <2>3, <2>5, <4>2 DEF Within
      <4>3. QED
        BY <4>1, <4>2
    <3>4. qs[1] = ps[1] /\ IsTorn(First(p, qs))
      BY <2>3, <3>2, <3>3
    <3>5. LET r == Parts(qs[1].msg.kind) IN Len(qs) <= r \/ IsTorn(First(r, qs))
      BY <3>4
    <3>6. QED
      BY <3>5 DEF Within, qs
  <2>6. QED
    BY <2>2, <2>3, <2>4, <2>5
<1>4. QED
  BY <1>2, <1>3

(* What is left of torn parts is half a chunk, or nothing.                 *)
LEMMA LeftoverTypes ==
  ASSUME NEW ps, NEW left \in Leftovers(ps)
  PROVE  left \in Seq(Pieces) /\ (IsTorn(ps) \/ left = <<>>)
<1>1. HalfChunk \in Messages
  BY DEF HalfChunk, Messages, Kinds
<1>2. [msg |-> HalfChunk, part |-> 2] \in Pieces
  BY <1>1 DEF Pieces
<1>3. <<>> \in Seq(Pieces) /\ <<[msg |-> HalfChunk, part |-> 2]>> \in Seq(Pieces)
  BY <1>2
<1>4. QED
  BY <1>3 DEF Leftovers

(* A process that ends leaves a part of each of its streams.               *)
LEMMA CutShortTypes ==
  ASSUME NEW S, NEW transit \in [Conns -> Seq(S)], NEW t \in CutShort(transit)
  PROVE  /\ t \in [Conns -> Seq(S)]
         /\ \A c \in Conns : \E n \in 0 .. Len(transit[c]) : t[c] = First(n, transit[c])
<1>1. t \in [Conns -> UNION {{First(n, transit[c]) : n \in 0 .. Len(transit[c])} : c \in Conns}]
  BY DEF CutShort
<1>2. \A c \in Conns : IsPrefix(t[c], transit[c])
  BY DEF CutShort
<1>3. ASSUME NEW c \in Conns PROVE t[c] \in Seq(S)
  <2>1. PICK d \in Conns : t[c] \in {First(n, transit[d]) : n \in 0 .. Len(transit[d])}
    BY <1>1
  <2>2. PICK n \in 0 .. Len(transit[d]) : t[c] = First(n, transit[d])
    BY <2>1
  <2>3. transit[d] \in Seq(S)
    OBVIOUS
  <2>4. QED
    BY <2>2, <2>3, Cuts
<1>4. ASSUME NEW c \in Conns
      PROVE  \E n \in 0 .. Len(transit[c]) : t[c] = First(n, transit[c])
  <2>1. transit[c] \in Seq(S) /\ t[c] \in Seq(S)
    BY <1>3
  <2>2. /\ Len(t[c]) <= Len(transit[c])
        /\ SubSeq(t[c], 1, Len(t[c])) = SubSeq(transit[c], 1, Len(t[c]))
    BY <1>2 DEF IsPrefix
  <2>3. SubSeq(t[c], 1, Len(t[c])) = t[c]
    BY <2>1, SubSeqFull
  <2>4. Len(t[c]) \in 0 .. Len(transit[c])
    BY <2>1, <2>2
  <2>5. t[c] = First(Len(t[c]), transit[c])
    BY <2>2, <2>3 DEF First
  <2>6. QED
    BY <2>4, <2>5
<1>5. QED
  BY <1>1, <1>3, <1>4

(* What is typed is one of the inputs.                                     *)
LEMMA Typed ==
  ASSUME ClientTypes, NEW cmd, Type(cmd)
  PROVE  /\ running /\ mpc = "idle" /\ script' \in Seq(Inputs)
         /\ cmd = "send" => Head(script).msg \in Requests /\ Head(script).msg \in Messages
         /\ cmd = "image" => Head(script).chunks \in Seq(Chunks)
<1>1. script \in Seq(Inputs) /\ script # <<>> /\ running /\ mpc = "idle"
  BY DEF ClientTypes, Type
<1>2. Head(script) \in Inputs /\ script' \in Seq(Inputs)
  BY <1>1, HeadTailProperties DEF Type
<1>3. Head(script).cmd = cmd
  BY DEF Type
<1>4. cmd = "send" => Head(script).msg \in Requests
  BY <1>2, <1>3 DEF Inputs
<1>5. cmd = "image" => Head(script).chunks \in Seq(Chunks)
  BY <1>2, <1>3 DEF Inputs
<1>6. Requests \subseteq Messages
  BY DEF Requests, Messages, Kinds
<1>7. QED
  BY <1>1, <1>2, <1>4, <1>5, <1>6

(* A write of the client moves some parts to the stream of its connection. *)
LEMMA Puts ==
  ASSUME SocketTypes, ClientTypes, NEW w \in {"main", "load"}, PutParts(w), conn > 0
  PROVE  \E n \in 1 .. Len(cpending[w]) :
           /\ cpending[w] # <<>> /\ conn \in Conns /\ cEnd[conn] = "open"
           /\ up' \in [Conns -> Seq(Pieces)]
           /\ cpending' \in [{"main", "load"} -> Seq(Pieces)]
           /\ up'[conn] = IF sEnd[conn] = "closed" THEN up[conn]
                          ELSE up[conn] \o First(n, cpending[w])
           /\ \A c \in Conns : c # conn => up'[c] = up[c]
           /\ cpending'[w] = Rest(n, cpending[w])
           /\ \A v \in {"main", "load"} : v # w => cpending'[v] = cpending[v]
<1>1. PICK n \in Some(cpending[w]) :
        /\ cEnd[conn] = "open"
        /\ up' = [up EXCEPT ![conn] =
                    IF sEnd[conn] = "closed" THEN @ ELSE @ \o First(n, cpending[w])]
        /\ cpending' = [cpending EXCEPT ![w] = Rest(n, @)]
  BY DEF PutParts
<1>2. n \in 1 .. Len(cpending[w]) /\ cpending[w] \in Seq(Pieces) /\ conn \in Conns
  BY <1>1 DEF Some, ClientTypes, Conns
<1>3. First(n, cpending[w]) \in Seq(Pieces) /\ Rest(n, cpending[w]) \in Seq(Pieces)
  BY <1>2, Cuts
<1>4. up[conn] \in Seq(Pieces) /\ up[conn] \o First(n, cpending[w]) \in Seq(Pieces)
  BY <1>2, <1>3, ConcatProperties DEF SocketTypes
<1>5. up' \in [Conns -> Seq(Pieces)]
  BY <1>1, <1>2, <1>4 DEF SocketTypes
<1>6. cpending' \in [{"main", "load"} -> Seq(Pieces)]
  BY <1>1, <1>2, <1>3 DEF ClientTypes
<1>7. cpending[w] # <<>>
  BY <1>2
<1>8. up'[conn] = IF sEnd[conn] = "closed" THEN up[conn] ELSE up[conn] \o First(n, cpending[w])
  BY <1>1, <1>2 DEF SocketTypes
<1>9. cpending'[w] = Rest(n, cpending[w])
  BY <1>1 DEF ClientTypes
<1>10. /\ \A c \in Conns : c # conn => up'[c] = up[c]
       /\ \A v \in {"main", "load"} : v # w => cpending'[v] = cpending[v]
  BY <1>1 DEF SocketTypes, ClientTypes
<1>11. QED
  BY <1>1, <1>2, <1>5, <1>6, <1>7, <1>8, <1>9, <1>10

(* A thread of the client that begins to write has the mutex to itself.    *)
LEMMA Begins ==
  ASSUME ClientTypes, NEW w \in {"main", "load"}, NEW m \in Messages, BeginWrite(w, m), conn > 0
  PROVE  /\ conn \in Conns /\ cmutex = "none" /\ cmutex' = w
         /\ cpending' \in [{"main", "load"} -> Seq(Pieces)]
         /\ written' \in [Conns -> Seq(Messages)]
         /\ cpending'[w] = PartsOf(m) /\ written'[conn] = Append(written[conn], m)
         /\ \A v \in {"main", "load"} : v # w => cpending'[v] = cpending[v]
         /\ \A c \in Conns : c # conn => written'[c] = written[c]
<1>0. conn \in Conns
  BY MaxConnsAssumption DEF ClientTypes, Conns
<1>1. written[conn] \in Seq(Messages) /\ PartsOf(m) \in Seq(Pieces)
  BY <1>0, PartsOfPieces DEF ClientTypes
<1>2. Append(written[conn], m) \in Seq(Messages)
  BY <1>1, AppendProperties
<1>3. QED
  BY <1>0, <1>1, <1>2 DEF ClientTypes, BeginWrite, ClientLock

(* A read of the client takes some parts from the stream of its            *)
(* connection.                                                             *)
LEMMA TakesAnswer ==
  ASSUME SocketTypes, ClientTypes, Take1(conn), conn > 0
  PROVE  \E n \in 1 .. Len(down[conn]) :
           /\ conn \in Conns
           /\ down' \in [Conns -> Seq(Pieces)] /\ cbuf' \in Seq(Pieces)
           /\ cbuf' = cbuf \o First(n, down[conn]) /\ down'[conn] = Rest(n, down[conn])
           /\ \A c \in Conns : c # conn => down'[c] = down[c]
<1>1. PICK n \in Some(down[conn]) :
        /\ cbuf' = cbuf \o First(n, down[conn])
        /\ down' = [down EXCEPT ![conn] = Rest(n, @)]
  BY DEF Take1
<1>2. conn \in Conns /\ down[conn] \in Seq(Pieces) /\ n \in 1 .. Len(down[conn])
  <2>1. conn \in Conns
    BY DEF ClientTypes, Conns
  <2>2. QED
    BY <1>1, <2>1 DEF Some, SocketTypes
<1>3. First(n, down[conn]) \in Seq(Pieces) /\ Rest(n, down[conn]) \in Seq(Pieces)
  BY <1>2, Cuts
<1>4. cbuf' \in Seq(Pieces)
  BY <1>1, <1>3, ConcatProperties DEF ClientTypes
<1>5. QED
  BY <1>1, <1>2, <1>3, <1>4 DEF SocketTypes

(* What the end of the client does.                                        *)
LEMMA Leaves ==
  ASSUME SocketTypes, Leave
  PROVE  /\ running' = FALSE /\ up' \in [Conns -> Seq(Pieces)]
         /\ \A c \in Conns : \E n \in 0 .. Len(up[c]) : up'[c] = First(n, up[c])
         /\ UNCHANGED <<down, sEnd, mainVars, readVars, writeVars>>
         /\ cEnd' = AllClosed(cEnd) /\ cEnd' \in [Conns -> {"none", "open", "closed"}]
<1>1. up \in [Conns -> Seq(Pieces)] /\ up' \in CutShort(up)
  BY DEF Leave, SocketTypes
<1>2. /\ up' \in [Conns -> Seq(Pieces)]
      /\ \A c \in Conns : \E n \in 0 .. Len(up[c]) : up'[c] = First(n, up[c])
  BY <1>1, CutShortTypes
<1>3. cEnd' \in [Conns -> {"none", "open", "closed"}]
  BY DEF Leave, AllClosed
<1>4. QED
  BY <1>2, <1>3 DEF Leave

(* An answer is added to those of the present connection.                  *)
LEMMA AnswerRead ==
  ASSUME ClientTypes, HandleAnswer, conn > 0
  PROVE  /\ conn \in Conns /\ cgot # <<>> /\ MessageOf(cgot) \in Taken
         /\ received' \in [Conns -> Seq(Taken)]
         /\ received'[conn] = Append(received[conn], MessageOf(cgot))
         /\ \A c \in Conns : c # conn => received'[c] = received[c]
         /\ cbuf' \in Seq(Pieces) /\ (IsTorn(cgot) \/ cbuf' = cbuf)
<1>0. conn \in Conns
  BY MaxConnsAssumption DEF ClientTypes, Conns
<1>1. cgot \in Seq(Pieces) /\ cgot # <<>> /\ conn \in Conns /\ received[conn] \in Seq(Taken)
  BY <1>0 DEF ClientTypes, HandleAnswer, IsWhole
<1>2. MessageOf(cgot) \in Taken
  BY <1>1, MessageTypes
<1>3. Append(received[conn], MessageOf(cgot)) \in Seq(Taken)
  BY <1>1, <1>2, AppendProperties
<1>4. received' = [received EXCEPT ![conn] = Append(received[conn], MessageOf(cgot))]
  BY DEF HandleAnswer
<1>5. PICK left \in Leftovers(cgot) : cbuf' = left \o cbuf
  BY DEF HandleAnswer
<1>6. left \in Seq(Pieces) /\ cbuf \in Seq(Pieces) /\ (IsTorn(cgot) \/ left = <<>>)
  BY LeftoverTypes DEF ClientTypes
<1>7. cbuf' \in Seq(Pieces) /\ (IsTorn(cgot) \/ cbuf' = cbuf)
  BY <1>5, <1>6, ConcatProperties, ConcatEmptySeq
<1>8. QED
  BY <1>1, <1>2, <1>3, <1>4, <1>7 DEF ClientTypes

(* The steps of the client.                                                *)
ClientStep ==
  \/ Open \/ (Connected /\ alive) \/ OpenFails \/ Close \/ Quit \/ SendCommand \/ SendNothing
  \/ Image \/ Stop \/ Joined \/ QuitJoined \/ MainWrite \/ Poll
  \/ LoadCheck \/ LoadLock \/ LoadWrite \/ AnswerArrives \/ AnswerEnds
  \/ RunReturns \/ AnswerOverflow \/ TakePart \/ ReadAnswer
  \/ ReadAnswerFails \/ HandleAnswer \/ PutFails

(* They keep the types.                                                    *)
LEMMA ClientTyping ==
  ASSUME SocketTypes, ClientTypes, Beginning, Threads, ClientStep
  PROVE SocketTypes' /\ ClientTypes'
<1> USE DEF SocketTypes, ClientTypes, Beginning, netVars, mainVars, readVars, writeVars
<1> USE DEF Disconnect, After, AnswerNeeds, Reading
<1>0. 0 \in 0 .. ClientStack + 1 /\ 1 \in 0 .. ClientStack + 1
      /\ (cdepth <= ClientStack => cdepth + 1 \in 0 .. ClientStack + 1)
  BY ClientStackAssumption
<1>1. ASSUME Open PROVE SocketTypes' /\ ClientTypes'
  <2>1. up' \in [Conns -> Seq(Pieces)]
    BY <1>1, CutShortTypes DEF Open
  <2>2. script' \in Seq(Inputs)
    BY <1>1, Typed DEF Open
  <2>3. cEnd' \in [Conns -> {"none", "open", "closed"}]
    BY <1>1 DEF Open, AllClosed
  <2>4. QED
    BY <1>1, <2>1, <2>2, <2>3 DEF Open
<1>25. ASSUME Connected PROVE SocketTypes' /\ ClientTypes'
  <2>1. conn + 1 \in Conns /\ conn + 1 \in 0 .. MaxConns
    BY <1>25, MaxConnsAssumption DEF Connected, Conns, Threads
  <2>2. /\ cEnd' \in [Conns -> {"none", "open", "closed"}]
        /\ sEnd' \in [Conns -> {"none", "backlog", "open", "closed"}]
    BY <1>25, <2>1 DEF Connected
  <2>3. /\ UNCHANGED <<up, down, running, script, serviceStopped, cbuf, cgot, received, flag,
                      writeVars>>
        /\ conn' = conn + 1 /\ connected' = TRUE
        /\ mpc' \in {"idle", "inline"} /\ iopc' \in {"run", "read"}
        /\ cdepth' \in {cdepth, 1}
    BY <1>25 DEF Connected
  <2>4. QED
    BY <1>0, <2>1, <2>2, <2>3 DEF writeVars
<1>26. ASSUME AnswerOverflow PROVE SocketTypes' /\ ClientTypes'
  BY <1>26, Leaves DEF AnswerOverflow
<1>2. ASSUME OpenFails PROVE SocketTypes' /\ ClientTypes'
  BY <1>2, Typed DEF OpenFails
<1>3. ASSUME Close PROVE SocketTypes' /\ ClientTypes'
  BY <1>3, Typed DEF Close
<1>4. ASSUME Quit PROVE SocketTypes' /\ ClientTypes'
  BY <1>4, Typed DEF Quit
<1>5. ASSUME SendCommand PROVE SocketTypes' /\ ClientTypes'
  BY <1>5, Typed, Begins DEF SendCommand
<1>6. ASSUME SendNothing PROVE SocketTypes' /\ ClientTypes'
  BY <1>6, Typed DEF SendNothing
<1>7. ASSUME Image PROVE SocketTypes' /\ ClientTypes'
  BY <1>7, Typed DEF Image
<1>8. ASSUME Stop PROVE SocketTypes' /\ ClientTypes'
  BY <1>8 DEF Stop
<1>9. ASSUME Joined PROVE SocketTypes' /\ ClientTypes'
  BY <1>9 DEF Joined
<1>10. ASSUME QuitJoined PROVE SocketTypes' /\ ClientTypes'
  BY <1>10, Leaves DEF QuitJoined
<1>11. ASSUME MainWrite PROVE SocketTypes' /\ ClientTypes'
  <2>1. cpending["main"] # <<>>
    BY <1>11 DEF MainWrite, PutParts, Some
  <2>2. conn > 0
    BY <2>1
  <2>3. /\ up' \in [Conns -> Seq(Pieces)]
        /\ cpending' \in [{"main", "load"} -> Seq(Pieces)]
    BY <1>11, <2>2, Puts DEF MainWrite
  <2>4. /\ UNCHANGED <<down, cEnd, sEnd, running, script, conn, serviceStopped,
                      readVars, written, chunks, lpc>>
        /\ mpc' \in {"idle", "write", "poll", "join"} /\ connected' \in BOOLEAN
        /\ cmutex' \in {"none", "main", "load"}
    BY <1>11 DEF MainWrite, Disconnect, After
  <2>5. QED
    BY <2>3, <2>4 DEF readVars
<1>12. ASSUME Poll PROVE SocketTypes' /\ ClientTypes'
  BY <1>12 DEF Poll
<1>13. ASSUME LoadCheck PROVE SocketTypes' /\ ClientTypes'
  <2>1. Tail(chunks) \in Seq(Chunks) /\ chunks # <<>>
    BY <1>13, HeadTailProperties DEF LoadCheck
  <2>2. QED
    BY <1>13, <2>1 DEF LoadCheck, netVars, mainVars, readVars
<1>14. ASSUME LoadLock PROVE SocketTypes' /\ ClientTypes'
  <2>1. Head(chunks) \in Chunks /\ chunks # <<>> /\ conn > 0
    BY <1>14, HeadTailProperties DEF LoadLock
  <2>2. Head(chunks) \in Messages
    BY <2>1 DEF Chunks, Messages, Kinds
  <2>3. QED
    BY <1>14, <2>1, <2>2, Begins DEF LoadLock, netVars, mainVars, readVars
<1>15. ASSUME LoadWrite PROVE SocketTypes' /\ ClientTypes'
  <2>1. Tail(chunks) \in Seq(Chunks) /\ chunks # <<>> /\ conn > 0
    BY <1>15, HeadTailProperties DEF LoadWrite
  <2>2. /\ up' \in [Conns -> Seq(Pieces)]
        /\ cpending' \in [{"main", "load"} -> Seq(Pieces)]
    BY <1>15, <2>1, Puts DEF LoadWrite
  <2>3. QED
    BY <1>15, <2>1, <2>2 DEF LoadWrite, mainVars, readVars
<1>16. ASSUME AnswerArrives PROVE SocketTypes' /\ ClientTypes'
  BY <1>0, <1>16, TakesAnswer DEF AnswerArrives
<1>17. ASSUME AnswerEnds PROVE SocketTypes' /\ ClientTypes'
  BY <1>17 DEF AnswerEnds
<1>18. ASSUME RunReturns PROVE SocketTypes' /\ ClientTypes'
  BY <1>18 DEF RunReturns
<1>19. ASSUME TakePart PROVE SocketTypes' /\ ClientTypes'
  BY <1>19, HeadTailProperties, AppendProperties DEF TakePart
<1>20. ASSUME ReadAnswer PROVE SocketTypes' /\ ClientTypes'
  BY <1>20, TakesAnswer DEF ReadAnswer
<1>21. ASSUME ReadAnswerFails PROVE SocketTypes' /\ ClientTypes'
  BY <1>21, Leaves DEF ReadAnswerFails
<1>22. ASSUME HandleAnswer PROVE SocketTypes' /\ ClientTypes'
  <2>1. conn > 0
    BY <1>22 DEF HandleAnswer
  <2>2. received' \in [Conns -> Seq(Taken)] /\ cbuf' \in Seq(Pieces)
    BY <1>22, <2>1, AnswerRead
  <2>3. /\ cdepth' \in 0 .. ClientStack + 1
        /\ mpc' \in {"idle", mpc} /\ iopc' \in {"run", iopc}
        /\ cgot' = <<>>
    BY <1>0, <1>22 DEF HandleAnswer
  <2>4. UNCHANGED <<netVars, running, script, conn, connected, serviceStopped, writeVars>>
    BY <1>22 DEF HandleAnswer
  <2>5. <<>> \in Seq(Pieces)
    BY EmptySeq
  <2>6. QED
    BY <2>2, <2>3, <2>4, <2>5
<1>23. ASSUME PutFails PROVE SocketTypes' /\ ClientTypes'
  BY <1>23, Leaves DEF PutFails
<1>24. QED
  BY <1>1, <1>2, <1>3, <1>4, <1>5, <1>6, <1>7, <1>8, <1>9, <1>10, <1>11, <1>12, <1>13,
     <1>14, <1>15, <1>16, <1>17, <1>18, <1>19, <1>20, <1>21, <1>22, <1>23, <1>25, <1>26
     DEF ClientStep

(* A read of the server takes some parts from the stream of connection c.  *)
LEMMA Receives ==
  ASSUME SocketTypes, ServerTypes, NEW c \in Conns, Receive(c)
  PROVE  \E n \in 1 .. Len(up[c]) :
           /\ sbuf' \in [Conns -> Seq(Pieces)] /\ up' \in [Conns -> Seq(Pieces)]
           /\ sbuf'[c] = sbuf[c] \o First(n, up[c]) /\ up'[c] = Rest(n, up[c])
           /\ \A d \in Conns : d # c => sbuf'[d] = sbuf[d] /\ up'[d] = up[d]
<1>1. PICK n \in Some(up[c]) :
        /\ sbuf' = [sbuf EXCEPT ![c] = @ \o First(n, up[c])]
        /\ up' = [up EXCEPT ![c] = Rest(n, @)]
  BY DEF Receive
<1>2. up[c] \in Seq(Pieces) /\ sbuf[c] \in Seq(Pieces) /\ n \in 1 .. Len(up[c])
  BY <1>1 DEF Some, SocketTypes, ServerTypes
<1>3. First(n, up[c]) \in Seq(Pieces) /\ Rest(n, up[c]) \in Seq(Pieces)
  BY <1>2, Cuts
<1>4. sbuf[c] \o First(n, up[c]) \in Seq(Pieces)
  BY <1>2, <1>3, ConcatProperties
<1>5. QED
  BY <1>1, <1>2, <1>3, <1>4 DEF SocketTypes, ServerTypes

(* What the end of the server does.                                        *)
LEMMA Dies ==
  ASSUME SocketTypes, Die
  PROVE  /\ alive' = FALSE /\ down' \in [Conns -> Seq(Pieces)]
         /\ \A c \in Conns : \E n \in 0 .. Len(down[c]) : down'[c] = First(n, down[c])
         /\ UNCHANGED <<up, cEnd, ioVars, outVars, inside>>
         /\ sEnd' = AllClosed(sEnd)
<1>1. down \in [Conns -> Seq(Pieces)] /\ down' \in CutShort(down)
  BY DEF Die, SocketTypes
<1>2. /\ down' \in [Conns -> Seq(Pieces)]
      /\ \A c \in Conns : \E n \in 0 .. Len(down[c]) : down'[c] = First(n, down[c])
  BY <1>1, CutShortTypes
<1>3. QED
  BY <1>2 DEF Die

(* A write of the server moves some parts to the stream of connection c.   *)
LEMMA Writes ==
  ASSUME SocketTypes, ServerTypes, NEW c \in Conns, NEW w \in Writers, Write(c, w)
  PROVE  \E n \in 1 .. Len(pending[c][w]) :
           /\ alive /\ sEnd[c] = "open" /\ UNCHANGED <<up, cEnd, sEnd>>
           /\ down' \in [Conns -> Seq(Pieces)]
           /\ pending' \in [Conns -> [Writers -> Seq(Pieces)]]
           /\ mutex' \in [Conns -> {"none", "io", "send"}]
           /\ down'[c] = IF cEnd[c] = "open"
                         THEN down[c] \o First(n, pending[c][w]) ELSE down[c]
           /\ pending'[c][w] = Rest(n, pending[c][w])
           /\ mutex'[c] = IF n = Len(pending[c][w]) THEN "none" ELSE mutex[c]
           /\ \A v \in Writers : v # w => pending'[c][v] = pending[c][v]
           /\ \A d \in Conns : d # c => /\ down'[d] = down[d] /\ mutex'[d] = mutex[d]
                                        /\ pending'[d] = pending[d]
<1>1. PICK n \in Some(pending[c][w]) :
        /\ down' = [down EXCEPT ![c] =
                      IF cEnd[c] = "open" THEN @ \o First(n, pending[c][w]) ELSE @]
        /\ pending' = [pending EXCEPT ![c][w] = Rest(n, @)]
        /\ mutex' = [mutex EXCEPT ![c] = IF n = Len(pending[c][w]) THEN "none" ELSE @]
        /\ UNCHANGED <<up, cEnd, sEnd>>
  BY DEF Write
<1>2. down[c] \in Seq(Pieces) /\ pending[c][w] \in Seq(Pieces) /\ n \in 1 .. Len(pending[c][w])
  BY <1>1 DEF Some, SocketTypes, ServerTypes
<1>3. First(n, pending[c][w]) \in Seq(Pieces) /\ Rest(n, pending[c][w]) \in Seq(Pieces)
  BY <1>2, Cuts
<1>4. down[c] \o First(n, pending[c][w]) \in Seq(Pieces)
  BY <1>2, <1>3, ConcatProperties
<1>5. /\ down' \in [Conns -> Seq(Pieces)] /\ \A d \in Conns : d # c => down'[d] = down[d]
      /\ down'[c] = IF cEnd[c] = "open" THEN down[c] \o First(n, pending[c][w]) ELSE down[c]
  BY <1>1, <1>2, <1>4 DEF SocketTypes
<1>6. /\ pending' \in [Conns -> [Writers -> Seq(Pieces)]]
      /\ pending'[c][w] = Rest(n, pending[c][w])
      /\ \A v \in Writers : v # w => pending'[c][v] = pending[c][v]
      /\ \A d \in Conns : d # c => pending'[d] = pending[d]
  BY <1>1, <1>2, <1>3 DEF ServerTypes
<1>7. /\ mutex' \in [Conns -> {"none", "io", "send"}]
      /\ mutex'[c] = IF n = Len(pending[c][w]) THEN "none" ELSE mutex[c]
      /\ \A d \in Conns : d # c => mutex'[d] = mutex[d]
  BY <1>1 DEF ServerTypes
<1>8. QED
  BY <1>1, <1>2, <1>5, <1>6, <1>7 DEF Write

(* A thread of the server that begins to write has the mutex to itself.    *)
LEMMA BeginsReply ==
  ASSUME ServerTypes, NEW c \in Conns, NEW w \in Writers, NEW m \in Messages, Begin(c, w, m)
  PROVE  /\ mutex[c] = "none" /\ mutex' \in [Conns -> {"none", "io", "send"}]
         /\ pending' \in [Conns -> [Writers -> Seq(Pieces)]]
         /\ replied' \in [Conns -> Seq(Messages)]
         /\ mutex'[c] = w /\ pending'[c][w] = PartsOf(m)
         /\ replied'[c] = Append(replied[c], m)
         /\ \A v \in Writers : v # w => pending'[c][v] = pending[c][v]
         /\ \A d \in Conns : d # c => /\ mutex'[d] = mutex[d] /\ pending'[d] = pending[d]
                                      /\ replied'[d] = replied[d]
<1>1. PartsOf(m) \in Seq(Pieces)
  BY PartsOfPieces
<1>2. Append(replied[c], m) \in Seq(Messages)
  BY AppendProperties DEF ServerTypes
<1>3. /\ pending' = [pending EXCEPT ![c][w] = PartsOf(m)] /\ mutex' = [mutex EXCEPT ![c] = w]
      /\ replied' = [replied EXCEPT ![c] = Append(replied[c], m)] /\ mutex[c] = "none"
  BY DEF Begin, Lock
<1>4. /\ mutex' \in [Conns -> {"none", "io", "send"}] /\ mutex'[c] = w
      /\ \A d \in Conns : d # c => mutex'[d] = mutex[d]
  BY <1>3 DEF ServerTypes, Writers
<1>5. /\ pending' \in [Conns -> [Writers -> Seq(Pieces)]] /\ pending'[c][w] = PartsOf(m)
      /\ \A v \in Writers : v # w => pending'[c][v] = pending[c][v]
      /\ \A d \in Conns : d # c => pending'[d] = pending[d]
  BY <1>1, <1>3 DEF ServerTypes
<1>6. /\ replied' \in [Conns -> Seq(Messages)] /\ replied'[c] = Append(replied[c], m)
      /\ \A d \in Conns : d # c => replied'[d] = replied[d]
  BY <1>2, <1>3 DEF ServerTypes
<1>7. QED
  BY <1>3, <1>4, <1>5, <1>6

(* The handler is done with what it had read.                              *)
LEMMA Forgets ==
  ASSUME ServerTypes, NEW c \in Conns, Forget(c)
  PROVE  /\ got' \in [Conns -> Seq(Pieces)] /\ got'[c] = <<>>
         /\ \A d \in Conns : d # c => got'[d] = got[d]
<1>1. <<>> \in Seq(Pieces)
  BY EmptySeq
<1>2. QED
  BY <1>1 DEF ServerTypes, Forget

(* A command is added to those handled on its connection.                  *)
LEMMA HandlesOne ==
  ASSUME ServerTypes, NEW c \in Conns, Handled(c), IsWhole(got[c])
  PROVE  /\ got[c] # <<>> /\ MessageOf(got[c]) \in Taken
         /\ handled' \in [Conns -> Seq(Taken)] /\ Forget(c) /\ Listen(c)
         /\ handled'[c] = Append(handled[c], MessageOf(got[c]))
         /\ sbuf' \in [Conns -> Seq(Pieces)] /\ (IsTorn(got[c]) \/ sbuf' = sbuf)
         /\ \A d \in Conns : d # c => handled'[d] = handled[d] /\ sbuf'[d] = sbuf[d]
<1>1. got[c] \in Seq(Pieces) /\ got[c] # <<>> /\ handled[c] \in Seq(Taken)
  BY DEF ServerTypes, IsWhole
<1>2. MessageOf(got[c]) \in Taken
  BY <1>1, MessageTypes
<1>3. Append(handled[c], MessageOf(got[c])) \in Seq(Taken)
  BY <1>1, <1>2, AppendProperties
<1>4. handled' = [handled EXCEPT ![c] = Append(handled[c], MessageOf(got[c]))] /\ Forget(c)
      /\ Listen(c)
  BY DEF Handled
<1>5. PICK left \in Leftovers(got[c]) : sbuf' = [sbuf EXCEPT ![c] = left \o @]
  BY DEF Handled
<1>6. left \in Seq(Pieces) /\ sbuf[c] \in Seq(Pieces) /\ (IsTorn(got[c]) \/ left = <<>>)
  BY LeftoverTypes DEF ServerTypes
<1>7. left \o sbuf[c] \in Seq(Pieces) /\ (IsTorn(got[c]) \/ left \o sbuf[c] = sbuf[c])
  BY <1>6, ConcatProperties, ConcatEmptySeq
<1>8. /\ sbuf' \in [Conns -> Seq(Pieces)] /\ (IsTorn(got[c]) \/ sbuf' = sbuf)
      /\ \A d \in Conns : d # c => sbuf'[d] = sbuf[d]
  BY <1>5, <1>7 DEF ServerTypes
<1>9. QED
  BY <1>1, <1>2, <1>3, <1>4, <1>8 DEF ServerTypes

(* The io thread goes on with the same connection, or with none.           *)
LEMMA Listens ==
  ASSUME ServerTypes, NEW c \in Conns, Listen(c), depth <= ServerStack
  PROVE  /\ serving' \in {0} \cup Conns /\ armed' \in [Conns -> BOOLEAN]
         /\ serving' = IF sbuf'[c] = <<>> THEN 0 ELSE c
         /\ serving' # 0 => depth' = depth + 1
         /\ depth' \in 0 .. ServerStack + 1
         /\ \A d \in Conns : d # c => armed'[d] = armed[d]
<1>1. 0 \in 0 .. ServerStack + 1 /\ depth + 1 \in 0 .. ServerStack + 1
  BY ServerStackAssumption DEF ServerTypes
<1>2. QED
  BY <1>1 DEF ServerTypes, Listen, CallAgain

(* Of what is read as a chunk, the chunk is known.                         *)
LEMMA ChunkTaken ==
  ASSUME NEW ps \in Seq(Pieces), ps # <<>>, IsTorn(ps) \/ MessageOf(ps).kind = "chunk"
  PROVE  ChunkOf(ps) \in Chunks
<1>1. ps[1].msg \in Messages
  BY MessageTypes
<1>2. HalfChunk \in Chunks
  BY DEF HalfChunk, Chunks
<1>3. QED
  BY <1>1, <1>2 DEF ChunkOf, MessageOf, Messages, Chunks

(* The steps of the server on connection c.                                *)
ServerStep(c) ==
  \/ Accept(c) \/ Arrive(c) \/ ArriveEnd(c) \/ ArriveDeaf(c)
  \/ Overflow(c) \/ Take(c) \/ SyncRead(c) \/ EntriesLate(c) \/ CutOff(c) \/ BadSize(c)
  \/ HandleCommand(c) \/ HandleChunk(c) \/ HandleShutdown(c)
  \/ HandleStatus(c) \/ WriteAnswer(c) \/ SendFind(c) \/ SendEnd(c)
  \/ SendLock(c) \/ SendWrite(c) \/ WriteFails(c)

(* What is read as a status request has a number.                          *)
LEMMA StatusTaken ==
  ASSUME NEW ps \in Seq(Pieces), ps # <<>>
  PROVE  MessageOf(ps).id \in Nat
<1>1. MessageOf(ps) \in Taken
  BY MessageTypes
<1>2. QED
  BY <1>1 DEF Taken, Messages, Garbled

(* The steps of the server keep the types.                                 *)
LEMMA ServerTyping ==
  ASSUME SocketTypes, ServerTypes, NEW c \in Conns, ServerStep(c), ServerLocks(c)
  PROVE SocketTypes' /\ ServerTypes'
<1> USE DEF SocketTypes, ServerTypes, netVars, ioVars, outVars, Whole, Serving, AllClosed
<1>0. 1 \in 0 .. ServerStack + 1
  BY ServerStackAssumption
<1>1. ASSUME Accept(c) PROVE SocketTypes' /\ ServerTypes'
  BY <1>1 DEF Accept, StartHandling
<1>2. ASSUME Arrive(c) PROVE SocketTypes' /\ ServerTypes'
  BY <1>0, <1>2, Receives DEF Arrive
<1>3. ASSUME ArriveEnd(c) PROVE SocketTypes' /\ ServerTypes'
  BY <1>3 DEF ArriveEnd, HangUp
<1>4. ASSUME ArriveDeaf(c) PROVE SocketTypes' /\ ServerTypes'
  BY <1>4, Dies DEF ArriveDeaf
<1>5. ASSUME Take(c) PROVE SocketTypes' /\ ServerTypes'
  BY <1>5, HeadTailProperties, AppendProperties DEF Take
<1>6. ASSUME SyncRead(c) PROVE SocketTypes' /\ ServerTypes'
  BY <1>6, Receives DEF SyncRead
<1>7. ASSUME EntriesLate(c) PROVE SocketTypes' /\ ServerTypes'
  <2>1. Forget(c) /\ Listen(c) /\ depth <= ServerStack
    BY <1>7 DEF EntriesLate, Needs
  <2>2. /\ UNCHANGED <<netVars, alive, stopped, sbuf, handled, outVars, inside>>
        /\ deaf' = [deaf EXCEPT ![c] = TRUE]
    BY <1>7 DEF EntriesLate
  <2>3. QED
    BY <2>1, <2>2, Forgets, Listens
<1>21. ASSUME Overflow(c) PROVE SocketTypes' /\ ServerTypes'
  BY <1>21, Dies DEF Overflow
<1>8. ASSUME CutOff(c) PROVE SocketTypes' /\ ServerTypes'
  <2>1. Forget(c) /\ Listen(c) /\ depth <= ServerStack
    BY <1>8 DEF CutOff, Needs
  <2>2. HalfChunk \in Chunks
    BY DEF HalfChunk, Chunks
  <2>3. inside' \subseteq Chunks /\ sEnd' \in [Conns -> {"none", "backlog", "open", "closed"}]
    BY <1>8, <2>2 DEF CutOff
  <2>4. UNCHANGED <<up, down, cEnd, alive, stopped, sbuf, handled, deaf, outVars>>
    BY <1>8 DEF CutOff
  <2>5. QED
    BY <2>1, <2>3, <2>4, Forgets, Listens DEF outVars
<1>9. ASSUME BadSize(c) PROVE SocketTypes' /\ ServerTypes'
  <2>1. Die
    BY <1>9 DEF BadSize
  <2>2. QED
    BY <2>1, Dies
<1>22. ASSUME Handled(c), IsWhole(got[c]), depth <= ServerStack
       PROVE  /\ serving' \in {0} \cup Conns /\ armed' \in [Conns -> BOOLEAN]
              /\ depth' \in 0 .. ServerStack + 1
              /\ sbuf' \in [Conns -> Seq(Pieces)] /\ got' \in [Conns -> Seq(Pieces)]
              /\ handled' \in [Conns -> Seq(Taken)]
  <2>1. /\ handled' \in [Conns -> Seq(Taken)] /\ Forget(c) /\ Listen(c)
        /\ sbuf' \in [Conns -> Seq(Pieces)]
    BY <1>22, HandlesOne
  <2>2. QED
    BY <1>22, <2>1, Forgets, Listens
<1>10. ASSUME HandleCommand(c) PROVE SocketTypes' /\ ServerTypes'
  BY <1>10, <1>22 DEF HandleCommand
<1>11. ASSUME HandleChunk(c) PROVE SocketTypes' /\ ServerTypes'
  <2>1. /\ Handled(c) /\ IsWhole(got[c]) /\ depth <= ServerStack
        /\ IsTorn(got[c]) \/ MessageOf(got[c]).kind = "chunk"
    BY <1>11 DEF HandleChunk
  <2>2. ChunkOf(got[c]) \in Chunks
    BY <2>1, ChunkTaken DEF IsWhole
  <2>3. inside' \subseteq Chunks
    BY <1>11, <2>2 DEF HandleChunk
  <2>4. UNCHANGED <<netVars, alive, stopped, deaf, outVars>>
    BY <1>11 DEF HandleChunk
  <2>5. QED
    BY <1>22, <2>1, <2>3, <2>4 DEF netVars, outVars
<1>12. ASSUME HandleShutdown(c) PROVE SocketTypes' /\ ServerTypes'
  BY <1>12, <1>22 DEF HandleShutdown
<1>13. ASSUME HandleStatus(c) PROVE SocketTypes' /\ ServerTypes'
  <2>1. IsWhole(got[c]) /\ got[c] \in Seq(Pieces)
    BY <1>13 DEF HandleStatus
  <2>2. MessageOf(got[c]).id \in Nat
    BY <2>1, StatusTaken DEF IsWhole
  <2>3. [kind |-> "answer", id |-> MessageOf(got[c]).id] \in Messages
    BY <2>2 DEF Messages, Kinds
  <2>4. /\ mutex' \in [Conns -> {"none", "io", "send"}]
        /\ pending' \in [Conns -> [Writers -> Seq(Pieces)]]
        /\ replied' \in [Conns -> Seq(Messages)]
    BY <1>13, <2>3, BeginsReply DEF HandleStatus, Writers
  <2>5. UNCHANGED <<netVars, alive, ioVars, spc, held, inside>>
    BY <1>13 DEF HandleStatus
  <2>6. QED
    BY <2>4, <2>5 DEF netVars, ioVars
<1>14. ASSUME WriteAnswer(c) PROVE SocketTypes' /\ ServerTypes'
  <2>1. /\ UNCHANGED <<up, cEnd, sEnd>>
        /\ down' \in [Conns -> Seq(Pieces)]
        /\ pending' \in [Conns -> [Writers -> Seq(Pieces)]]
        /\ mutex' \in [Conns -> {"none", "io", "send"}]
        /\ pending[c]["io"] # <<>>
    <3>1. Write(c, "io") /\ "io" \in Writers
      BY <1>14 DEF WriteAnswer, Writers
    <3>2. pending[c]["io"] # <<>>
      BY <3>1 DEF Write, Some
    <3>3. QED
      BY <3>1, <3>2, Writes
  <2>2. UNCHANGED <<alive, stopped, deaf, replied, spc, held, inside>>
    BY <1>14 DEF WriteAnswer
  <2>3. IsWhole(got[c]) /\ depth <= ServerStack
    BY <2>1 DEF ServerLocks
  <2>4. CASE pending'[c]["io"] = <<>>
    <3>1. Handled(c)
      BY <1>14, <2>4 DEF WriteAnswer
    <3>2. QED
      BY <1>22, <2>1, <2>2, <2>3, <3>1
  <2>5. CASE pending'[c]["io"] # <<>>
    <3>1. UNCHANGED <<got, handled, serving, depth, armed, sbuf>>
      BY <1>14, <2>5 DEF WriteAnswer
    <3>2. QED
      BY <2>1, <2>2, <3>1
  <2>6. QED
    BY <2>4, <2>5
<1>15. ASSUME SendFind(c) PROVE SocketTypes' /\ ServerTypes'
  BY <1>15 DEF SendFind
<1>16. ASSUME SendEnd(c) PROVE SocketTypes' /\ ServerTypes'
  BY <1>16 DEF SendEnd
<1>17. ASSUME SendLock(c) PROVE SocketTypes' /\ ServerTypes'
  <2>1. held[c] \in Messages
    BY DEF Chunks, Messages, Kinds
  <2>2. Begin(c, "send", held[c]) /\ "send" \in Writers
    BY <1>17 DEF SendLock, Writers
  <2>3. /\ mutex' \in [Conns -> {"none", "io", "send"}]
        /\ pending' \in [Conns -> [Writers -> Seq(Pieces)]]
        /\ replied' \in [Conns -> Seq(Messages)]
    BY <2>1, <2>2, BeginsReply
  <2>4. UNCHANGED <<netVars, alive, ioVars, spc, held, inside>>
    BY <1>17 DEF SendLock
  <2>5. QED
    BY <2>3, <2>4 DEF netVars, ioVars
<1>18. ASSUME SendWrite(c) PROVE SocketTypes' /\ ServerTypes'
  <2>1. Write(c, "send") /\ "send" \in Writers
    BY <1>18 DEF SendWrite, Writers
  <2>2. /\ UNCHANGED <<up, cEnd, sEnd>>
        /\ down' \in [Conns -> Seq(Pieces)]
        /\ pending' \in [Conns -> [Writers -> Seq(Pieces)]]
        /\ mutex' \in [Conns -> {"none", "io", "send"}]
    BY <2>1, Writes
  <2>3. /\ UNCHANGED <<alive, ioVars, replied, held, inside>>
        /\ spc' \in [Conns -> {"off", "loop", "send"}]
    BY <1>18 DEF SendWrite
  <2>4. QED
    BY <2>2, <2>3 DEF ioVars
<1>19. ASSUME WriteFails(c) PROVE SocketTypes' /\ ServerTypes'
  BY <1>19, Dies DEF WriteFails
<1>20. QED
  BY <1>1, <1>2, <1>3, <1>4, <1>5, <1>6, <1>7, <1>8, <1>9, <1>10, <1>11, <1>12, <1>13,
     <1>14, <1>15, <1>16, <1>17, <1>18, <1>19, <1>21
     DEF ServerStep
-----------------------------------------------------------------------------
(* A process that ends closes its ends.                                    *)
LEMMA ClosedEnds ==
  ASSUME NEW ends, NEW c \in Conns
  PROVE  AllClosed(ends)[c] = IF ends[c] = "none" THEN "none" ELSE "closed"
BY DEF AllClosed

(* What the beginning of a connection changes: the last one is closed, and *)
(* what is on its way may be lost.                                         *)
LEMMA Closes ==
  ASSUME SocketTypes, ClientTypes, Threads, \A c \in Conns : Ends(c), Open
  PROVE  /\ running /\ ~connected /\ iopc = "none" /\ mpc' = "connect"
         /\ cEnd' = AllClosed(cEnd) /\ up' \in [Conns -> Seq(Pieces)]
         /\ \A c \in Conns : \E n \in 0 .. Len(up[c]) : up'[c] = First(n, up[c])
         /\ UNCHANGED <<down, sEnd, running, conn, connected, readVars, writeVars>>
<1>1. /\ running /\ ~connected /\ mpc = "idle" /\ mpc' = "connect"
      /\ cEnd' = AllClosed(cEnd) /\ up' \in CutShort(up)
      /\ UNCHANGED <<down, sEnd, running, conn, connected, readVars, writeVars>>
  BY DEF Open, Type
<1>2. iopc = "none"
  BY <1>1 DEF Threads
<1>3. up \in [Conns -> Seq(Pieces)]
  BY DEF SocketTypes
<1>4. /\ up' \in [Conns -> Seq(Pieces)]
      /\ \A c \in Conns : \E n \in 0 .. Len(up[c]) : up'[c] = First(n, up[c])
  BY <1>1, <1>3, CutShortTypes
<1>5. QED
  BY <1>1, <1>2, <1>4

(* What a new connection changes.                                          *)
LEMMA Connects ==
  ASSUME SocketTypes, ClientTypes, Threads, \A c \in Conns : Ends(c), Connected
  PROVE  /\ running /\ conn + 1 \in Conns /\ conn' = conn + 1 /\ mpc' # "connect"
         /\ UNCHANGED <<up, down, running, cgot, cbuf, received, writeVars>>
         /\ \A c \in Conns : /\ c # conn + 1 => sEnd'[c] = sEnd[c] /\ cEnd'[c] = cEnd[c]
                             /\ c = conn + 1 => sEnd'[c] = "backlog" /\ cEnd'[c] = "open"
                             /\ cEnd[c] # "open"
<1>1. conn + 1 \in Conns
  BY MaxConnsAssumption DEF Connected, Conns, ClientTypes, Threads
<1>3. /\ cEnd' = [cEnd EXCEPT ![conn + 1] = "open"]
      /\ sEnd' = [sEnd EXCEPT ![conn + 1] = "backlog"]
      /\ running /\ conn' = conn + 1 /\ mpc = "connect" /\ mpc' # "connect"
      /\ UNCHANGED <<up, down, running, cgot, cbuf, received, writeVars>>
  BY DEF Connected
<1>4. \A c \in Conns : cEnd[c] # "open"
  BY <1>3 DEF Ends
<1>5. QED
  BY <1>1, <1>3, <1>4 DEF SocketTypes

(* The client keeps the ends in step.                                      *)
LEMMA ClientEnds ==
  ASSUME SocketTypes, ClientTypes, ServerTypes, Beginning, Threads, \A c \in Conns : Ends(c),
         ClientStep, UNCHANGED serverVars
  PROVE  \A c \in Conns : Ends(c)'
<1> USE DEF Ends
<1>1. /\ conn \in 0 .. MaxConns /\ running \in BOOLEAN /\ Conns = 1 .. MaxConns
      /\ MaxConns \in Nat
  BY MaxConnsAssumption DEF ClientTypes, Conns
<1>2. UNCHANGED <<alive, serving, armed, sbuf, got, deaf, spc>>
  BY DEF serverVars, ioVars, outVars
<1>3. CASE Connected /\ alive
  <2>1. /\ running /\ conn' = conn + 1 /\ UNCHANGED <<up, running>> /\ mpc' # "connect"
        /\ \A c \in Conns : /\ c # conn + 1 => sEnd'[c] = sEnd[c] /\ cEnd'[c] = cEnd[c]
                            /\ c = conn + 1 => sEnd'[c] = "backlog" /\ cEnd'[c] = "open"
                            /\ cEnd[c] # "open"
    BY <1>3, Connects
  <2>2. alive
    BY <1>3
  <2>3. ASSUME NEW c \in Conns PROVE Ends(c)'
    BY <1>1, <1>2, <2>1, <2>2
  <2>4. QED
    BY <2>3
<1>4. CASE OpenFails
  <2>1. running' = FALSE /\ mpc = "connect" /\ UNCHANGED <<up, cEnd, sEnd, conn>>
    BY <1>4 DEF OpenFails, netVars, mainVars
  <2>2. QED
    BY <1>1, <1>2, <2>1
<1>11. CASE Open
  <2>1. /\ running /\ mpc' = "connect" /\ cEnd' = AllClosed(cEnd) /\ UNCHANGED <<sEnd, running, conn>>
        /\ \A c \in Conns : \E n \in 0 .. Len(up[c]) : up'[c] = First(n, up[c])
    BY <1>11, Closes
  <2>2. \A c \in Conns : up[c] = <<>> => up'[c] = <<>>
    BY <2>1 DEF First
  <2>3. QED
    BY <1>1, <1>2, <2>1, <2>2, ClosedEnds
<1>5. CASE Leave
  <2>1. /\ running' = FALSE /\ cEnd' = AllClosed(cEnd) /\ UNCHANGED <<sEnd, conn>>
        /\ \A c \in Conns : \E n \in 0 .. Len(up[c]) : up'[c] = First(n, up[c])
    BY <1>5, Leaves DEF mainVars
  <2>2. \A c \in Conns : up[c] = <<>> => up'[c] = <<>>
    BY <2>1 DEF First
  <2>3. QED
    BY <1>1, <1>2, <2>1, <2>2, ClosedEnds
<1>6. ASSUME NEW w \in {"main", "load"}, PutParts(w), UNCHANGED <<cEnd, sEnd, running, conn>>,
             mpc' = "connect" <=> mpc = "connect"
      PROVE  \A c \in Conns : Ends(c)'
  <2>1. conn > 0
    BY <1>6 DEF PutParts, Some, Beginning
  <2>2. \A c \in Conns : sEnd[c] = "closed" => up'[c] = up[c]
    BY <1>6, <2>1, Puts
  <2>3. QED
    BY <1>1, <1>2, <1>6, <2>2
<1>7. CASE MainWrite
  BY <1>6, <1>7 DEF MainWrite, Disconnect, After
<1>8. CASE LoadWrite
  BY <1>6, <1>8 DEF LoadWrite, mainVars
<1>9. CASE UNCHANGED <<up, cEnd, sEnd, running, conn>> /\ (mpc' = "connect" <=> mpc = "connect")
  BY <1>2, <1>9
<1>10. QED
  BY <1>3, <1>4, <1>5, <1>7, <1>8, <1>9, <1>11
     DEF ClientStep, Type, Disconnect, After, AnswerOverflow, Close, Quit, SendCommand, SendNothing, Image, Stop, Joined, QuitJoined,
         Poll, LoadCheck, LoadLock, AnswerArrives, AnswerEnds, RunReturns, AnswerOverflow, TakePart, ReadAnswer,
         ReadAnswerFails, HandleAnswer, PutFails, netVars, mainVars

(* It touches no connection that is not opened yet.                        *)
LEMMA ClientUnused ==
  ASSUME SocketTypes, ClientTypes, ServerTypes, Beginning, Threads, \A c \in Conns : Ends(c),
         \A c \in Conns : Unused(c), ClientStep, UNCHANGED serverVars
  PROVE  \A c \in Conns : Unused(c)'
<1> USE DEF Unused
<1>1. /\ conn \in 0 .. MaxConns /\ Conns = 1 .. MaxConns /\ MaxConns \in Nat
  BY MaxConnsAssumption DEF ClientTypes, Conns
<1>2. UNCHANGED <<handled, replied, pending>>
  BY DEF serverVars, ioVars, outVars
<1>3. CASE Connected
  <2>1. /\ conn' = conn + 1 /\ UNCHANGED <<up, down, written, received>>
    BY <1>3, Connects DEF writeVars
  <2>2. QED
    BY <1>1, <1>2, <2>1
<1>4. CASE Leave \/ Open
  <2>1. /\ UNCHANGED <<down, conn, written, received>>
        /\ \A c \in Conns : \E n \in 0 .. Len(up[c]) : up'[c] = First(n, up[c])
    BY <1>4, Leaves, Closes DEF mainVars, readVars, writeVars
  <2>2. \A c \in Conns : up[c] = <<>> => up'[c] = <<>>
    BY <2>1 DEF First
  <2>3. QED
    BY <1>1, <1>2, <2>1, <2>2
<1>5. ASSUME NEW w \in {"main", "load"}, PutParts(w), UNCHANGED <<down, conn, written, received>>
      PROVE  \A c \in Conns : Unused(c)'
  <2>1. conn > 0
    BY <1>5 DEF PutParts, Some, Beginning
  <2>2. \A c \in Conns : c # conn => up'[c] = up[c]
    BY <1>5, <2>1, Puts
  <2>3. QED
    BY <1>1, <1>2, <1>5, <2>2
<1>6. CASE MainWrite
  BY <1>5, <1>6 DEF MainWrite, readVars
<1>7. CASE LoadWrite
  BY <1>5, <1>7 DEF LoadWrite, mainVars, readVars
<1>8. ASSUME NEW w \in {"main", "load"}, NEW m \in Messages, BeginWrite(w, m), conn > 0,
             UNCHANGED <<up, down, conn, received>>
      PROVE  \A c \in Conns : Unused(c)'
  <2>1. \A c \in Conns : c # conn => written'[c] = written[c]
    BY <1>8, Begins
  <2>2. QED
    BY <1>1, <1>2, <1>8, <2>1
<1>9. CASE SendCommand
  <2>1. Head(script).msg \in Messages /\ conn > 0
    BY <1>9, Typed DEF SendCommand, Beginning
  <2>2. QED
    BY <1>8, <1>9, <2>1 DEF SendCommand, netVars
<1>10. CASE LoadLock
  <2>1. Head(chunks) \in Chunks /\ conn > 0
    BY <1>10, HeadTailProperties DEF LoadLock, ClientTypes, Beginning
  <2>2. Head(chunks) \in Messages
    BY <2>1 DEF Chunks, Messages, Kinds
  <2>3. QED
    BY <1>8, <1>10, <2>1, <2>2 DEF LoadLock, netVars, mainVars, readVars
<1>11. ASSUME Take1(conn), conn > 0, UNCHANGED <<up, conn, written, received>>
       PROVE  \A c \in Conns : Unused(c)'
  <2>1. \A c \in Conns : c # conn => down'[c] = down[c]
    BY <1>11, TakesAnswer
  <2>2. QED
    BY <1>1, <1>2, <1>11, <2>1
<1>12. CASE AnswerArrives \/ ReadAnswer
  <2>1. conn > 0
    BY <1>12 DEF AnswerArrives, ReadAnswer, AnswerNeeds, Reading, Beginning
  <2>2. QED
    BY <1>11, <1>12, <2>1 DEF AnswerArrives, ReadAnswer, mainVars, writeVars
<1>13. CASE HandleAnswer
  <2>1. conn > 0
    BY <1>13 DEF HandleAnswer, Reading, Beginning
  <2>2. \A c \in Conns : c # conn => received'[c] = received[c]
    BY <1>13, <2>1, AnswerRead
  <2>3. UNCHANGED <<up, down, conn, written>>
    BY <1>13 DEF HandleAnswer, netVars, writeVars
  <2>4. QED
    BY <1>1, <1>2, <2>2, <2>3
<1>14. CASE UNCHANGED <<up, down, conn, written, received>>
  BY <1>2, <1>14
<1>15. QED
  BY <1>3, <1>4, <1>6, <1>7, <1>9, <1>10, <1>12, <1>13, <1>14
     DEF ClientStep, OpenFails, Close, Quit, SendNothing, Image, Stop, Joined, QuitJoined,
         Poll, LoadCheck, AnswerEnds, RunReturns, AnswerOverflow, TakePart,
         ReadAnswerFails, PutFails, netVars, mainVars, readVars, writeVars

(* Only one who has parts left to write writes.                            *)
LEMMA PutsSome ==
  ASSUME NEW w, PutParts(w)
  PROVE  cpending[w] # <<>>
BY DEF PutParts, Some

(* The client keeps Beginning.                                             *)
LEMMA ClientBeginning ==
  ASSUME ClientTypes, Beginning, ClientStep
  PROVE  Beginning'
<1> USE DEF Beginning
<1>1. conn \in Nat /\ (conn > 0 <=> conn # 0)
  BY DEF ClientTypes
<1>2. conn' = conn \/ (conn' = conn + 1 /\ conn' > 0)
  <2>1. CASE Connected
    BY <1>1, <2>1 DEF Connected
  <2>2. CASE ~Connected
    BY <2>2
     DEF ClientStep, Open, Connected, OpenFails, Close, Quit, SendCommand, SendNothing, Image, Stop,
         Joined, QuitJoined, MainWrite, Poll, LoadCheck, LoadLock, LoadWrite, AnswerArrives,
         AnswerEnds, RunReturns, AnswerOverflow, TakePart, ReadAnswer, ReadAnswerFails, HandleAnswer, PutFails,
         Leave, mainVars
  <2>3. QED
    BY <2>1, <2>2
<1>3. CASE conn' > 0
  BY <1>2, <1>3, <1>1
<1>4. CASE conn = 0 /\ conn' = 0
  <2>1. /\ connected = FALSE /\ lpc = "check" /\ iopc = "none" /\ ~listening
        /\ \A w \in {"main", "load"} : cpending[w] = <<>>
        /\ cbuf = <<>> /\ cgot = <<>>
    BY <1>1, <1>4 DEF ClientTypes
  <2>2. ~Connected
    BY <1>1, <1>4 DEF Connected
  <2>3. \A w \in {"main", "load"} : ~PutParts(w)
    BY <2>1, PutsSome
  <2>4. UNCHANGED <<lpc, iopc, listening, cpending, cbuf, cgot>> /\ ~connected'
    BY <1>4, <2>1, <2>2, <2>3
       DEF ClientStep, Open, OpenFails, Close, Quit, SendCommand, SendNothing, Image, Stop,
         Joined, QuitJoined, MainWrite, Poll, LoadCheck, LoadLock, LoadWrite, AnswerArrives,
         AnswerEnds, RunReturns, AnswerOverflow, TakePart, ReadAnswer, ReadAnswerFails, HandleAnswer, PutFails,
         Leave, Disconnect, AnswerNeeds, Reading, mainVars, readVars, writeVars
  <2>5. QED
    BY <1>4, <2>1, <2>4
<1>5. QED
  BY <1>1, <1>2, <1>3, <1>4

(* It keeps its threads apart, and counts what they handle.                *)
LEMMA ClientThreads ==
  ASSUME SocketTypes, ClientTypes, Beginning, Threads, ClientStep
  PROVE  Threads'
<1> USE DEF Threads
<1>1. CASE Connected
  <2>1. /\ UNCHANGED received /\ conn' = conn + 1 /\ connected' = TRUE /\ mpc' # "connect"
        /\ iopc' = "read" => cdepth' = 1
        /\ conn < MaxConns
    BY <1>1 DEF Connected
  <2>4. conn + 1 \in Conns
    BY <2>1, MaxConnsAssumption DEF ClientTypes, Conns
  <2>2. Len(received[conn + 1]) \in Nat
    BY <2>4 DEF ClientTypes
  <2>3. QED
    BY <2>1, <2>2
<1>2. CASE AnswerArrives
  <2>1. conn > 0 /\ UNCHANGED <<mpc, conn, connected, received>> /\ iopc = "run"
        /\ (iopc' = "read" => cdepth' = 1)
    BY <1>2 DEF AnswerArrives, Beginning, mainVars
  <2>2. conn \in Conns
    BY <2>1 DEF ClientTypes, Conns
  <2>3. Len(received[conn]) \in Nat
    BY <2>2 DEF ClientTypes
  <2>4. QED
    BY <2>1, <2>3
<1>3. CASE HandleAnswer
  <2>1. iopc = "read" /\ conn > 0 /\ cdepth \in Nat
    BY <1>3 DEF HandleAnswer, Reading, Beginning, ClientTypes
  <2>2. conn \in Conns /\ received'[conn] = Append(received[conn], MessageOf(cgot))
    BY <1>3, <2>1, AnswerRead
  <2>3. Len(received[conn]) \in Nat /\ Len(received'[conn]) = Len(received[conn]) + 1
    BY <2>2 DEF ClientTypes
  <2>4. /\ UNCHANGED <<conn, connected>> /\ (iopc' = "read" => cdepth' = cdepth + 1)
        /\ mpc' = mpc \/ (mpc = "inline" /\ mpc' = "idle")
    BY <1>3, <2>1 DEF HandleAnswer
  <2>5. QED
    BY <2>1, <2>3, <2>4
<1>4. CASE UNCHANGED <<iopc, cdepth, conn, received>> /\ ~Connected
  <2>1. CASE UNCHANGED <<mpc, connected>>
    BY <1>4, <2>1
  <2>2. CASE Open
    BY <1>4, <2>2 DEF Open, Type
  <2>3. CASE Close \/ Quit \/ SendNothing \/ SendCommand
    BY <1>4, <2>3 DEF Close, Quit, SendNothing, SendCommand, Type, Disconnect, After
  <2>4. CASE Joined \/ Poll \/ HandleAnswer
    BY <1>4, <2>4 DEF Joined, HasEnded, Poll, HandleAnswer
  <2>5. CASE MainWrite
    BY <1>4, <2>5 DEF MainWrite, Disconnect, After
  <2>6. QED
    BY <1>4, <2>1, <2>2, <2>3, <2>4, <2>5
     DEF ClientStep, OpenFails, Image, Stop, QuitJoined, LoadCheck, LoadLock, LoadWrite,
         AnswerArrives, AnswerEnds, RunReturns, AnswerOverflow, TakePart, ReadAnswer,
         ReadAnswerFails, PutFails, Leave, mainVars
<1>5. CASE RunReturns
  BY <1>5 DEF RunReturns, mainVars
<1>6. QED
  BY <1>1, <1>2, <1>3, <1>4, <1>5
     DEF ClientStep, Open, Connected, OpenFails, Close, Quit, SendCommand, SendNothing, Image, Stop,
         Joined, QuitJoined, MainWrite, Poll, LoadCheck, LoadLock, LoadWrite,
         AnswerEnds, AnswerOverflow, TakePart, ReadAnswer, ReadAnswerFails,
         PutFails, Leave, mainVars, readVars

(* It leaves because the user quits, because a read fails, and that it     *)
(* does only when the server is gone, because a write fails, when the      *)
(* server is gone or the load thread is in the way, or because answers     *)
(* fill the stack.                                                         *)
LEMMA ClientLasting ==
  ASSUME SocketTypes, ClientTypes, Beginning, Threads, ClientLocks, \A c \in Conns : Ends(c),
         ClientStep, UNCHANGED serverVars
  PROVE  ClientStays'
<1> USE DEF ClientStays
<1>1. UNCHANGED alive
  BY DEF serverVars
<1>2. ASSUME running, conn > 0, alive, sEnd[conn] = "closed" \/ cEnd[conn] = "closed"
      PROVE  mpc = "connect"
  <2>1. conn \in Conns /\ ~(conn > conn)
    BY <1>2 DEF ClientTypes, Conns
  <2>2. QED
    BY <1>2, <2>1 DEF Ends
<1>3. CASE QuitJoined
  BY <1>3 DEF QuitJoined, Leave, mainVars
<1>4. CASE OpenFails
  BY <1>1, <1>4 DEF OpenFails
<1>5. CASE ReadAnswerFails
  <2>1. running /\ conn > 0 /\ sEnd[conn] = "closed" /\ iopc = "read"
    BY <1>5 DEF ReadAnswerFails, AnswerNeeds, Reading, ServerGone
  <2>2. mpc # "connect"
    BY <2>1 DEF Threads
  <2>3. QED
    BY <1>1, <1>2, <2>1, <2>2
<1>6. CASE PutFails
  <2>1. /\ running /\ conn > 0 /\ (sEnd[conn] = "closed" \/ cEnd[conn] = "closed")
        /\ UNCHANGED <<mpc, cpending>>
        /\ \E w \in {"main", "load"} : cpending[w] # <<>>
    BY <1>6 DEF PutFails, Leave, Beginning, mainVars, writeVars
  <2>2. mpc = "connect" => cpending["main"] = <<>>
    BY DEF ClientLocks
  <2>3. QED
    BY <1>1, <1>2, <2>1, <2>2
<1>7. CASE AnswerOverflow
  <2>1. iopc = "read" /\ cdepth > ClientStack /\ UNCHANGED <<conn, received, cdepth>> /\ conn > 0
    BY <1>7 DEF AnswerOverflow, Leave, Beginning, mainVars, readVars
  <2>2. conn \in Conns /\ cdepth <= Len(received[conn]) + 1
    BY <2>1 DEF Threads, ClientTypes, Conns
  <2>3. Len(received[conn]) \in Nat /\ cdepth \in Nat
    BY <2>2 DEF ClientTypes
  <2>4. QED
    BY <2>1, <2>2, <2>3, ClientStackAssumption
<1>8. CASE running /\ running' = running
  BY <1>8
<1>9. QED
  BY <1>3, <1>4, <1>5, <1>6, <1>7, <1>8
     DEF ClientStep, Open, Connected, Close, Quit, SendCommand, SendNothing, Image, Stop,
         Joined, MainWrite, Poll, LoadCheck, LoadLock, LoadWrite, AnswerArrives,
         AnswerEnds, RunReturns, TakePart, ReadAnswer, HandleAnswer, AnswerNeeds, Reading, Type

(* It keeps the owners of the mutex.                                       *)
LEMMA ClientKeepsLocks ==
  ASSUME SocketTypes, ClientTypes, Beginning, ClientLocks, ClientStep
  PROVE  ClientLocks'
<1> USE DEF ClientLocks
<1>1. CASE UNCHANGED <<cpending, lpc, cmutex>> /\ (mpc' = mpc \/ mpc # "write")
  BY <1>1
<1>2. CASE Joined
  BY <1>2 DEF Joined
<1>3. CASE SendCommand
  <2>1. Head(script).msg \in Messages /\ conn > 0
    BY <1>3, Typed DEF SendCommand, Beginning
  <2>2. BeginWrite("main", Head(script).msg) /\ mpc' = "write" /\ UNCHANGED lpc
    BY <1>3 DEF SendCommand
  <2>3. cmutex = "none" /\ cmutex' = "main" /\ cpending'["load"] = cpending["load"]
    BY <2>1, <2>2, Begins
  <2>4. cpending["load"] = <<>>
    BY <2>3
  <2>5. QED
    BY <2>2, <2>3, <2>4
<1>4. CASE LoadLock
  <2>1. Head(chunks) \in Chunks /\ conn > 0
    BY <1>4, HeadTailProperties DEF LoadLock, ClientTypes, Beginning
  <2>2. Head(chunks) \in Messages /\ Head(chunks).kind = "chunk"
    BY <2>1 DEF Chunks, Messages, Kinds
  <2>3. BeginWrite("load", Head(chunks)) /\ lpc' = "write" /\ UNCHANGED mpc
    BY <1>4 DEF LoadLock, mainVars
  <2>4. /\ cmutex = "none" /\ cmutex' = "load" /\ cpending'["main"] = cpending["main"]
        /\ cpending'["load"] = PartsOf(Head(chunks))
    BY <2>1, <2>2, <2>3, Begins
  <2>5. cpending["main"] = <<>>
    BY <2>4
  <2>6. \A k \in DOMAIN cpending'["load"] : cpending'["load"][k].msg.kind = "chunk"
    BY <2>2, <2>4 DEF PartsOf
  <2>7. QED
    BY <2>3, <2>4, <2>5, <2>6
<1>5. CASE MainWrite
  <2>1. PutParts("main") /\ cpending["main"] # <<>> /\ conn > 0
    BY <1>5, PutsSome DEF MainWrite, Beginning
  <2>2. /\ cpending'["load"] = cpending["load"]
    BY <2>1, Puts
  <2>3. cmutex = "main" /\ cpending["load"] = <<>>
    BY <2>1
  <2>4. cpending'["main"] # <<>> => UNCHANGED <<mpc, cmutex>>
    BY <1>5 DEF MainWrite
  <2>5. mpc = "write"
    BY <1>5 DEF MainWrite
  <2>6. QED
    BY <2>2, <2>3, <2>4, <2>5
<1>6. CASE LoadWrite
  <2>1. PutParts("load") /\ cpending["load"] # <<>> /\ conn > 0 /\ UNCHANGED mpc
    BY <1>6, PutsSome DEF LoadWrite, Beginning, mainVars
  <2>2. PICK n \in 1 .. Len(cpending["load"]) :
          cpending'["main"] = cpending["main"] /\ cpending'["load"] = Rest(n, cpending["load"])
    BY <2>1, Puts
  <2>3. cmutex = "load" /\ cpending["main"] = <<>> /\ lpc = "write"
    BY <2>1
  <2>4. cpending'["load"] # <<>> => UNCHANGED <<lpc, cmutex>>
    BY <1>6 DEF LoadWrite
  <2>5. \A k \in DOMAIN cpending'["load"] : cpending'["load"][k].msg.kind = "chunk"
    <3> DEFINE ps == cpending["load"]
    <3>1. ps \in Seq(Pieces) /\ n \in 0 .. Len(ps)
      BY DEF ClientTypes
    <3>2. \A k \in DOMAIN ps : ps[k].msg.kind = "chunk"
      OBVIOUS
    <3> HIDE DEF ps
    <3>3. \A k \in DOMAIN Rest(n, ps) : Rest(n, ps)[k].msg.kind = "chunk"
      <4>1. /\ Rest(n, ps) \in Seq(Pieces) /\ Len(Rest(n, ps)) = Len(ps) - n
            /\ \A k \in 1 .. Len(ps) - n : Rest(n, ps)[k] = ps[n + k]
        BY <3>1, Cuts
      <4>2. \A k \in 1 .. Len(ps) - n : n + k \in 1 .. Len(ps)
        BY <3>1
      <4>3. DOMAIN ps = 1 .. Len(ps) /\ DOMAIN Rest(n, ps) = 1 .. Len(ps) - n
        BY <3>1, <4>1
      <4>4. QED
        BY <3>2, <4>1, <4>2, <4>3
    <3>4. QED
      BY <2>2, <3>3 DEF ps
  <2>6. QED
    BY <2>2, <2>3, <2>4, <2>5
<1>7. QED
  BY <1>1, <1>2, <1>3, <1>4, <1>5, <1>6
     DEF ClientStep, Open, Connected, OpenFails, Close, Quit, SendNothing, Image, Stop, QuitJoined,
         Poll, LoadCheck, AnswerArrives, AnswerEnds, RunReturns, AnswerOverflow, TakePart, ReadAnswer,
         ReadAnswerFails, HandleAnswer, PutFails, Leave, Type, mainVars, readVars, writeVars

(* It measures the answers.                                                *)
LEMMA ClientMeasures ==
  ASSUME ClientTypes, Measured, ClientStep, UNCHANGED serverVars
  PROVE  Measured'
<1> USE DEF Measured
<1>1. \A c \in Conns : Within(got[c])'
  BY DEF Within, serverVars, ioVars
<1>2. CASE UNCHANGED cgot
  BY <1>1, <1>2
<1>3. CASE TakePart
  <2>1. cgot' = Append(cgot, Head(cbuf)) /\ (cgot = <<>> \/ IsOpen(cgot))
    BY <1>3 DEF TakePart
  <2>2. cgot \in Seq(Pieces) /\ Head(cbuf) \in Pieces
    BY <1>3, HeadTailProperties DEF TakePart, ClientTypes
  <2>3. Within(cgot')
    BY <2>1, <2>2, TakesWithin
  <2>4. QED
    BY <1>1, <2>3
<1>4. CASE HandleAnswer
  <2>1. cgot' = <<>>
    BY <1>4 DEF HandleAnswer
  <2>2. QED
    BY <1>1, <2>1 DEF Within
<1>5. QED
  BY <1>2, <1>3, <1>4
     DEF ClientStep, Open, Connected, OpenFails, Close, Quit, SendCommand, SendNothing, Image,
         Stop, Joined, QuitJoined, MainWrite, Poll, LoadCheck, LoadLock, LoadWrite, AnswerArrives,
         AnswerEnds, RunReturns, AnswerOverflow, ReadAnswer, ReadAnswerFails, PutFails, Leave,
         readVars

(* The client keeps the frame.                                             *)
LEMMA ClientFrame ==
  ASSUME Frame, ClientStep, UNCHANGED serverVars
  PROVE  Frame'
<1> USE DEF Frame
<1>1. SocketTypes' /\ ClientTypes'
  BY ClientTyping
<1>2. ServerTypes'
  BY DEF ServerTypes, serverVars, ioVars, outVars
<1>3. \A c \in Conns : Ends(c)'
  BY ClientEnds
<1>4. \A c \in Conns : Unused(c)'
  BY ClientUnused
<1>5. \A c \in Conns : ServerLocks(c)'
  BY DEF ServerLocks, serverVars, ioVars, outVars
<1>8. Nested'
  BY DEF Nested, serverVars, ioVars
<1>6. Beginning' /\ Threads' /\ ClientStays' /\ ClientLocks'
  BY ClientBeginning, ClientThreads, ClientLasting, ClientKeepsLocks
<1>9. Measured'
  BY ClientMeasures
<1>7. QED
  BY <1>1, <1>2, <1>3, <1>4, <1>5, <1>6, <1>8, <1>9

(* The connections that the server works on have been opened.              *)
LEMMA Used ==
  ASSUME ServerTypes, NEW c \in Conns, Ends(c), Unused(c), conn \in Nat, ServerStep(c)
  PROVE  alive /\ c <= conn
<1>1. c \in Nat
  BY MaxConnsAssumption DEF Conns
<1>2. c <= conn \/ c > conn
  BY <1>1
<1>3. alive
  BY DEF ServerStep, Accept, Arrive, ArriveEnd, ArriveDeaf, Overflow, Take, SyncRead, EntriesLate,
         CutOff, BadSize, HandleCommand, HandleChunk, HandleShutdown, HandleStatus,
         WriteAnswer, SendFind, SendEnd, SendLock, SendWrite, WriteFails, Free, Serving,
         Needs, Whole, Write, HangUp
<1>4. ASSUME c > conn PROVE FALSE
  <2>1. sEnd[c] = "none" /\ ~armed[c] /\ serving # c /\ spc[c] = "off"
    BY <1>4 DEF Ends, ServerTypes
  <2>2. \A w \in Writers : pending[c][w] = <<>>
    BY <1>4 DEF Unused
  <2>3. QED
    BY <2>1, <2>2
       DEF ServerStep, Accept, Arrive, ArriveEnd, ArriveDeaf, Overflow, Take, SyncRead, EntriesLate,
           CutOff, BadSize, HandleCommand, HandleChunk, HandleShutdown, HandleStatus,
           WriteAnswer, SendFind, SendEnd, SendLock, SendWrite, WriteFails, Serving,
           Needs, Whole, Write
<1>5. QED
  BY <1>2, <1>3, <1>4

(* A handler that goes on with its connection, or with none, keeps the     *)
(* ends in step.                                                           *)
LEMMA ListensOn ==
  ASSUME ServerTypes, NEW c \in Conns, Forget(c), Listen(c), depth <= ServerStack, serving = c
  PROVE  /\ serving' \in {0, c} /\ got'[c] = <<>>
         /\ serving' = 0 => sbuf'[c] = <<>>
         /\ \A d \in Conns : d # c => armed'[d] = armed[d] /\ got'[d] = got[d]
<1>1. got'[c] = <<>> /\ \A d \in Conns : d # c => got'[d] = got[d]
  BY Forgets
<1>2. /\ serving' = IF sbuf'[c] = <<>> THEN 0 ELSE c
      /\ \A d \in Conns : d # c => armed'[d] = armed[d]
  BY Listens
<1>3. c # 0
  BY MaxConnsAssumption DEF Conns
<1>4. QED
  BY <1>1, <1>2, <1>3

(* The end of the server keeps them in step.                               *)
LEMMA DieEnds ==
  ASSUME SocketTypes, ClientTypes, ServerTypes, \A c \in Conns : Ends(c) /\ Unused(c),
         Die, UNCHANGED clientVars
  PROVE  \A c \in Conns : Ends(c)' /\ Unused(c)'
<1>1. /\ alive' = FALSE /\ UNCHANGED <<up, cEnd, ioVars, outVars, inside>>
      /\ \A c \in Conns : \E n \in 0 .. Len(down[c]) : down'[c] = First(n, down[c])
      /\ sEnd' = AllClosed(sEnd)
  BY Dies
<1>2. \A c \in Conns : sEnd'[c] = IF sEnd[c] = "none" THEN "none" ELSE "closed"
  BY <1>1, ClosedEnds
<1>3. \A c \in Conns : down[c] = <<>> => down'[c] = <<>>
  BY <1>1 DEF First
<1>4. UNCHANGED <<conn, running, mpc, written, received, serving, armed, sbuf, got, handled,
                  deaf, pending, replied, spc>>
  BY <1>1 DEF ioVars, outVars, clientVars, mainVars, readVars, writeVars
<1>5. \A c \in Conns : c > conn => ~(c <= conn)
  BY MaxConnsAssumption DEF ClientTypes, Conns
<1>6. \A c \in Conns : Ends(c)'
  BY <1>1, <1>2, <1>4, <1>5 DEF Ends
<1>7. \A c \in Conns : Unused(c)'
  BY <1>1, <1>3, <1>4 DEF Unused
<1>8. QED
  BY <1>6, <1>7

(* The server keeps the ends in step.                                      *)
LEMMA ServerEnds ==
  ASSUME SocketTypes, ClientTypes, ServerTypes, NEW c \in Conns, ServerStep(c), ~Die,
         \A d \in Conns : Ends(d) /\ ServerLocks(d), Unused(c),
         UNCHANGED clientVars
  PROVE  \A d \in Conns : Ends(d)'
<1> USE DEF Ends
<1>1. UNCHANGED <<conn, running, mpc>>
  BY DEF clientVars, mainVars
<1>0. conn \in Nat /\ c \in Nat /\ \A d \in Conns : d # 0
  BY MaxConnsAssumption DEF ClientTypes, Conns
<1>2. alive /\ c <= conn /\ conn \in Nat /\ (c <= conn => ~(c > conn))
      /\ \A d \in Conns : d # 0
  <2>1. alive /\ c <= conn
    BY <1>0, Used
  <2>2. QED
    BY <1>0, <2>1
<1>3. ASSUME UNCHANGED <<up, cEnd, alive>>, serving = c, deaf' = deaf, spc' = spc,
             sEnd' = sEnd, Handled(c), IsWhole(got[c]), depth <= ServerStack
      PROVE  \A d \in Conns : Ends(d)'
  <2>1. /\ serving' \in {0, c} /\ got'[c] = <<>>
        /\ serving' = 0 => sbuf'[c] = <<>>
        /\ \A d \in Conns : d # c => armed'[d] = armed[d] /\ got'[d] = got[d] /\ sbuf'[d] = sbuf[d]
    BY <1>3, HandlesOne, ListensOn
  <2>2. Ends(c)'
    BY <1>1, <1>2, <1>3, <2>1
  <2>3. ASSUME NEW d \in Conns, d # c PROVE Ends(d)'
    BY <1>1, <1>2, <1>3, <2>1, <2>3
  <2>4. QED
    BY <2>2, <2>3
<1>4. CASE Accept(c)
  BY <1>1, <1>2, <1>4 DEF Accept, StartHandling, SocketTypes, ServerTypes
<1>5. CASE Arrive(c)
  <2>1. /\ up[c] # <<>> /\ \A d \in Conns : d # c => up'[d] = up[d] /\ sbuf'[d] = sbuf[d]
    <3>1. Receive(c)
      BY <1>5 DEF Arrive
    <3>2. \A d \in Conns : d # c => up'[d] = up[d] /\ sbuf'[d] = sbuf[d]
      BY <3>1, Receives
    <3>3. QED
      BY <3>1, <3>2 DEF Receive, Some
  <2>2. /\ serving = 0 /\ ~deaf[c] /\ serving' = c /\ sEnd[c] = "open"
        /\ armed' = [armed EXCEPT ![c] = FALSE]
        /\ UNCHANGED <<cEnd, sEnd, alive, got, deaf, spc>>
    BY <1>2, <1>5, <2>1 DEF Arrive, Free, outVars
  <2>3. Ends(c)'
    BY <1>1, <1>2, <2>1, <2>2 DEF ServerTypes
  <2>4. ASSUME NEW d \in Conns, d # c PROVE Ends(d)'
    BY <1>1, <1>2, <2>1, <2>2, <2>4 DEF ServerTypes
  <2>5. QED
    BY <2>3, <2>4
<1>6. CASE ArriveEnd(c)
  BY <1>1, <1>2, <1>6 DEF ArriveEnd, HangUp, Free, Ended, SocketTypes, ServerTypes, outVars
<1>7. CASE Take(c)
  <2>1. /\ serving = c /\ UNCHANGED <<up, cEnd, sEnd, alive, serving, armed, deaf, spc>>
        /\ \A d \in Conns : d # c => got'[d] = got[d] /\ sbuf'[d] = sbuf[d]
    BY <1>7 DEF Take, Serving, ServerTypes, netVars, outVars
  <2>2. QED
    BY <1>1, <1>2, <2>1
<1>8. CASE SyncRead(c)
  <2>1. \A d \in Conns : d # c => up'[d] = up[d] /\ sbuf'[d] = sbuf[d]
    BY <1>8, Receives DEF SyncRead
  <2>2. /\ serving = c /\ UNCHANGED <<cEnd, sEnd, alive, serving, armed, got, deaf, spc>>
    BY <1>8 DEF SyncRead, Needs, Serving, outVars
  <2>3. QED
    BY <1>1, <1>2, <2>1, <2>2
<1>9. CASE EntriesLate(c)
  <2>1. /\ serving = c /\ sbuf[c] = <<>> /\ Forget(c) /\ Listen(c) /\ depth <= ServerStack
        /\ UNCHANGED <<up, cEnd, sEnd, alive, sbuf, spc>>
        /\ deaf' = [deaf EXCEPT ![c] = TRUE]
    BY <1>9 DEF EntriesLate, Needs, Serving, netVars, outVars
  <2>2. /\ serving' = 0 /\ got'[c] = <<>>
        /\ \A d \in Conns : d # c => armed'[d] = armed[d] /\ got'[d] = got[d]
    BY <1>2, <2>1, ListensOn, Listens
  <2>3. Ends(c)'
    BY <1>1, <1>2, <2>1, <2>2 DEF ServerTypes
  <2>4. ASSUME NEW d \in Conns, d # c PROVE Ends(d)'
    BY <1>1, <1>2, <2>1, <2>2, <2>4 DEF ServerTypes
  <2>5. QED
    BY <2>3, <2>4
<1>10. CASE CutOff(c)
  <2>1. /\ serving = c /\ sbuf[c] = <<>> /\ Forget(c) /\ Listen(c) /\ depth <= ServerStack
        /\ UNCHANGED <<up, cEnd, alive, sbuf, deaf, spc>>
        /\ sEnd' = [sEnd EXCEPT ![c] = "closed"] /\ up[c] = <<>> /\ cEnd[c] = "closed"
    BY <1>10 DEF CutOff, Needs, Serving, Ended, outVars
  <2>2. /\ serving' = 0 /\ got'[c] = <<>>
        /\ \A d \in Conns : d # c => armed'[d] = armed[d] /\ got'[d] = got[d]
    BY <1>2, <2>1, ListensOn, Listens
  <2>3. Ends(c)'
    BY <1>1, <1>2, <2>1, <2>2 DEF SocketTypes
  <2>4. ASSUME NEW d \in Conns, d # c PROVE Ends(d)'
    BY <1>1, <1>2, <2>1, <2>2, <2>4 DEF SocketTypes
  <2>5. QED
    BY <2>3, <2>4
<1>11. CASE HandleCommand(c) \/ HandleChunk(c) \/ HandleShutdown(c)
  BY <1>3, <1>11
     DEF HandleCommand, HandleChunk, HandleShutdown, Whole, Serving, netVars, outVars
<1>12. CASE HandleStatus(c)
  BY <1>1, <1>12 DEF HandleStatus, netVars, ioVars
<1>13. CASE WriteAnswer(c)
  <2>1. Write(c, "io") /\ "io" \in Writers
    BY <1>13 DEF WriteAnswer, Writers
  <2>2. /\ UNCHANGED <<up, cEnd, sEnd, alive, deaf, spc>>
    BY <1>13, <2>1, Writes DEF WriteAnswer
  <2>3. serving = c /\ IsWhole(got[c]) /\ depth <= ServerStack
    BY <2>1 DEF Write, Some, ServerLocks
  <2>4. CASE pending'[c]["io"] = <<>>
    BY <1>3, <1>13, <2>2, <2>3, <2>4 DEF WriteAnswer
  <2>5. CASE pending'[c]["io"] # <<>>
    BY <1>1, <1>13, <2>2, <2>5 DEF WriteAnswer
  <2>6. QED
    BY <2>4, <2>5
<1>14. CASE SendFind(c) \/ SendEnd(c)
  <2>1. /\ spc[c] = "loop" /\ \A d \in Conns : d # c => spc'[d] = spc[d]
        /\ UNCHANGED <<up, cEnd, sEnd, alive, serving, armed, sbuf, got, deaf>>
    BY <1>14 DEF SendFind, SendEnd, ServerTypes, netVars, ioVars
  <2>2. QED
    BY <1>1, <2>1
<1>15. CASE SendLock(c)
  BY <1>1, <1>15 DEF SendLock, netVars, ioVars
<1>16. CASE SendWrite(c)
  <2>1. Write(c, "send") /\ "send" \in Writers
    BY <1>16 DEF SendWrite, Writers
  <2>2. UNCHANGED <<up, cEnd, sEnd>> /\ sEnd[c] = "open"
    BY <2>1, Writes
  <2>3. /\ \A d \in Conns : d # c => spc'[d] = spc[d]
        /\ UNCHANGED <<alive, serving, armed, sbuf, got, deaf>>
    BY <1>16 DEF SendWrite, ServerTypes, ioVars
  <2>4. QED
    BY <1>1, <2>2, <2>3
<1>17. QED
  BY <1>4, <1>5, <1>6, <1>7, <1>8, <1>9, <1>10, <1>11, <1>12, <1>13, <1>14, <1>15, <1>16
     DEF ServerStep, ArriveDeaf, Overflow, BadSize, WriteFails

(* It touches no connection that is not opened yet.                        *)
LEMMA ServerUnused ==
  ASSUME SocketTypes, ClientTypes, ServerTypes, NEW c \in Conns, ServerStep(c), ~Die,
         \A d \in Conns : Ends(d) /\ ServerLocks(d), \A d \in Conns : Unused(d),
         UNCHANGED clientVars
  PROVE  \A d \in Conns : Unused(d)'
<1>1. UNCHANGED <<conn, written, received>>
  BY DEF clientVars, mainVars, readVars, writeVars
<1>2. \A d \in Conns : d > conn => d # c
  BY Used, MaxConnsAssumption DEF ClientTypes, Conns
<1>3. SUFFICES ASSUME NEW d \in Conns, d # c
      PROVE  UNCHANGED <<up[d], down[d], handled[d], replied[d], pending[d]>>
  BY <1>1, <1>2 DEF Unused
<1>4. CASE Arrive(c) \/ SyncRead(c)
  <2>1. up'[d] = up[d]
    BY <1>3, <1>4, Receives DEF Arrive, SyncRead
  <2>2. QED
    BY <1>4, <2>1 DEF Arrive, SyncRead, outVars
<1>5. CASE WriteAnswer(c) \/ SendWrite(c)
  <2>1. PICK w \in Writers : Write(c, w)
    BY <1>5 DEF WriteAnswer, SendWrite, Writers
  <2>2. UNCHANGED <<up[d], down[d], pending[d]>>
    BY <1>3, <2>1, Writes
  <2>3. UNCHANGED replied
    BY <1>5 DEF WriteAnswer, SendWrite
  <2>4. handled'[d] = handled[d]
    BY <1>3, <1>5 DEF WriteAnswer, SendWrite, Handled, ServerTypes, ioVars
  <2>5. QED
    BY <2>2, <2>3, <2>4
<1>6. CASE HandleStatus(c) \/ SendLock(c)
  <2>1. /\ UNCHANGED <<up, down, handled>>
        /\ \E w, m : Begin(c, w, m)
    BY <1>6 DEF HandleStatus, SendLock, netVars, ioVars
  <2>2. QED
    BY <1>3, <2>1 DEF Begin, ServerTypes
<1>7. CASE HandleCommand(c) \/ HandleChunk(c) \/ HandleShutdown(c)
  <2>1. UNCHANGED <<up, down, replied, pending>> /\ Handled(c)
    BY <1>7 DEF HandleCommand, HandleChunk, HandleShutdown, netVars, outVars
  <2>2. QED
    BY <1>3, <2>1 DEF Handled, ServerTypes
<1>8. CASE UNCHANGED <<up, down, handled, replied, pending>>
  BY <1>8
<1>9. QED
  BY <1>4, <1>5, <1>6, <1>7, <1>8
     DEF ServerStep, Accept, ArriveEnd, HangUp, Take, EntriesLate, CutOff, SendFind, SendEnd,
         ArriveDeaf, Overflow, BadSize, WriteFails, netVars, ioVars, outVars

(* Its handlers are nested no deeper than what they have handled.          *)
LEMMA ServerNested ==
  ASSUME ServerTypes, NEW c \in Conns, ServerStep(c), Nested, \A d \in Conns : ServerLocks(d)
  PROVE  Nested'
<1> USE DEF Nested
<1>1. \A d \in Conns : d # 0 /\ Len(handled[d]) \in Nat
  BY MaxConnsAssumption DEF Conns, ServerTypes
<1>2. CASE Arrive(c)
  BY <1>1, <1>2 DEF Arrive
<1>3. CASE EntriesLate(c) \/ CutOff(c)
  <2>1. sbuf'[c] = <<>> /\ Listen(c)
    BY <1>3 DEF EntriesLate, CutOff, Needs
  <2>2. QED
    BY <2>1 DEF Listen, CallAgain
<1>4. ASSUME Handled(c), IsWhole(got[c]), serving = c, depth <= ServerStack
      PROVE  Nested'
  <2>1. handled'[c] = Append(handled[c], MessageOf(got[c])) /\ Listen(c) /\ handled[c] \in Seq(Taken)
    BY <1>4, HandlesOne DEF ServerTypes
  <2>2. Len(handled'[c]) = Len(handled[c]) + 1
    BY <2>1
  <2>3. serving' # 0 => serving' = c /\ depth' = depth + 1
    BY <1>4, <2>1, Listens
  <2>4. depth <= Len(handled[c]) + 1 /\ depth \in Nat
    BY <1>1, <1>4 DEF ServerTypes
  <2>5. QED
    BY <1>1, <2>2, <2>3, <2>4
<1>5. CASE HandleCommand(c) \/ HandleChunk(c) \/ HandleShutdown(c)
  BY <1>4, <1>5 DEF HandleCommand, HandleChunk, HandleShutdown, Whole, Serving
<1>6. CASE WriteAnswer(c)
  <2>1. pending[c]["io"] # <<>>
    BY <1>6 DEF WriteAnswer, Write, Some
  <2>2. serving = c /\ IsWhole(got[c]) /\ depth <= ServerStack
    BY <2>1 DEF ServerLocks
  <2>3. CASE pending'[c]["io"] = <<>>
    BY <1>4, <1>6, <2>2, <2>3 DEF WriteAnswer
  <2>4. CASE pending'[c]["io"] # <<>>
    BY <1>6, <2>4 DEF WriteAnswer
  <2>5. QED
    BY <2>3, <2>4
<1>7. CASE UNCHANGED <<serving, depth, handled>>
  BY <1>7
<1>8. QED
  BY <1>2, <1>3, <1>5, <1>6, <1>7
     DEF ServerStep, Accept, ArriveEnd, HangUp, ArriveDeaf, Overflow, Take, SyncRead,
         BadSize, HandleStatus, SendFind, SendEnd, SendLock, SendWrite, WriteFails, Die, ioVars

(* It keeps the owners of the mutexes.                                     *)
LEMMA ServerKeepsLocks ==
  ASSUME SocketTypes, ServerTypes, NEW c \in Conns, ServerStep(c),
         \A d \in Conns : ServerLocks(d)
  PROVE  \A d \in Conns : ServerLocks(d)'
<1> USE DEF ServerLocks
<1>1. \A d \in Conns : d # 0
  BY MaxConnsAssumption DEF Conns
<1>2. CASE UNCHANGED <<pending, mutex, serving, depth, got>>
  BY <1>2
<1>3. ASSUME UNCHANGED <<pending, mutex>>,
             \A d \in Conns : d # c => got'[d] = got[d],
             serving \in {0, c}, pending[c]["io"] = <<>>
      PROVE  \A d \in Conns : ServerLocks(d)'
  <2>1. \A d \in Conns : pending[d]["io"] = <<>>
    BY <1>1, <1>3
  <2>2. QED
    BY <1>3, <2>1
<1>4. CASE Arrive(c)
  BY <1>1, <1>3, <1>4 DEF Arrive, Free, outVars
<1>5. CASE Take(c)
  <2>1. /\ serving = c /\ pending[c]["io"] = <<>> /\ UNCHANGED <<pending, mutex>>
    BY <1>5 DEF Take, Serving, outVars
  <2>2. \A d \in Conns : d # c => got'[d] = got[d]
    BY <1>5 DEF Take, ServerTypes
  <2>3. QED
    BY <1>3, <2>1, <2>2
<1>6. CASE \/ EntriesLate(c) \/ CutOff(c) \/ HandleCommand(c) \/ HandleChunk(c)
           \/ HandleShutdown(c)
  <2>1. Forget(c) /\ serving = c /\ UNCHANGED <<pending, mutex>>
    BY <1>6
       DEF EntriesLate, CutOff, HandleCommand, HandleChunk, HandleShutdown, Needs, Whole,
                Serving, Handled, outVars
  <2>2. pending[c]["io"] = <<>>
    BY <1>6
       DEF EntriesLate, CutOff, HandleCommand, HandleChunk, HandleShutdown, Needs, Whole,
                Serving
  <2>3. \A d \in Conns : d # c => got'[d] = got[d]
    BY <2>1, Forgets
  <2>4. QED
    BY <1>3, <2>1, <2>2, <2>3
<1>7. CASE HandleStatus(c)
  <2>1. /\ serving = c /\ depth <= ServerStack /\ IsWhole(got[c])
        /\ IsTorn(got[c]) \/ MessageOf(got[c]).kind = "status"
        /\ UNCHANGED <<serving, depth, got>>
    BY <1>7 DEF HandleStatus, Whole, Serving, ioVars
  <2>2. [kind |-> "answer", id |-> MessageOf(got[c]).id] \in Messages
    BY <2>1, StatusTaken DEF IsWhole, ServerTypes, Messages, Kinds
  <2>3. /\ mutex[c] = "none" /\ mutex'[c] = "io"
        /\ \A v \in Writers : v # "io" => pending'[c][v] = pending[c][v]
        /\ \A d \in Conns : d # c => mutex'[d] = mutex[d] /\ pending'[d] = pending[d]
    BY <1>7, <2>2, BeginsReply DEF HandleStatus, Writers
  <2>4. \A v \in Writers : pending[c][v] = <<>>
    BY <2>3 DEF Writers
  <2>5. QED
    BY <2>1, <2>3, <2>4
<1>8. CASE SendLock(c)
  <2>1. held[c] \in Messages /\ Begin(c, "send", held[c]) /\ "send" \in Writers
    BY <1>8 DEF SendLock, ServerTypes, Chunks, Messages, Kinds, Writers
  <2>2. /\ mutex[c] = "none" /\ mutex'[c] = "send"
        /\ \A v \in Writers : v # "send" => pending'[c][v] = pending[c][v]
        /\ \A d \in Conns : d # c => mutex'[d] = mutex[d] /\ pending'[d] = pending[d]
    BY <2>1, BeginsReply
  <2>3. \A v \in Writers : pending[c][v] = <<>>
    BY <2>2 DEF Writers
  <2>4. UNCHANGED <<serving, depth, got>>
    BY <1>8 DEF SendLock, ioVars
  <2>5. "io" # "send" /\ "io" \in Writers
    BY DEF Writers
  <2>6. QED
    BY <2>2, <2>3, <2>4, <2>5
<1>9. ASSUME NEW w \in Writers, Write(c, w)
      PROVE  /\ \A v \in Writers : v # w => pending[c][v] = <<>> /\ pending'[c][v] = <<>>
             /\ pending'[c][w] # <<>> => mutex'[c] = w /\ pending[c][w] # <<>>
             /\ \A d \in Conns : d # c => mutex'[d] = mutex[d] /\ pending'[d] = pending[d]
             /\ pending[c][w] # <<>>
  <2>1. PICK n \in 1 .. Len(pending[c][w]) :
           /\ pending'[c][w] = Rest(n, pending[c][w])
           /\ mutex'[c] = IF n = Len(pending[c][w]) THEN "none" ELSE mutex[c]
           /\ \A v \in Writers : v # w => pending'[c][v] = pending[c][v]
           /\ \A d \in Conns : d # c => mutex'[d] = mutex[d] /\ pending'[d] = pending[d]
    BY <1>9, Writes
  <2>2. pending[c][w] \in Seq(Pieces) /\ n \in 0 .. Len(pending[c][w])
    BY <1>9 DEF ServerTypes
  <2>3. pending[c][w] # <<>> /\ mutex[c] = w
    BY <1>9, <2>1, <2>2
  <2>4. \A v \in Writers : v # w => pending[c][v] = <<>>
    BY <2>3
  <2>5. Len(Rest(n, pending[c][w])) = Len(pending[c][w]) - n
    BY <2>2, Cuts
  <2>6. n = Len(pending[c][w]) => pending'[c][w] = <<>>
    <3>1. Rest(n, pending[c][w]) \in Seq(Pieces)
      BY <2>2, Cuts
    <3>2. QED
      BY <2>1, <2>2, <2>5, <3>1
  <2>7. QED
    BY <2>1, <2>3, <2>4, <2>6
<1>10. CASE WriteAnswer(c)
  <2>1. Write(c, "io") /\ "io" \in Writers
    BY <1>10 DEF WriteAnswer, Writers
  <2>2. /\ \A v \in Writers : v # "io" => pending'[c][v] = <<>>
        /\ pending'[c]["io"] # <<>> => mutex'[c] = "io"
        /\ \A d \in Conns : d # c => mutex'[d] = mutex[d] /\ pending'[d] = pending[d]
        /\ pending[c]["io"] # <<>>
    BY <1>9, <2>1
  <2>3. serving = c /\ \A d \in Conns : d # c => pending'[d]["io"] = <<>>
    BY <2>1, <2>2
  <2>4. pending'[c]["io"] # <<>> => UNCHANGED <<got, serving, depth>>
    BY <1>10 DEF WriteAnswer
  <2>5. ServerLocks(c)'
    BY <2>1, <2>2, <2>4
  <2>6. ASSUME NEW d \in Conns, d # c PROVE ServerLocks(d)'
    BY <2>2, <2>3, <2>6
  <2>7. QED
    BY <2>5, <2>6
<1>11. CASE SendWrite(c)
  <2>1. Write(c, "send") /\ "send" \in Writers /\ "io" \in Writers /\ "io" # "send"
    BY <1>11 DEF SendWrite, Writers
  <2>2. /\ \A v \in Writers : v # "send" => pending'[c][v] = <<>>
        /\ pending'[c]["send"] # <<>> => mutex'[c] = "send"
        /\ \A d \in Conns : d # c => mutex'[d] = mutex[d] /\ pending'[d] = pending[d]
    BY <1>9, <2>1
  <2>3. UNCHANGED <<got, serving, depth>>
    BY <1>11 DEF SendWrite, ioVars
  <2>4. QED
    BY <2>1, <2>2, <2>3
<1>12. QED
  BY <1>2, <1>4, <1>5, <1>6, <1>7, <1>8, <1>10, <1>11
     DEF ServerStep, Accept, ArriveEnd, HangUp, ArriveDeaf, Overflow, SyncRead, BadSize, SendFind,
         SendEnd,
         WriteFails, Die, ioVars, outVars

(* It measures the commands.                                               *)
LEMMA ServerMeasures ==
  ASSUME ServerTypes, Measured, NEW c \in Conns, ServerStep(c), ServerLocks(c),
         UNCHANGED clientVars
  PROVE  Measured'
<1> USE DEF Measured
<1>1. Within(cgot)'
  BY DEF Within, clientVars, readVars
<1>2. CASE UNCHANGED got
  BY <1>1, <1>2
<1>3. CASE Take(c)
  <2>1. /\ got' = [got EXCEPT ![c] = Append(@, Head(sbuf[c]))]
        /\ got[c] = <<>> \/ IsOpen(got[c])
        /\ sbuf[c] # <<>>
    BY <1>3 DEF Take
  <2>2. got[c] \in Seq(Pieces) /\ Head(sbuf[c]) \in Pieces
    BY <2>1, HeadTailProperties DEF ServerTypes
  <2>3. Within(Append(got[c], Head(sbuf[c])))
    BY <2>1, <2>2, TakesWithin
  <2>4. \A d \in Conns : got'[d] = IF d = c THEN Append(got[c], Head(sbuf[c])) ELSE got[d]
    BY <2>1 DEF ServerTypes
  <2>5. QED
    BY <1>1, <2>3, <2>4
<1>4. CASE Forget(c)
  <2>1. got'[c] = <<>> /\ \A d \in Conns : d # c => got'[d] = got[d]
    BY <1>4, Forgets
  <2>2. QED
    BY <1>1, <2>1 DEF Within
<1>5. QED
  BY <1>2, <1>3, <1>4
     DEF ServerStep, Accept, Arrive, ArriveEnd, HangUp, ArriveDeaf, Overflow, SyncRead,
         EntriesLate, CutOff, BadSize, HandleCommand, HandleChunk, HandleShutdown, HandleStatus,
         WriteAnswer, SendFind, SendEnd, SendLock, SendWrite, WriteFails, Die, Handled, ioVars

(* The server keeps the frame.                                             *)
LEMMA ServerFrame ==
  ASSUME Frame, NEW c \in Conns, ServerStep(c), UNCHANGED clientVars
  PROVE  Frame'
<1> USE DEF Frame
<1>1. SocketTypes' /\ ServerTypes'
  BY ServerTyping
<1>2. ClientTypes' /\ Beginning' /\ ClientLocks'
  <2>1. UNCHANGED <<listening, cdepth>>
    BY DEF clientVars, readVars
  <2>2. ClientTypes' /\ ClientLocks'
    BY <2>1 DEF ClientTypes, ClientLocks, clientVars, mainVars, readVars, writeVars
  <2>3. Beginning'
    BY <2>1 DEF Beginning, clientVars, mainVars, readVars, writeVars
  <2>4. QED
    BY <2>2, <2>3
<1>3. \A d \in Conns : Ends(d)' /\ Unused(d)'
  <2>1. CASE Die
    BY <2>1, DieEnds
  <2>2. CASE ~Die
    BY <2>2, ServerEnds, ServerUnused
  <2>3. QED
    BY <2>1, <2>2
<1>4. \A d \in Conns : ServerLocks(d)'
  BY ServerKeepsLocks
<1>5. Nested'
  BY ServerNested
<1>6. Threads'
  BY DEF Threads, clientVars, mainVars, readVars
<1>7. ClientStays'
  <2>1. alive
    BY Used DEF ClientTypes
  <2>2. QED
    BY <2>1 DEF ClientStays, clientVars, mainVars, readVars, writeVars
<1>9. Measured'
  BY ServerMeasures
<1>8. QED
  BY <1>1, <1>2, <1>3, <1>4, <1>5, <1>6, <1>7, <1>9

(* So does its regular end, after a SHUTDOWN.                              *)
LEMMA ExitFrame ==
  ASSUME Frame, Exit, UNCHANGED clientVars
  PROVE  Frame'
<1> USE DEF Frame
<1>1. Die /\ stopped
  BY DEF Exit, IoThreadReturned
<1>2. /\ alive' = FALSE /\ down' \in [Conns -> Seq(Pieces)]
      /\ UNCHANGED <<up, cEnd, ioVars, outVars, inside>>
      /\ sEnd' = AllClosed(sEnd)
  BY <1>1, Dies
<1>3. SocketTypes'
  <2>1. sEnd' \in [Conns -> {"none", "backlog", "open", "closed"}]
    BY <1>2 DEF AllClosed
  <2>2. QED
    BY <1>2, <2>1 DEF SocketTypes
<1>4. ServerTypes' /\ \A c \in Conns : ServerLocks(c)'
  BY <1>2 DEF ServerTypes, ServerLocks, ioVars, outVars
<1>5. ClientTypes' /\ ClientLocks'
  BY DEF ClientTypes, ClientLocks, clientVars, mainVars, readVars, writeVars
<1>6. Beginning'
  BY DEF Beginning, clientVars, mainVars, readVars, writeVars
<1>7. \A c \in Conns : Ends(c)' /\ Unused(c)'
  BY <1>1, DieEnds
<1>8. Threads' /\ Nested'
  BY <1>2 DEF Threads, Nested, clientVars, mainVars, readVars, ioVars
<1>9. ClientStays'
  BY <1>2 DEF ClientStays, clientVars, mainVars, readVars, writeVars
<1>11. Measured'
  BY <1>2 DEF Measured, Within, ioVars, clientVars, readVars
<1>10. QED
  BY <1>3, <1>4, <1>5, <1>6, <1>7, <1>8, <1>9, <1>11

(* The frame holds at the start.                                           *)
LEMMA InitFrame == Init => Frame
<1> SUFFICES ASSUME Init PROVE Frame
  OBVIOUS
<1> USE DEF Init, NetInit, ClientInit, ServerInit
<1>1. /\ <<>> \in Seq(Pieces) /\ <<>> \in Seq(Messages)
      /\ <<>> \in Seq(Taken) /\ <<>> \in Seq(Chunks)
  BY EmptySeq
<1>2. /\ 0 \in 0 .. MaxConns /\ (\A c \in Conns : c > 0 /\ ~(c <= 0) /\ c # 0)
  BY MaxConnsAssumption DEF Conns
<1>3. HalfChunk \in Chunks
  BY DEF HalfChunk, Chunks
<1>4. SocketTypes
  BY <1>1 DEF SocketTypes
<1>12. 0 \in 0 .. ClientStack + 1 /\ 0 \in 0 .. ServerStack + 1
  BY ClientStackAssumption, ServerStackAssumption
<1>5. ClientTypes
  BY <1>1, <1>2, <1>12, ScriptsAssumption DEF ClientTypes
<1>6. ServerTypes
  BY <1>1, <1>3, <1>12 DEF ServerTypes
<1>7. \A c \in Conns : Ends(c)
  BY <1>2 DEF Ends
<1>8. \A c \in Conns : Unused(c) /\ ServerLocks(c)
  BY DEF Unused, ServerLocks, Writers
<1>9. Threads /\ Nested /\ Measured
  BY DEF Threads, Nested, Measured, Within
<1>10. Beginning /\ ClientStays /\ ClientLocks
  BY DEF Beginning, ClientStays, ClientLocks
<1>11. QED
  BY <1>4, <1>5, <1>6, <1>7, <1>8, <1>9, <1>10 DEF Frame

(* The steps of the two together.                                          *)
LEMMA Steps ==
  ASSUME Next
  PROVE  \/ ClientStep /\ UNCHANGED serverVars
         \/ Exit /\ UNCHANGED clientVars
         \/ \E c \in Conns : ServerStep(c) /\ UNCHANGED clientVars
BY DEF Next, ClientStep, ServerStep

(* Every step keeps the frame.                                             *)
LEMMA NextFrame == Frame /\ [Next]_sessionVars => Frame'
<1> SUFFICES ASSUME Frame, [Next]_sessionVars PROVE Frame'
  OBVIOUS
<1>1. CASE Next
  BY <1>1, Steps, ClientFrame, ServerFrame, ExitFrame
<1>2. CASE UNCHANGED sessionVars
  <2> USE <1>2 DEF sessionVars, netVars, clientVars, serverVars, mainVars, readVars, writeVars,
                  ioVars, outVars
  <2>1. SocketTypes' /\ ClientTypes'
    BY DEF Frame, SocketTypes, ClientTypes
  <2>2. ServerTypes'
    BY DEF Frame, ServerTypes
  <2>3. \A c \in Conns : Ends(c)' /\ Unused(c)' /\ ServerLocks(c)'
    BY DEF Frame, Ends, Unused, ServerLocks
  <2>4. Beginning' /\ Threads' /\ Nested' /\ ClientStays' /\ ClientLocks' /\ Measured'
    BY DEF Frame, Beginning, Threads, Nested, ClientStays, ClientLocks, Measured, Within
  <2>5. QED
    BY <2>1, <2>2, <2>3, <2>4 DEF Frame
<1>3. QED
  BY <1>1, <1>2

(* The frame always holds.                                                 *)
THEOREM Framed == Spec => []Frame
BY InitFrame, NextFrame, PTL DEF Spec

(* The states of sockets, threads and mutexes are legal, and who writes    *)
(* holds the mutex (Client.cpp:16-62, Server.cpp:16-130).                  *)
THEOREM Types == Spec => []TypeOK
<1>1. Frame => TypeOK
  <2> SUFFICES ASSUME Frame PROVE TypeOK
    OBVIOUS
  <2>1. conn \in {0} \cup Conns
    BY DEF Frame, ClientTypes, Conns
  <2>2. \A c \in Conns : cEnd[c] \in {"none", "open", "closed"}
    BY DEF Frame, Ends
  <2>3. QED
    BY <2>1, <2>2
       DEF Frame, TypeOK, SocketTypes, ClientTypes, ServerTypes, ServerLocks, Ends
<1>2. QED
  BY <1>1, Framed, PTL

(* The client is never cut off by a server that runs (Client.cpp:236,      *)
(* 246), for any number of connections and any script: it ends by quit,    *)
(* after the server, with its load thread in the way of a new connection   *)
(* (Client.cpp:61-62), or under answers that fill the stack.               *)
THEOREM Stays == Spec => []ClientStays
<1>1. Frame => ClientStays
  BY DEF Frame
<1>2. QED
  BY <1>1, Framed, PTL
-----------------------------------------------------------------------------
(* Concatenation, for the provers to reorder rather than to compute.        *)
Cat(s, t) == s \o t

(* It is a sequence again.                                                 *)
LEMMA CatSeq ==
  ASSUME NEW S, NEW s \in Seq(S), NEW t \in Seq(S)
  PROVE  Cat(s, t) \in Seq(S)
BY ConcatProperties DEF Cat

(* The parentheses do not matter.                                          *)
LEMMA CatAssociative ==
  ASSUME NEW S, NEW s \in Seq(S), NEW t \in Seq(S), NEW u \in Seq(S)
  PROVE  Cat(Cat(s, t), u) = Cat(s, Cat(t, u))
BY ConcatAssociative DEF Cat

(* The parts ps are those of the messages of w after the first h, whole    *)
(* and in order: b[k] of them belong to the messages up to w[k].           *)
Bounds(b, ps, w, h) ==
  /\ b[h] = 0 /\ b[Len(w)] = Len(ps)
  /\ \A i, j \in h .. Len(w) : i <= j => b[i] <= b[j]
  /\ \A k \in h + 1 .. Len(w) :
       /\ b[k] = b[k - 1] + Parts(w[k].kind)
       /\ \A i \in 1 .. Parts(w[k].kind) : ps[b[k - 1] + i] = [msg |-> w[k], part |-> i]
Carries(ps, w, h) == \E b \in [h .. Len(w) -> Nat] : Bounds(b, ps, w, h)

(* No parts are those of no messages.                                      *)
LEMMA CarriesNothing ==
  ASSUME NEW w \in Seq(Messages)
  PROVE  Carries(<<>>, w, Len(w))
<1> DEFINE b == [k \in Len(w) .. Len(w) |-> 0]
<1>1. Len(w) \in Nat /\ Len(w) \in Len(w) .. Len(w) /\ Len(<<>>) = 0
  OBVIOUS
<1>2. b \in [Len(w) .. Len(w) -> Nat] /\ b[Len(w)] = 0
  BY <1>1
<1> HIDE DEF b
<1>3. \A k \in Len(w) + 1 .. Len(w) : FALSE
  BY <1>1
<1>4. \A i \in Len(w) .. Len(w) : b[i] = 0
  BY <1>1, <1>2
<1>5. Bounds(b, <<>>, w, Len(w))
  BY <1>1, <1>2, <1>3, <1>4 DEF Bounds
<1>6. QED
  BY <1>2, <1>5 DEF Carries

(* The parts of another message may follow.                                *)
LEMMA CarriesMore ==
  ASSUME NEW ps \in Seq(Pieces), NEW w \in Seq(Messages), NEW h \in 0 .. Len(w),
         NEW m \in Messages, Carries(ps, w, h)
  PROVE  Carries(Cat(ps, PartsOf(m)), Append(w, m), h)
<1> DEFINE n == Len(w)
           p == Parts(m.kind)
           qs == ps \o PartsOf(m)
           v == Append(w, m)
<1>1. PICK b \in [h .. n -> Nat] :
    /\ b[h] = 0 /\ b[n] = Len(ps)
    /\ \A i, j \in h .. n : i <= j => b[i] <= b[j]
    /\ \A k \in h + 1 .. n :
         /\ b[k] = b[k - 1] + Parts(w[k].kind)
         /\ \A i \in 1 .. Parts(w[k].kind) : ps[b[k - 1] + i] = [msg |-> w[k], part |-> i]
  BY DEF Carries, Bounds
<1>2. p \in 1 .. 3
  BY PartsRange DEF Messages
<1>3. /\ n \in Nat /\ h \in 0 .. n /\ Len(ps) \in Nat
      /\ Len(v) = n + 1 /\ v[n + 1] = m /\ \A k \in 1 .. n : v[k] = w[k]
  BY AppendProperties
<1>4. /\ Len(qs) = Len(ps) + p
      /\ \A k \in 1 .. Len(ps) : qs[k] = ps[k]
      /\ \A i \in 1 .. p : qs[Len(ps) + i] = [msg |-> m, part |-> i]
  <2>1. /\ PartsOf(m) \in Seq(Pieces) /\ Len(PartsOf(m)) = p
        /\ \A k \in 1 .. p : PartsOf(m)[k] = [msg |-> m, part |-> k]
    BY PartsOfPieces
  <2>2. /\ Len(qs) = Len(ps) + Len(PartsOf(m))
        /\ \A k \in 1 .. Len(ps) + Len(PartsOf(m)) :
             qs[k] = IF k <= Len(ps) THEN ps[k] ELSE PartsOf(m)[k - Len(ps)]
    BY <2>1, ConcatProperties
  <2> HIDE DEF qs, p
  <2>3. \A k \in 1 .. Len(ps) : k \in 1 .. Len(ps) + p /\ k <= Len(ps)
    BY <1>2, <1>3
  <2>4. \A i \in 1 .. p : /\ Len(ps) + i \in 1 .. Len(ps) + p /\ ~(Len(ps) + i <= Len(ps))
                          /\ Len(ps) + i - Len(ps) = i
    BY <1>2, <1>3
  <2>5. QED
    BY <2>1, <2>2, <2>3, <2>4
<1> HIDE DEF p, qs, v, n
<1> DEFINE d == [k \in h .. n + 1 |-> IF k = n + 1 THEN Len(ps) + p ELSE b[k]]
<1>5. \A k \in h .. n : k \in h .. n + 1 /\ k # n + 1
  BY <1>3
<1>6. d \in [h .. n + 1 -> Nat] /\ d[n + 1] = Len(ps) + p /\ \A k \in h .. n : d[k] = b[k]
  <2>1. h \in Nat /\ n + 1 \in h .. n + 1 /\ Len(ps) + p \in Nat
    BY <1>2, <1>3
  <2>2. \A k \in h .. n + 1 : k # n + 1 => k \in h .. n
    BY <1>3
  <2>3. QED
    BY <2>1, <2>2, <1>5
<1> HIDE DEF d
<1>7. h \in h .. n /\ n \in h .. n
  BY <1>3
<1>8. d[h] = 0 /\ d[n + 1] = Len(qs)
  BY <1>1, <1>4, <1>6, <1>7
<1>9. \A i, j \in h .. n + 1 : i <= j => d[i] <= d[j]
  <2>1. SUFFICES ASSUME NEW i \in h .. n + 1, NEW j \in h .. n + 1, i <= j PROVE d[i] <= d[j]
    OBVIOUS
  <2>2. CASE j = n + 1 /\ i = n + 1
    BY <1>2, <1>3, <1>6, <2>2
  <2>3. CASE j = n + 1 /\ i # n + 1
    <3>1. i \in h .. n /\ i <= n
      BY <1>3, <2>3
    <3>2. b[i] <= b[n] /\ b[i] \in Nat
      BY <1>1, <1>7, <3>1
    <3>3. QED
      BY <1>1, <1>2, <1>3, <1>6, <2>3, <3>1, <3>2
  <2>4. CASE j # n + 1
    <3>1. i \in h .. n /\ j \in h .. n
      BY <1>3, <2>1, <2>4
    <3>2. QED
      BY <1>1, <1>6, <2>1, <3>1
  <2>5. QED
    BY <2>2, <2>3, <2>4
<1>10. ASSUME NEW k \in h + 1 .. n + 1
       PROVE  /\ d[k] = d[k - 1] + Parts(v[k].kind)
              /\ \A i \in 1 .. Parts(v[k].kind) : qs[d[k - 1] + i] = [msg |-> v[k], part |-> i]
  <2>1. k - 1 \in h .. n /\ k \in Int
    BY <1>3
  <2>2. CASE k = n + 1
    <3>1. v[k] = m /\ k - 1 = n /\ d[k - 1] = Len(ps) /\ d[k] = Len(ps) + p
      BY <1>1, <1>3, <1>6, <1>7, <2>2
    <3>2. QED
      BY <1>4, <3>1 DEF p
  <2>3. CASE k # n + 1
    <3>1. k \in h + 1 .. n /\ k \in h .. n /\ k \in 1 .. n
      BY <1>3, <2>3
    <3>2. v[k] = w[k] /\ d[k] = b[k] /\ d[k - 1] = b[k - 1]
      BY <1>3, <1>6, <2>1, <3>1
    <3>3. b[k] = b[k - 1] + Parts(w[k].kind) /\ b[k] <= b[n] /\ b[k - 1] \in Nat
      <4>1. b[k] = b[k - 1] + Parts(w[k].kind)
        BY <1>1, <3>1
      <4>2. k <= n
        BY <1>3, <3>1
      <4>3. b[k] <= b[n]
        BY <1>1, <1>7, <3>1, <4>2
      <4>4. b[k - 1] \in Nat
        BY <1>1, <2>1
      <4>5. QED
        BY <4>1, <4>3, <4>4
    <3>4. Parts(w[k].kind) \in 1 .. 3
      <4>1. w[k] \in Messages
        BY <3>1 DEF n
      <4>2. QED
        BY <4>1, PartsRange DEF Messages
    <3>5. \A i \in 1 .. Parts(w[k].kind) : b[k - 1] + i \in 1 .. Len(ps)
      <4> DEFINE x == b[k - 1]
                 g == Parts(w[k].kind)
                 l == Len(ps)
      <4>1. x \in Nat /\ g \in 1 .. 3 /\ l \in Nat /\ x + g <= l
        BY <1>1, <1>3, <3>3, <3>4
      <4> HIDE DEF x, g, l
      <4>2. \A i \in 1 .. g : x + i \in 1 .. l
        BY <4>1
      <4>3. QED
        BY <4>2 DEF x, g, l
    <3>6. d[k] = d[k - 1] + Parts(v[k].kind)
      BY <3>2, <3>3
    <3>7. ASSUME NEW i \in 1 .. Parts(v[k].kind)
          PROVE  qs[d[k - 1] + i] = [msg |-> v[k], part |-> i]
      <4>1. i \in 1 .. Parts(w[k].kind)
        BY <3>2, <3>7
      <4>2. ps[b[k - 1] + i] = [msg |-> w[k], part |-> i]
        BY <1>1, <3>1, <4>1
      <4>3. qs[b[k - 1] + i] = ps[b[k - 1] + i]
        BY <1>4, <3>5, <4>1
      <4>4. QED
        BY <3>2, <4>2, <4>3
    <3>8. QED
      BY <3>6, <3>7
  <2>4. QED
    BY <2>2, <2>3
<1>11. Len(v) = n + 1
  BY <1>3
<1>12. Bounds(d, qs, v, h)
  BY <1>8, <1>9, <1>10, <1>11 DEF Bounds
<1>13. Carries(qs, v, h)
  BY <1>6, <1>11, <1>12 DEF Carries
<1>14. QED
  BY <1>13 DEF qs, v, Cat

(* What a reader has taken of them is not torn.                            *)
LEMMA CarriesUntorn ==
  ASSUME NEW ps \in Seq(Pieces), NEW qs \in Seq(Pieces), NEW w \in Seq(Messages),
         NEW h \in 0 .. Len(w), Carries(Cat(ps, qs), w, h), Within(ps)
  PROVE  ~IsTorn(ps)
<1> SUFFICES ASSUME ps # <<>> PROVE ~IsTorn(ps)
  BY DEF IsTorn
<1> DEFINE n == Len(w)
           all == ps \o qs
           m == w[h + 1]
           p == Parts(m.kind)
<1>1. PICK b \in [h .. n -> Nat] :
    /\ b[h] = 0 /\ b[n] = Len(all)
    /\ \A i, j \in h .. n : i <= j => b[i] <= b[j]
    /\ \A k \in h + 1 .. n :
         /\ b[k] = b[k - 1] + Parts(w[k].kind)
         /\ \A i \in 1 .. Parts(w[k].kind) : all[b[k - 1] + i] = [msg |-> w[k], part |-> i]
  BY DEF Carries, Bounds, Cat
<1>2. /\ n \in Nat /\ h \in Nat /\ h <= n /\ Len(ps) \in Nat /\ Len(qs) \in Nat /\ Len(ps) > 0
  OBVIOUS
<1>4. Len(all) = Len(ps) + Len(qs) /\ \A k \in 1 .. Len(ps) : all[k] = ps[k]
  BY <1>2
<1> HIDE DEF n, all
<1>5. h < n /\ h + 1 \in h + 1 .. n
  <2>1. h # n
    BY <1>1, <1>2, <1>4
  <2>2. QED
    BY <1>2, <2>1
<1>6. m \in Messages /\ p \in 1 .. 3
  <2>1. m \in Messages
    BY <1>2, <1>5 DEF n
  <2>2. QED
    BY <2>1, PartsRange DEF Messages
<1>7. \A i \in 1 .. p : all[i] = [msg |-> m, part |-> i]
  <2>1. h + 1 - 1 = h
    BY <1>2
  <2>2. \A i \in 1 .. p : all[0 + i] = [msg |-> m, part |-> i]
    BY <1>1, <1>5, <2>1
  <2>3. QED
    BY <1>6, <2>2
<1> HIDE DEF m, p
<1>8. \A k \in 1 .. Len(ps) : k \in 1 .. p => ps[k] = [msg |-> m, part |-> k]
  BY <1>4, <1>7
<1>9. ps[1].msg = m
  <2>1. 1 \in 1 .. Len(ps) /\ 1 \in 1 .. p
    BY <1>2, <1>6
  <2>2. ps[1] = [msg |-> m, part |-> 1]
    BY <1>8, <2>1
  <2>3. QED
    BY <2>2
<1>10. CASE Len(ps) <= p
  <2>1. \A k \in 1 .. Len(ps) : k \in 1 .. p
    BY <1>2, <1>6, <1>10
  <2>2. QED
    BY <1>6, <1>8, <1>10, <2>1, InOnePiece DEF p
<1>11. CASE p < Len(ps)
  <2>1. IsTorn(First(p, ps))
    BY <1>2, <1>6, <1>9, <1>11 DEF Within, p
  <2>2. p \in 0 .. Len(ps)
    BY <1>2, <1>6, <1>11
  <2>3. /\ First(p, ps) \in Seq(Pieces) /\ Len(First(p, ps)) = p
        /\ \A k \in 1 .. p : First(p, ps)[k] = ps[k]
    BY <2>2, Cuts
  <2>4. \A k \in 1 .. p : k \in 1 .. Len(ps)
    BY <1>2, <1>6, <1>11
  <2>5. \A k \in 1 .. p : First(p, ps)[k] = [msg |-> m, part |-> k]
    BY <1>8, <2>3, <2>4
  <2>6. First(p, ps) # <<>> /\ Len(First(p, ps)) <= p
    BY <1>6, <2>3
  <2>7. ~IsTorn(First(p, ps))
    BY <1>6, <2>3, <2>5, <2>6, InOnePiece DEF p
  <2>8. QED
    BY <2>1, <2>7
<1>12. QED
  BY <1>2, <1>6, <1>10, <1>11

(* Those that a reader takes as whole are the parts of the next message,   *)
(* and of no other.                                                        *)
LEMMA CarriesLess ==
  ASSUME NEW ps \in Seq(Pieces), NEW qs \in Seq(Pieces), NEW w \in Seq(Messages),
         NEW h \in 0 .. Len(w), Carries(Cat(ps, qs), w, h), IsWhole(ps), ~IsTorn(ps)
  PROVE  h < Len(w) /\ ps = PartsOf(w[h + 1]) /\ Carries(qs, w, h + 1)
<1> DEFINE n == Len(w)
           all == ps \o qs
           m == w[h + 1]
           p == Parts(m.kind)
<1>1. PICK b \in [h .. n -> Nat] :
    /\ b[h] = 0 /\ b[n] = Len(all)
    /\ \A i, j \in h .. n : i <= j => b[i] <= b[j]
    /\ \A k \in h + 1 .. n :
         /\ b[k] = b[k - 1] + Parts(w[k].kind)
         /\ \A i \in 1 .. Parts(w[k].kind) : all[b[k - 1] + i] = [msg |-> w[k], part |-> i]
  BY DEF Carries, Bounds, Cat
<1>2. /\ n \in Nat /\ h \in Nat /\ h <= n /\ Len(ps) \in Nat /\ Len(qs) \in Nat
  OBVIOUS
<1>3. ps # <<>> /\ Len(ps) > 0
  BY DEF IsWhole
<1>4. /\ Len(all) = Len(ps) + Len(qs) /\ \A k \in 1 .. Len(ps) : all[k] = ps[k]
      /\ \A k \in 1 .. Len(qs) : all[Len(ps) + k] = qs[k]
  BY <1>2
<1> HIDE DEF n, all
<1>5. h < n /\ h + 1 \in h + 1 .. n /\ h + 1 \in h .. n /\ n \in h .. n
  <2>1. h # n
    BY <1>1, <1>2, <1>3, <1>4
  <2>2. QED
    BY <1>2, <2>1
<1>6. m \in Messages /\ p \in 1 .. 3
  <2>1. m \in Messages
    BY <1>2, <1>5 DEF n
  <2>2. QED
    BY <2>1, PartsRange DEF Messages
<1>7. /\ b[h + 1] = p
      /\ \A i \in 1 .. p : all[i] = [msg |-> m, part |-> i]
  <2>1. h + 1 - 1 = h
    BY <1>2
  <2>2. /\ b[h + 1] = 0 + p
        /\ \A i \in 1 .. p : all[0 + i] = [msg |-> m, part |-> i]
    BY <1>1, <1>5, <2>1
  <2>3. QED
    BY <1>6, <2>2
<1>8. p <= Len(all)
  BY <1>1, <1>5, <1>7
<1> HIDE DEF m, p
<1>9. ps[1] = [msg |-> m, part |-> 1] /\ Len(ps) = p
  <2>1. 1 \in 1 .. Len(ps) /\ 1 \in 1 .. p
    BY <1>2, <1>3, <1>6
  <2>2. ps[1] = [msg |-> m, part |-> 1]
    BY <1>4, <1>7, <2>1
  <2>3. QED
    BY <2>2 DEF IsWhole, p
<1>10. ps = PartsOf(m)
  <2>1. /\ PartsOf(m) \in Seq(Pieces) /\ Len(PartsOf(m)) = p
        /\ \A k \in 1 .. p : PartsOf(m)[k] = [msg |-> m, part |-> k]
    BY <1>6, PartsOfPieces DEF p
  <2>2. \A k \in 1 .. p : ps[k] = PartsOf(m)[k]
    BY <1>4, <1>7, <1>9, <2>1
  <2>3. QED
    BY <1>9, <2>1, <2>2, SeqEqual
<1> DEFINE d == [k \in h + 1 .. n |-> b[k] - p]
<1>11. \A k \in h + 1 .. n : k \in h .. n /\ b[k] \in Nat /\ b[k] >= p /\ d[k] = b[k] - p
  <2>1. SUFFICES ASSUME NEW k \in h + 1 .. n
        PROVE k \in h .. n /\ b[k] \in Nat /\ b[k] >= p /\ d[k] = b[k] - p
    OBVIOUS
  <2>2. k \in h .. n /\ h + 1 <= k
    BY <1>2
  <2>3. b[k] \in Nat /\ b[h + 1] <= b[k]
    BY <1>1, <1>5, <2>2
  <2>4. QED
    BY <1>6, <1>7, <2>2, <2>3
<1>12. d \in [h + 1 .. n -> Nat]
  BY <1>6, <1>11
<1> HIDE DEF d
<1>13. n \in h + 1 .. n
  BY <1>2, <1>5
<1>14. d[h + 1] = 0 /\ d[n] = Len(qs)
  BY <1>1, <1>2, <1>4, <1>5, <1>6, <1>7, <1>9, <1>11, <1>13
<1>15. \A i, j \in h + 1 .. n : i <= j => d[i] <= d[j]
  <2>1. SUFFICES ASSUME NEW i \in h + 1 .. n, NEW j \in h + 1 .. n, i <= j PROVE d[i] <= d[j]
    OBVIOUS
  <2>2. b[i] <= b[j]
    BY <1>1, <1>11, <2>1
  <2>3. QED
    BY <1>6, <1>11, <2>2
<1>16. ASSUME NEW k \in h + 1 + 1 .. n
       PROVE  /\ d[k] = d[k - 1] + Parts(w[k].kind)
              /\ \A i \in 1 .. Parts(w[k].kind) : qs[d[k - 1] + i] = [msg |-> w[k], part |-> i]
  <2>1. k \in h + 1 .. n /\ k - 1 \in h + 1 .. n /\ k \in 1 .. n
    BY <1>2
  <2>2. Parts(w[k].kind) \in 1 .. 3
    <3>1. w[k] \in Messages
      BY <2>1 DEF n
    <3>2. QED
      BY <3>1, PartsRange DEF Messages
  <2>3. b[k] = b[k - 1] + Parts(w[k].kind) /\ b[k] <= b[n]
    BY <1>1, <1>2, <1>5, <1>11, <2>1
  <2>4. d[k] = b[k] - p /\ d[k - 1] = b[k - 1] - p /\ b[k] \in Nat /\ b[k - 1] \in Nat
        /\ b[k - 1] >= p
    BY <1>11, <2>1
  <2>5. ASSUME NEW i \in 1 .. Parts(w[k].kind)
        PROVE  qs[d[k - 1] + i] = [msg |-> w[k], part |-> i]
    <3> DEFINE x == b[k - 1]
               y == b[k]
               z == b[n]
               g == Parts(w[k].kind)
               e == d[k - 1]
               l == Len(qs)
    <3>1. /\ x \in Nat /\ y \in Nat /\ g \in 1 .. 3 /\ y = x + g /\ y <= z
          /\ e = x - p /\ x >= p /\ i \in 1 .. g
      BY <2>2, <2>3, <2>4
    <3>2. Len(ps) = p /\ z = p + l /\ l \in Nat /\ p \in Nat
      BY <1>1, <1>2, <1>4, <1>6, <1>9
    <3> HIDE DEF x, y, z, g, e, l
    <3>3. e + i \in 1 .. l /\ p + (e + i) = x + i
      BY <3>1, <3>2
    <3>4. e + i \in 1 .. Len(qs) /\ Len(ps) + (e + i) = x + i
      BY <3>2, <3>3 DEF l
    <3>5. all[x + i] = [msg |-> w[k], part |-> i]
      BY <1>1, <2>1 DEF x
    <3>6. qs[e + i] = all[x + i]
      BY <1>4, <3>4
    <3>7. QED
      BY <3>5, <3>6 DEF e
  <2>6. d[k] = d[k - 1] + Parts(w[k].kind)
    BY <1>6, <2>2, <2>3, <2>4
  <2>7. QED
    BY <2>5, <2>6
<1>17. Carries(qs, w, h + 1)
  <2>1. Bounds(d, qs, w, h + 1)
    BY <1>14, <1>15, <1>16 DEF Bounds, n
  <2>2. QED
    BY <1>12, <2>1 DEF Carries, n
<1>18. QED
  BY <1>5, <1>10, <1>17 DEF m, n

(* Where there are parts, there is a message left.                         *)
LEMMA CarriesSome ==
  ASSUME NEW ps \in Seq(Pieces), NEW w \in Seq(Messages), NEW h \in 0 .. Len(w),
         Carries(ps, w, h), ps # <<>>
  PROVE  h < Len(w)
<1>1. PICK b \in [h .. Len(w) -> Nat] : b[h] = 0 /\ b[Len(w)] = Len(ps)
  BY DEF Carries, Bounds
<1>2. Len(ps) # 0 /\ Len(w) \in Nat
  OBVIOUS
<1>3. QED
  BY <1>1, <1>2

(* Five streams in line, in the two ways in which the proofs group them.   *)
LEMMA Bracketed ==
  ASSUME NEW S, NEW s \in Seq(S), NEW t \in Seq(S), NEW u \in Seq(S), NEW v \in Seq(S),
         NEW x \in Seq(S)
  PROVE  Cat(Cat(s, Cat(t, Cat(u, v))), x) = Cat(Cat(s, Cat(t, u)), Cat(v, x))
BY CatSeq, CatAssociative

(* A part that moves from one stream to the one before it stays in the     *)
(* line.                                                                   *)
LEMMA HeadAlong ==
  ASSUME NEW S, NEW s \in Seq(S), NEW t \in Seq(S), NEW u \in Seq(S), t # <<>>
  PROVE  Cat(Append(s, Head(t)), Cat(Tail(t), u)) = Cat(s, Cat(t, u))
<1> DEFINE a == <<Head(t)>>
           b == Tail(t)
<1>1. Head(t) \in S /\ b \in Seq(S) /\ Cat(a, b) = t
  BY HeadTailProperties, ConcatProperties DEF Cat
<1>2. Append(s, Head(t)) = Cat(s, a)
  BY <1>1, AppendIsConcat DEF Cat
<1>3. a \in Seq(S) /\ b \in Seq(S)
  BY <1>1
<1> HIDE DEF a, b
<1>4. Cat(Cat(s, a), Cat(b, u)) = Cat(s, Cat(t, u))
  BY <1>1, <1>3, CatSeq, CatAssociative
<1>5. QED
  BY <1>2, <1>4 DEF b
-----------------------------------------------------------------------------
(* The messages t taken out of a stream are the first of those put in.     *)
InOrder(s, t) == Len(t) <= Len(s) /\ \A k \in DOMAIN t : t[k] = s[k]

(* The parts of connection c that the server has or that are under way,    *)
(* and those the client still has to write.                                *)
UpPipe(c) == Cat(got[c], Cat(sbuf[c], up[c]))

UpRest == Cat(cpending["main"], cpending["load"])

(* The server reads connection c and can make sense of what it reads.      *)
Sound(c) == alive /\ ~deaf[c] /\ sEnd[c] # "closed"

(* The client can write to connection c.                                   *)
Live(c) == running /\ conn = c /\ mpc # "connect"

(* Together they are those of the commands that are not handled yet.       *)
UpParts(c, rest) == Carries(Cat(UpPipe(c), rest), written[c], Len(handled[c]))

(* The last command written is a chunk, and it is not handled.             *)
EndsInChunk(c) ==
  Len(handled[c]) < Len(written[c]) /\ written[c][Len(written[c])].kind = "chunk"

(* Connection c is in step: the first of its commands have been handled,   *)
(* and the rest of them is under way.  What was lost at the end of a       *)
(* connection is some rest that will not come; so is what the load thread  *)
(* still has to write when the connection is closed.                       *)
UpLine(c) ==
  /\ InOrder(written[c], handled[c])
  /\ Sound(c) =>
       IF Live(c) THEN UpParts(c, UpRest)
       ELSE \E rest \in Seq(Pieces) :
              /\ UpParts(c, rest)
              /\ running /\ conn = c /\ cpending["load"] # <<>> => rest # <<>>
  /\ running /\ conn = c /\ cpending["load"] # <<>> => EndsInChunk(c)

(* The last message of a connection is a chunk of which the rest is        *)
(* written to a later one.                                                 *)
Torn(c) ==
  /\ c < conn
  /\ InOrder(written[c], handled[c])
  /\ EndsInChunk(c)
  /\ Sound(c) => \E rest \in Seq(Pieces) : rest # <<>> /\ UpParts(c, rest)

(* A connection is in step, or a chunk was torn on one before it.          *)
UpLines == \A c \in Conns : UpLine(c) \/ \E d \in 1 .. c - 1 : Torn(d)

(* What a step of the server does to a connection: it moves parts along,   *)
(* or it handles the message it has taken.                                 *)
Carried(c) == handled'[c] = handled[c] /\ (Sound(c)' => Sound(c) /\ UpPipe(c)' = UpPipe(c))

Handling(c) ==
  /\ Sound(c) /\ IsWhole(got[c])
  /\ handled'[c] = Append(handled[c], MessageOf(got[c]))
  /\ ~IsTorn(got[c]) => UpPipe(c)' = Cat(sbuf[c], up[c])

(* The types of the streams to the server.                                 *)
LEMMA PipeTypes ==
  ASSUME SocketTypes, ServerTypes, NEW c \in Conns
  PROVE  /\ got[c] \in Seq(Pieces) /\ sbuf[c] \in Seq(Pieces) /\ up[c] \in Seq(Pieces)
         /\ Cat(sbuf[c], up[c]) \in Seq(Pieces) /\ UpPipe(c) \in Seq(Pieces)
<1>1. got[c] \in Seq(Pieces) /\ sbuf[c] \in Seq(Pieces) /\ up[c] \in Seq(Pieces)
  BY DEF SocketTypes, ServerTypes
<1>2. Cat(sbuf[c], up[c]) \in Seq(Pieces)
  BY <1>1, CatSeq
<1>3. QED
  BY <1>1, <1>2, CatSeq DEF UpPipe

(* And of what the client still has to write.                              *)
LEMMA RestTypes ==
  ASSUME ClientTypes
  PROVE  /\ cpending["main"] \in Seq(Pieces) /\ cpending["load"] \in Seq(Pieces)
         /\ UpRest \in Seq(Pieces)
<1>1. cpending["main"] \in Seq(Pieces) /\ cpending["load"] \in Seq(Pieces)
  BY DEF ClientTypes
<1>2. QED
  BY <1>1, CatSeq DEF UpRest

(* What is read from the socket stays in the line.                         *)
LEMMA ReceivesAlong ==
  ASSUME SocketTypes, ServerTypes, NEW c \in Conns, Receive(c)
  PROVE  Cat(sbuf[c], up[c])' = Cat(sbuf[c], up[c])
<1>1. PICK n \in 1 .. Len(up[c]) :
         sbuf'[c] = sbuf[c] \o First(n, up[c]) /\ up'[c] = Rest(n, up[c])
  BY Receives
<1>2. sbuf[c] \in Seq(Pieces) /\ up[c] \in Seq(Pieces) /\ n \in 0 .. Len(up[c])
  BY PipeTypes
<1>3. Cat(Cat(sbuf[c], First(n, up[c])), Rest(n, up[c])) = Cat(sbuf[c], up[c])
  BY <1>2, Moved DEF Cat
<1>4. QED
  BY <1>1, <1>3 DEF Cat

(* What is handled leaves it.                                              *)
LEMMA HandlesAlong ==
  ASSUME SocketTypes, ServerTypes, NEW c \in Conns, Handled(c), IsWhole(got[c]),
         alive, ~deaf[c], sEnd[c] # "closed", UNCHANGED up
  PROVE  Handling(c)
<1>1. /\ handled'[c] = Append(handled[c], MessageOf(got[c])) /\ got'[c] = <<>>
      /\ IsTorn(got[c]) \/ sbuf' = sbuf
  BY HandlesOne, Forgets
<1>2. Cat(sbuf[c], up[c]) \in Seq(Pieces)
  BY PipeTypes
<1>3. ~IsTorn(got[c]) => UpPipe(c)' = Cat(<<>>, Cat(sbuf[c], up[c]))
  BY <1>1 DEF UpPipe
<1>4. ~IsTorn(got[c]) => UpPipe(c)' = Cat(sbuf[c], up[c])
  BY <1>2, <1>3, ConcatEmptySeq DEF Cat
<1>5. QED
  BY <1>1, <1>4 DEF Handling, Sound

(* The server does one or the other to the connection it works on.         *)
LEMMA ServerCarries ==
  ASSUME Frame, NEW c \in Conns, ServerStep(c)
  PROVE  Carried(c) \/ Handling(c)
<1>0. SocketTypes /\ ServerTypes /\ Ends(c) /\ ServerLocks(c)
  BY DEF Frame
<1> USE <1>0
<1>1. CASE UNCHANGED <<got, sbuf, up, handled, alive, deaf, sEnd>>
  BY <1>1 DEF Carried, Sound, UpPipe
<1>2. CASE ~alive' /\ UNCHANGED handled
  BY <1>2 DEF Carried, Sound
<1>3. CASE Accept(c)
  <2>1. /\ UNCHANGED <<got, sbuf, up, handled, alive, deaf>>
        /\ sEnd[c] = "backlog"
    BY <1>3 DEF Accept
  <2>2. QED
    BY <2>1 DEF Carried, Sound, UpPipe
<1>4. CASE Arrive(c)
  <2>1. Cat(sbuf[c], up[c])' = Cat(sbuf[c], up[c])
    BY <1>4, ReceivesAlong DEF Arrive
  <2>2. UNCHANGED <<got, handled, alive, deaf, sEnd>>
    BY <1>4 DEF Arrive
  <2>3. QED
    BY <2>1, <2>2 DEF Carried, Sound, UpPipe
<1>5. CASE SyncRead(c)
  <2>1. Cat(sbuf[c], up[c])' = Cat(sbuf[c], up[c])
    BY <1>5, ReceivesAlong DEF SyncRead
  <2>2. UNCHANGED <<got, handled, alive, deaf, sEnd>>
    BY <1>5 DEF SyncRead
  <2>3. QED
    BY <2>1, <2>2 DEF Carried, Sound, UpPipe
<1>6. CASE ArriveEnd(c) \/ CutOff(c)
  <2>1. sEnd'[c] = "closed" /\ UNCHANGED handled
    BY <1>6 DEF ArriveEnd, HangUp, CutOff, SocketTypes
  <2>2. QED
    BY <2>1 DEF Carried, Sound
<1>7. CASE EntriesLate(c)
  <2>1. deaf'[c] /\ UNCHANGED handled
    BY <1>7 DEF EntriesLate, ServerTypes
  <2>2. QED
    BY <2>1 DEF Carried, Sound
<1>8. CASE Take(c)
  <2>1. /\ sbuf[c] # <<>> /\ got'[c] = Append(got[c], Head(sbuf[c])) /\ sbuf'[c] = Tail(sbuf[c])
        /\ UNCHANGED <<up, handled, alive, deaf, sEnd>>
    BY <1>8 DEF Take, ServerTypes, netVars
  <2>2. got[c] \in Seq(Pieces) /\ sbuf[c] \in Seq(Pieces) /\ up[c] \in Seq(Pieces)
    BY PipeTypes
  <2>3. Cat(Append(got[c], Head(sbuf[c])), Cat(Tail(sbuf[c]), up[c])) = UpPipe(c)
    BY <2>1, <2>2, HeadAlong DEF UpPipe
  <2>6. UpPipe(c)' = UpPipe(c)
    BY <2>1, <2>3 DEF UpPipe
  <2>7. QED
    BY <2>1, <2>6 DEF Carried, Sound
<1>9. alive /\ serving = c => ~deaf[c] /\ sEnd[c] # "closed"
  BY DEF Ends
<1>10. CASE HandleCommand(c) \/ HandleChunk(c) \/ HandleShutdown(c)
  <2>1. Handled(c) /\ IsWhole(got[c]) /\ alive /\ serving = c /\ UNCHANGED up
    BY <1>10 DEF HandleCommand, HandleChunk, HandleShutdown, Whole, Serving, netVars
  <2>2. QED
    BY <1>9, <2>1, HandlesAlong
<1>11. CASE WriteAnswer(c)
  <2>1. Write(c, "io") /\ "io" \in Writers
    BY <1>11 DEF WriteAnswer, Writers
  <2>2. alive /\ UNCHANGED <<up, sEnd>>
    BY <2>1, Writes
  <2>3. UNCHANGED <<alive, deaf>>
    BY <1>11 DEF WriteAnswer
  <2>4. serving = c /\ IsWhole(got[c])
    BY <2>1 DEF Write, Some, ServerLocks
  <2>5. CASE pending'[c]["io"] = <<>>
    <3>1. Handled(c)
      BY <1>11, <2>5 DEF WriteAnswer
    <3>2. QED
      BY <1>9, <2>2, <2>3, <2>4, <3>1, HandlesAlong
  <2>6. CASE pending'[c]["io"] # <<>>
    <3>1. UNCHANGED <<got, sbuf, handled>>
      BY <1>11, <2>6 DEF WriteAnswer
    <3>2. QED
      BY <1>1, <2>2, <2>3, <3>1
  <2>7. QED
    BY <2>5, <2>6
<1>12. CASE SendWrite(c)
  <2>1. Write(c, "send") /\ "send" \in Writers
    BY <1>12 DEF SendWrite, Writers
  <2>2. UNCHANGED <<up, sEnd>>
    BY <2>1, Writes
  <2>3. QED
    BY <1>1, <1>12, <2>2 DEF SendWrite, ioVars
<1>13. CASE ArriveDeaf(c) \/ Overflow(c) \/ BadSize(c) \/ WriteFails(c)
  BY <1>2, <1>13 DEF ArriveDeaf, Overflow, BadSize, WriteFails, Die, ioVars
<1>14. CASE HandleStatus(c) \/ SendFind(c) \/ SendEnd(c) \/ SendLock(c)
  BY <1>1, <1>14 DEF HandleStatus, SendFind, SendEnd, SendLock, netVars, ioVars
<1>15. QED
  BY <1>3, <1>4, <1>5, <1>6, <1>7, <1>8, <1>10, <1>11, <1>12, <1>13, <1>14 DEF ServerStep

(* The parts of a message give the message.                                *)
LEMMA MessageOfParts == ASSUME NEW m \in Messages PROVE MessageOf(PartsOf(m)) = m
<1>1. Parts(m.kind) \in 1 .. 3
  BY PartsRange DEF Messages
<1>2. PartsOf(m)[1] = [msg |-> m, part |-> 1]
  BY <1>1 DEF PartsOf
<1>3. PartsOf(m)[1].msg = m
  BY <1>2
<1>4. ~IsTorn(PartsOf(m))
  <2>1. /\ PartsOf(m) \in Seq(Pieces) /\ Len(PartsOf(m)) = Parts(m.kind)
        /\ \A k \in 1 .. Parts(m.kind) : PartsOf(m)[k] = [msg |-> m, part |-> k]
    BY PartsOfPieces
  <2>2. PartsOf(m) # <<>> /\ Len(PartsOf(m)) <= Parts(m.kind)
    BY <1>1, <2>1
  <2>3. QED
    BY <2>1, <2>2, InOnePiece
<1>5. QED
  BY <1>3, <1>4 DEF MessageOf

(* A message taken from the front of the line is the next one.             *)
LEMMA HandlesInOrder ==
  ASSUME NEW w \in Seq(Messages), NEW t \in Seq(Taken), InOrder(w, t),
         NEW ps \in Seq(Pieces), NEW qs \in Seq(Pieces), IsWhole(ps), Within(ps),
         Carries(Cat(ps, qs), w, Len(t))
  PROVE  /\ ~IsTorn(ps)
         /\ MessageOf(ps) = w[Len(t) + 1] /\ Len(t) < Len(w)
         /\ InOrder(w, Append(t, MessageOf(ps)))
         /\ Carries(qs, w, Len(Append(t, MessageOf(ps))))
         /\ qs # <<>> => Len(Append(t, MessageOf(ps))) < Len(w)
<1>1. Len(t) \in 0 .. Len(w) /\ Len(t) \in Nat /\ Len(w) \in Nat
  BY DEF InOrder
<1>0. ~IsTorn(ps)
  BY <1>1, CarriesUntorn
<1>2. Len(t) < Len(w) /\ ps = PartsOf(w[Len(t) + 1]) /\ Carries(qs, w, Len(t) + 1)
  BY <1>0, <1>1, CarriesLess
<1>3. w[Len(t) + 1] \in Messages
  BY <1>1, <1>2
<1>4. MessageOf(ps) = w[Len(t) + 1] /\ MessageOf(ps) \in Taken
  BY <1>2, <1>3, MessageOfParts DEF Taken
<1> DEFINE u == Append(t, MessageOf(ps))
<1>5. /\ Len(u) = Len(t) + 1 /\ u[Len(t) + 1] = MessageOf(ps)
      /\ \A k \in 1 .. Len(t) : u[k] = t[k]
      /\ u \in Seq(Taken)
  BY <1>4, AppendProperties
<1> HIDE DEF u
<1>6. DOMAIN u = 1 .. Len(t) + 1 /\ DOMAIN t = 1 .. Len(t)
  BY <1>1, <1>5
<1>7. ASSUME NEW k \in DOMAIN u PROVE u[k] = w[k]
  <2>1. k \in 1 .. Len(t) \/ k = Len(t) + 1
    BY <1>1, <1>6
  <2>2. QED
    BY <1>4, <1>5, <1>6, <2>1 DEF InOrder
<1>8. InOrder(w, u)
  BY <1>1, <1>2, <1>5, <1>7 DEF InOrder
<1>9. Len(u) \in 0 .. Len(w)
  BY <1>1, <1>2, <1>5
<1>10. Carries(qs, w, Len(u))
  BY <1>2, <1>5
<1>11. qs # <<>> => Len(u) < Len(w)
  BY <1>9, <1>10, CarriesSome
<1>12. QED
  BY <1>0, <1>2, <1>4, <1>8, <1>10, <1>11 DEF u

(* So a command that is handled is the next one.                           *)
LEMMA HandlingLine ==
  ASSUME SocketTypes, ClientTypes, ServerTypes, NEW c \in Conns, Handling(c), UNCHANGED written,
         InOrder(written[c], handled[c]), NEW rest \in Seq(Pieces), UpParts(c, rest), Measured
  PROVE  /\ InOrder(written[c], handled[c])' /\ UpParts(c, rest)'
         /\ rest # <<>> => Len(handled'[c]) < Len(written[c])
<1> DEFINE qs == Cat(Cat(sbuf[c], up[c]), rest)
<1>1. /\ got[c] \in Seq(Pieces) /\ sbuf[c] \in Seq(Pieces) /\ up[c] \in Seq(Pieces)
      /\ written[c] \in Seq(Messages) /\ handled[c] \in Seq(Taken)
      /\ Cat(sbuf[c], up[c]) \in Seq(Pieces)
  BY PipeTypes DEF ClientTypes, ServerTypes
<1>2. qs \in Seq(Pieces) /\ Cat(UpPipe(c), rest) = Cat(got[c], qs)
  <2>1. Cat(Cat(got[c], Cat(sbuf[c], up[c])), rest) = Cat(got[c], Cat(Cat(sbuf[c], up[c]), rest))
    BY <1>1, CatAssociative
  <2>2. QED
    BY <1>1, <2>1, CatSeq DEF UpPipe
<1>3. rest # <<>> => qs # <<>>
  <2>1. Len(qs) = Len(Cat(sbuf[c], up[c])) + Len(rest)
    BY <1>1 DEF Cat
  <2>2. QED
    BY <1>1, <2>1
<1> HIDE DEF qs
<1>4. Carries(Cat(got[c], qs), written[c], Len(handled[c]))
  BY <1>2 DEF UpParts
<1>5. /\ IsWhole(got[c]) /\ handled'[c] = Append(handled[c], MessageOf(got[c]))
      /\ ~IsTorn(got[c]) => UpPipe(c)' = Cat(sbuf[c], up[c])
      /\ Within(got[c])
  BY DEF Handling, Measured
<1>6. /\ ~IsTorn(got[c])
      /\ InOrder(written[c], handled'[c])
      /\ Carries(qs, written[c], Len(handled'[c]))
      /\ qs # <<>> => Len(handled'[c]) < Len(written[c])
  BY <1>1, <1>2, <1>4, <1>5, HandlesInOrder
<1>7. QED
  BY <1>3, <1>5, <1>6 DEF UpParts, qs

(* A connection stays in step when its parts stay in the line.             *)
LEMMA CarriedLine ==
  ASSUME NEW c \in Conns, Carried(c), written'[c] = written[c], UNCHANGED <<conn, running>>,
         running /\ conn = c => UNCHANGED cpending, mpc' = "connect" <=> mpc = "connect"
  PROVE  UpLine(c) => UpLine(c)'
<1>1. ASSUME NEW rest, Sound(c)', UpParts(c, rest) PROVE UpParts(c, rest)'
  BY <1>1 DEF Carried, UpParts
<1>2. running /\ conn = c => UNCHANGED UpRest
  BY DEF UpRest
<1>3. running /\ conn = c => (UpParts(c, UpRest) /\ Sound(c)' => UpParts(c, UpRest)')
  BY <1>2 DEF UpParts, Carried
<1>4. EndsInChunk(c) => EndsInChunk(c)'
  BY DEF Carried, EndsInChunk
<1>5. InOrder(written[c], handled[c])' = InOrder(written[c], handled[c])
  BY DEF Carried
<1>6. Sound(c)' => Sound(c)
  BY DEF Carried
<1>7. Live(c)' <=> Live(c)
  BY DEF Live
<1>8. ASSUME UpLine(c), Sound(c)'
      PROVE  IF Live(c)' THEN UpParts(c, UpRest)'
             ELSE \E rest \in Seq(Pieces) :
                    /\ UpParts(c, rest)'
                    /\ running' /\ conn' = c /\ cpending'["load"] # <<>> => rest # <<>>
  <2>1. CASE Live(c)
    BY <1>3, <1>6, <1>7, <1>8, <2>1 DEF UpLine, Live
  <2>2. CASE ~Live(c)
    <3>1. PICK rest \in Seq(Pieces) :
             /\ UpParts(c, rest)
             /\ running /\ conn = c /\ cpending["load"] # <<>> => rest # <<>>
      BY <1>6, <1>8, <2>2 DEF UpLine
    <3>2. UpParts(c, rest)'
      BY <1>1, <1>8, <3>1
    <3>3. QED
      BY <1>7, <2>2, <3>1, <3>2
  <2>3. QED
    BY <2>1, <2>2
<1>9. QED
  BY <1>4, <1>5, <1>8 DEF UpLine

(* And when its next command is handled.                                   *)
LEMMA HandledLine ==
  ASSUME SocketTypes, ClientTypes, ServerTypes, Measured, NEW c \in Conns, Handling(c),
         UNCHANGED <<written, cpending, conn, running, mpc>>
  PROVE  UpLine(c) => UpLine(c)'
<1> SUFFICES ASSUME UpLine(c) PROVE UpLine(c)'
  OBVIOUS
<1>1. InOrder(written[c], handled[c]) /\ Sound(c)
  BY DEF UpLine, Handling
<1>2. ASSUME NEW rest \in Seq(Pieces), UpParts(c, rest)
      PROVE  /\ InOrder(written[c], handled[c])' /\ UpParts(c, rest)'
             /\ rest # <<>> => Len(handled'[c]) < Len(written[c])
  BY <1>1, <1>2, HandlingLine
<1>3. CASE Live(c)
  <2>1. UpParts(c, UpRest) /\ UpRest \in Seq(Pieces)
    BY <1>1, <1>3, RestTypes DEF UpLine
  <2>2. /\ InOrder(written[c], handled[c])' /\ UpParts(c, UpRest)'
        /\ UpRest # <<>> => Len(handled'[c]) < Len(written[c])
    <3> DEFINE rest == UpRest
    <3>1. rest \in Seq(Pieces) /\ UpParts(c, rest) /\ rest' = rest
      BY <2>1 DEF UpRest
    <3> HIDE DEF rest
    <3>2. PICK r \in Seq(Pieces) : r = rest /\ UpParts(c, r)
      BY <3>1
    <3>3. /\ InOrder(written[c], handled[c])' /\ UpParts(c, r)'
          /\ r # <<>> => Len(handled'[c]) < Len(written[c])
      BY <1>2, <3>2
    <3>4. UpParts(c, rest)'
      BY <3>1, <3>2, <3>3 DEF UpParts
    <3>5. QED
      BY <3>2, <3>3, <3>4 DEF rest
  <2>3. cpending["load"] # <<>> => UpRest # <<>>
    <3>1. ASSUME NEW p \in Seq(Pieces), NEW q \in Seq(Pieces), q # <<>> PROVE Cat(p, q) # <<>>
      BY <3>1 DEF Cat
    <3>2. QED
      BY <3>1, RestTypes DEF UpRest
  <2>4. cpending["load"] # <<>> => EndsInChunk(c)'
    BY <1>3, <2>2, <2>3 DEF UpLine, EndsInChunk, Live
  <2>5. QED
    BY <1>3, <2>2, <2>4 DEF UpLine, Live
<1>4. CASE ~Live(c)
  <2>1. PICK rest \in Seq(Pieces) :
           /\ UpParts(c, rest)
           /\ running /\ conn = c /\ cpending["load"] # <<>> => rest # <<>>
    BY <1>1, <1>4 DEF UpLine
  <2>2. /\ InOrder(written[c], handled[c])' /\ UpParts(c, rest)'
        /\ rest # <<>> => Len(handled'[c]) < Len(written[c])
    BY <1>2, <2>1
  <2>3. running /\ conn = c /\ cpending["load"] # <<>> => EndsInChunk(c)'
    BY <2>1, <2>2 DEF UpLine, EndsInChunk
  <2>4. ~Live(c)'
    BY <1>4 DEF Live
  <2>5. QED
    BY <2>1, <2>2, <2>3, <2>4 DEF UpLine
<1>5. QED
  BY <1>3, <1>4

(* A torn connection stays torn: the rest of the chunk does not come.      *)
LEMMA CarriedTorn ==
  ASSUME NEW c \in Conns, Torn(c), Carried(c), written'[c] = written[c], c < conn'
  PROVE  Torn(c)'
<1>1. EndsInChunk(c)' /\ InOrder(written[c], handled[c])'
  BY DEF Torn, Carried, EndsInChunk
<1>2. ASSUME Sound(c)' PROVE \E rest \in Seq(Pieces) : rest # <<>> /\ UpParts(c, rest)'
  BY <1>2 DEF Torn, Carried, UpParts
<1>3. QED
  BY <1>1, <1>2 DEF Torn

(* Also when a command before the chunk is handled.                        *)
LEMMA HandledTorn ==
  ASSUME SocketTypes, ClientTypes, ServerTypes, Measured, NEW c \in Conns, Torn(c), Handling(c),
         UNCHANGED <<written, conn>>
  PROVE  Torn(c)'
<1>1. Sound(c) /\ InOrder(written[c], handled[c])
  BY DEF Torn, Handling
<1>2. PICK rest \in Seq(Pieces) : rest # <<>> /\ UpParts(c, rest)
  BY <1>1 DEF Torn
<1>3. /\ InOrder(written[c], handled[c])' /\ UpParts(c, rest)'
      /\ Len(handled'[c]) < Len(written[c])
  BY <1>1, <1>2, HandlingLine
<1>4. EndsInChunk(c)'
  BY <1>3 DEF Torn, EndsInChunk
<1>5. QED
  BY <1>2, <1>3, <1>4 DEF Torn

(* The server leaves the other connections alone.                          *)
LEMMA Elsewhere ==
  ASSUME SocketTypes, ServerTypes, NEW c \in Conns, ServerStep(c), ServerLocks(c),
         NEW d \in Conns, d # c
  PROVE  Carried(d)
<1>1. CASE UNCHANGED <<got[d], sbuf[d], up[d], handled[d], deaf[d], sEnd[d], alive>>
  BY <1>1 DEF Carried, Sound, UpPipe
<1>2. CASE Die
  BY <1>2 DEF Die, Carried, Sound, ioVars
<1>3. CASE Accept(c) \/ ArriveEnd(c) \/ CutOff(c) \/ EntriesLate(c)
  BY <1>1, <1>3
     DEF Accept, ArriveEnd, HangUp, CutOff, EntriesLate, Forget, SocketTypes, ServerTypes, netVars
<1>4. CASE Arrive(c) \/ SyncRead(c)
  <2>1. Receive(c) /\ UNCHANGED <<sEnd, alive, got, handled, deaf>>
    BY <1>4 DEF Arrive, SyncRead
  <2>2. up'[d] = up[d] /\ sbuf'[d] = sbuf[d]
    BY <2>1, Receives
  <2>3. QED
    BY <1>1, <2>1, <2>2
<1>5. CASE Take(c)
  BY <1>1, <1>5 DEF Take, ServerTypes, netVars
<1>10. ASSUME Handled(c), IsWhole(got[c])
       PROVE  got'[d] = got[d] /\ sbuf'[d] = sbuf[d] /\ handled'[d] = handled[d]
  BY <1>10, HandlesOne, Forgets
<1>6. CASE HandleCommand(c) \/ HandleChunk(c) \/ HandleShutdown(c)
  <2>1. Handled(c) /\ IsWhole(got[c]) /\ UNCHANGED <<netVars, alive, deaf>>
    BY <1>6 DEF HandleCommand, HandleChunk, HandleShutdown, Whole
  <2>2. QED
    BY <1>1, <1>10, <2>1 DEF netVars
<1>7. CASE WriteAnswer(c) \/ SendWrite(c)
  <2>1. PICK w \in Writers : Write(c, w)
    BY <1>7 DEF WriteAnswer, SendWrite, Writers
  <2>2. UNCHANGED <<up, sEnd>>
    BY <2>1, Writes
  <2>3. CASE SendWrite(c)
    BY <1>1, <2>2, <2>3 DEF SendWrite, ioVars
  <2>4. CASE WriteAnswer(c)
    <3>1. IsWhole(got[c])
      BY <2>4 DEF WriteAnswer, Write, Some, ServerLocks
    <3>2. got'[d] = got[d] /\ sbuf'[d] = sbuf[d] /\ handled'[d] = handled[d]
      BY <1>10, <2>4, <3>1 DEF WriteAnswer
    <3>3. QED
      BY <1>1, <2>2, <2>4, <3>2 DEF WriteAnswer
  <2>5. QED
    BY <1>7, <2>3, <2>4
<1>8. CASE HandleStatus(c) \/ SendFind(c) \/ SendEnd(c) \/ SendLock(c)
  BY <1>1, <1>8 DEF HandleStatus, SendFind, SendEnd, SendLock, netVars, ioVars
<1>9. QED
  BY <1>2, <1>3, <1>4, <1>5, <1>6, <1>7, <1>8
     DEF ServerStep, ArriveDeaf, Overflow, BadSize, WriteFails

(* Connections in step stay so, and torn ones stay torn: that is enough.   *)
LEMMA UpLinesKept ==
  ASSUME UpLines,
         \A c \in Conns : UpLine(c) => UpLine(c)',
         \A c \in Conns : Torn(c) => Torn(c)'
  PROVE  UpLines'
<1>1. \A c \in Conns : \A d \in 1 .. c - 1 : d \in Conns
  BY MaxConnsAssumption DEF Conns
<1>2. QED
  BY <1>1 DEF UpLines

(* The server keeps the connections in step.                               *)
LEMMA ServerUpLines ==
  ASSUME Frame, UpLines, NEW c \in Conns, ServerStep(c), UNCHANGED clientVars
  PROVE  UpLines'
<1>1. SocketTypes /\ ClientTypes /\ ServerTypes /\ Measured /\ ServerLocks(c)
  BY DEF Frame
<1>2. UNCHANGED <<written, cpending, conn, running, mpc>>
  BY DEF clientVars, mainVars, writeVars
<1>3. \A d \in Conns : Carried(d) \/ Handling(d)
  BY <1>1, ServerCarries, Elsewhere
<1>4. \A d \in Conns : UpLine(d) => UpLine(d)'
  BY <1>1, <1>2, <1>3, CarriedLine, HandledLine
<1>5. \A d \in Conns : Torn(d) => Torn(d)'
  <2>1. \A d \in Conns : Torn(d) => d < conn'
    BY <1>2 DEF Torn
  <2>2. QED
    BY <1>1, <1>2, <1>3, <2>1, CarriedTorn, HandledTorn
<1>6. QED
  BY <1>4, <1>5, UpLinesKept

(* So does its end.                                                        *)
LEMMA ExitUpLines ==
  ASSUME UpLines, Exit, UNCHANGED clientVars
  PROVE  UpLines'
<1>1. \A d \in Conns : Carried(d)
  BY DEF Exit, Die, Carried, Sound, ioVars
<1>2. UNCHANGED <<written, cpending, conn, running, mpc>>
  BY DEF clientVars, mainVars, writeVars
<1>3. \A d \in Conns : UpLine(d) => UpLine(d)'
  BY <1>1, <1>2, CarriedLine
<1>4. \A d \in Conns : Torn(d) => Torn(d)'
  <2>1. \A d \in Conns : Torn(d) => d < conn'
    BY <1>2 DEF Torn
  <2>2. QED
    BY <1>1, <1>2, <2>1, CarriedTorn
<1>5. QED
  BY <1>3, <1>4, UpLinesKept

(* A line with something at its end is not empty.                          *)
LEMMA NotEmpty ==
  ASSUME NEW s \in Seq(Pieces), NEW t \in Seq(Pieces), t # <<>>
  PROVE  Cat(s, t) # <<>>
BY DEF Cat

(* Nothing more in a line.                                                 *)
LEMMA Emptied == ASSUME NEW s \in Seq(Pieces) PROVE Cat(s, <<>>) = s /\ Cat(<<>>, s) = s
BY ConcatEmptySeq DEF Cat

(* A stream cut in two.                                                    *)
LEMMA CutsCat ==
  ASSUME NEW s \in Seq(Pieces), NEW n \in 0 .. Len(s)
  PROVE  /\ First(n, s) \in Seq(Pieces) /\ Rest(n, s) \in Seq(Pieces)
         /\ Cat(First(n, s), Rest(n, s)) = s
BY Cuts DEF Cat

(* Parts that the client writes are where they were in the line.           *)
LEMMA PutAlong ==
  ASSUME NEW a \in Seq(Pieces), NEW b \in Seq(Pieces), NEW u \in Seq(Pieces),
         NEW p \in Seq(Pieces), NEW r \in Seq(Pieces), NEW n \in 0 .. Len(p)
  PROVE  Cat(Cat(a, Cat(b, Cat(u, First(n, p)))), Cat(Rest(n, p), r))
           = Cat(Cat(a, Cat(b, u)), Cat(p, r))
<1> DEFINE f == First(n, p)
           g == Rest(n, p)
<1>1. f \in Seq(Pieces) /\ g \in Seq(Pieces) /\ Cat(f, g) = p
  BY CutsCat
<1> HIDE DEF f, g
<1>2. Cat(g, r) \in Seq(Pieces)
  BY <1>1, CatSeq
<1>3. Cat(Cat(a, Cat(b, Cat(u, f))), Cat(g, r)) = Cat(Cat(a, Cat(b, u)), Cat(f, Cat(g, r)))
  BY <1>1, <1>2, Bracketed
<1>4. Cat(f, Cat(g, r)) = Cat(p, r)
  BY <1>1, CatAssociative
<1>5. QED
  BY <1>3, <1>4 DEF f, g

(* The main thread writes: its parts come before those of the load thread, *)
(* which has none then, so that they go on where the line ends.            *)
LEMMA MainPuts ==
  ASSUME SocketTypes, ClientTypes, ServerTypes, ClientLocks, Beginning,
         \A c \in Conns : Ends(c), PutParts("main"), running, mpc' # "connect",
         UNCHANGED <<got, sbuf, handled, written, alive, deaf, sEnd, conn, running>>
  PROVE  /\ \A c \in Conns : c # conn => Carried(c)
         /\ conn \in Conns /\ (UpLine(conn) => UpLine(conn)')
<1>1. cpending["main"] # <<>> /\ conn > 0 /\ conn \in Conns
  BY PutsSome DEF Beginning, ClientTypes, Conns
<1>2. PICK n \in 1 .. Len(cpending["main"]) :
        /\ cEnd[conn] = "open"
        /\ up'[conn] = IF sEnd[conn] = "closed" THEN up[conn]
                       ELSE Cat(up[conn], First(n, cpending["main"]))
        /\ \A c \in Conns : c # conn => up'[c] = up[c]
        /\ cpending'["main"] = Rest(n, cpending["main"])
        /\ cpending'["load"] = cpending["load"]
  BY <1>1, Puts DEF Cat
<1>3. \A c \in Conns : c # conn => Carried(c)
  BY <1>2 DEF Carried, Sound, UpPipe
<1>4. ASSUME sEnd[conn] # "closed"
      PROVE  Cat(UpPipe(conn), UpRest)' = Cat(UpPipe(conn), UpRest)
  <2>1. /\ got[conn] \in Seq(Pieces) /\ sbuf[conn] \in Seq(Pieces) /\ up[conn] \in Seq(Pieces)
        /\ cpending["main"] \in Seq(Pieces) /\ cpending["load"] \in Seq(Pieces)
        /\ n \in 0 .. Len(cpending["main"])
    BY <1>1, PipeTypes, RestTypes
  <2>2. Cat(UpPipe(conn), UpRest)' =
          Cat(Cat(got[conn], Cat(sbuf[conn], Cat(up[conn], First(n, cpending["main"])))),
              Cat(Rest(n, cpending["main"]), cpending["load"]))
    BY <1>2, <1>4 DEF UpPipe, UpRest
  <2>3. Cat(Cat(got[conn], Cat(sbuf[conn], Cat(up[conn], First(n, cpending["main"])))),
            Cat(Rest(n, cpending["main"]), cpending["load"]))
          = Cat(Cat(got[conn], Cat(sbuf[conn], up[conn])), Cat(cpending["main"], cpending["load"]))
    <3> DEFINE a == got[conn]
               b == sbuf[conn]
               u == up[conn]
               p == cpending["main"]
               r == cpending["load"]
    <3>1. /\ a \in Seq(Pieces) /\ b \in Seq(Pieces) /\ u \in Seq(Pieces) /\ p \in Seq(Pieces)
          /\ r \in Seq(Pieces) /\ n \in 0 .. Len(p)
      BY <2>1
    <3> HIDE DEF a, b, u, p, r
    <3>2. Cat(Cat(a, Cat(b, Cat(u, First(n, p)))), Cat(Rest(n, p), r))
            = Cat(Cat(a, Cat(b, u)), Cat(p, r))
      BY <3>1, PutAlong
    <3>3. QED
      BY <3>2 DEF a, b, u, p, r
  <2>4. QED
    BY <2>2, <2>3 DEF UpPipe, UpRest
<1>5. UpLine(conn) => UpLine(conn)'
  <2>1. Sound(conn)' <=> Sound(conn)
    BY DEF Sound
  <2>2. Sound(conn) => sEnd[conn] # "closed"
    BY DEF Sound
  <2>3. EndsInChunk(conn)' <=> EndsInChunk(conn)
    BY DEF EndsInChunk
  <2>4. Sound(conn) => (UpParts(conn, UpRest)' <=> UpParts(conn, UpRest))
    BY <1>4, <2>2 DEF UpParts
  <2>5. Live(conn) /\ Live(conn)'
    BY <1>1, <1>2 DEF Live, Ends
  <2>6. QED
    BY <1>2, <2>1, <2>3, <2>4, <2>5 DEF UpLine
<1>6. QED
  BY <1>1, <1>3, <1>5

(* The load thread writes: the main thread has nothing to write then.      *)
LEMMA LoadPuts ==
  ASSUME SocketTypes, ClientTypes, ServerTypes, ClientLocks, Beginning,
         \A c \in Conns : Ends(c), PutParts("load"), running,
         UNCHANGED <<got, sbuf, handled, written, alive, deaf, sEnd, conn, running, mpc>>
  PROVE  /\ \A c \in Conns : c # conn => Carried(c)
         /\ conn \in Conns /\ (UpLine(conn) => UpLine(conn)')
<1>1. cpending["load"] # <<>> /\ conn > 0 /\ conn \in Conns /\ cpending["main"] = <<>>
  BY PutsSome DEF Beginning, ClientTypes, ClientLocks, Conns
<1>2. PICK n \in 1 .. Len(cpending["load"]) :
        /\ cEnd[conn] = "open"
        /\ up'[conn] = IF sEnd[conn] = "closed" THEN up[conn]
                       ELSE Cat(up[conn], First(n, cpending["load"]))
        /\ \A c \in Conns : c # conn => up'[c] = up[c]
        /\ cpending'["load"] = Rest(n, cpending["load"])
        /\ cpending'["main"] = cpending["main"]
  BY <1>1, Puts DEF Cat
<1>3. \A c \in Conns : c # conn => Carried(c)
  BY <1>2 DEF Carried, Sound, UpPipe
<1>4. ASSUME sEnd[conn] # "closed"
      PROVE  Cat(UpPipe(conn), UpRest)' = Cat(UpPipe(conn), UpRest)
  <2> DEFINE a == got[conn]
             b == sbuf[conn]
             u == up[conn]
             p == cpending["load"]
  <2>1. /\ a \in Seq(Pieces) /\ b \in Seq(Pieces) /\ u \in Seq(Pieces) /\ p \in Seq(Pieces)
        /\ n \in 0 .. Len(p)
    BY <1>1, PipeTypes, RestTypes
  <2>2. Cat(UpPipe(conn), UpRest)' =
          Cat(Cat(a, Cat(b, Cat(u, First(n, p)))), Cat(<<>>, Rest(n, p)))
    BY <1>1, <1>2, <1>4 DEF UpPipe, UpRest
  <2>3. Cat(UpPipe(conn), UpRest) = Cat(Cat(a, Cat(b, u)), Cat(<<>>, p))
    BY <1>1 DEF UpPipe, UpRest
  <2> HIDE DEF a, b, u, p
  <2>4. PICK e \in Seq(Pieces) : e = <<>>
    BY EmptySeq
  <2>5. /\ First(n, p) \in Seq(Pieces) /\ Rest(n, p) \in Seq(Pieces)
        /\ Cat(<<>>, Rest(n, p)) = Cat(Rest(n, p), <<>>) /\ Cat(<<>>, p) = Cat(p, <<>>)
    BY <2>1, CutsCat, Emptied
  <2>6. ASSUME NEW r \in Seq(Pieces)
        PROVE  Cat(Cat(a, Cat(b, Cat(u, First(n, p)))), Cat(Rest(n, p), r))
                 = Cat(Cat(a, Cat(b, u)), Cat(p, r))
    BY <2>1, PutAlong
  <2>7. QED
    BY <2>2, <2>3, <2>4, <2>5, <2>6
<1>5. UpLine(conn) => UpLine(conn)'
  <2>1. Sound(conn)' <=> Sound(conn)
    BY DEF Sound
  <2>2. Sound(conn) => sEnd[conn] # "closed"
    BY DEF Sound
  <2>3. EndsInChunk(conn)' <=> EndsInChunk(conn)
    BY DEF EndsInChunk
  <2>4. Sound(conn) => (UpParts(conn, UpRest)' <=> UpParts(conn, UpRest))
    BY <1>4, <2>2 DEF UpParts
  <2>5. Live(conn) /\ Live(conn)'
    BY <1>1, <1>2 DEF Live, Ends
  <2>6. QED
    BY <1>1, <2>1, <2>3, <2>4, <2>5 DEF UpLine
<1>6. QED
  BY <1>1, <1>3, <1>5

(* A message more that is written, and not handled yet.                    *)
LEMMA OrderMore ==
  ASSUME NEW w \in Seq(Messages), NEW t \in Seq(Taken), InOrder(w, t), NEW m \in Messages
  PROVE  /\ InOrder(Append(w, m), t) /\ Len(t) < Len(Append(w, m))
         /\ Append(w, m)[Len(Append(w, m))] = m
<1>1. /\ Len(Append(w, m)) = Len(w) + 1 /\ Append(w, m)[Len(w) + 1] = m
      /\ \A k \in 1 .. Len(w) : Append(w, m)[k] = w[k]
  BY AppendProperties
<1>2. Len(t) \in Nat /\ Len(w) \in Nat /\ Len(t) <= Len(w) /\ DOMAIN t = 1 .. Len(t)
  BY DEF InOrder
<1>3. QED
  BY <1>1, <1>2 DEF InOrder

(* A thread begins to write: nothing was left to write before.             *)
LEMMA BeginsLine ==
  ASSUME SocketTypes, ClientTypes, ServerTypes, ClientLocks, NEW w \in {"main", "load"},
         NEW m \in Messages, BeginWrite(w, m), conn > 0, running,
         w = "load" => m.kind = "chunk", mpc' = "connect" <=> mpc = "connect",
         UNCHANGED <<got, sbuf, up, handled, alive, deaf, sEnd, conn, running>>
  PROVE  /\ \A c \in Conns : c # conn => Carried(c) /\ written'[c] = written[c]
         /\ conn \in Conns /\ (UpLine(conn) => UpLine(conn)')
<1>1. /\ conn \in Conns /\ cmutex = "none"
      /\ cpending'[w] = PartsOf(m) /\ written'[conn] = Append(written[conn], m)
      /\ \A v \in {"main", "load"} : v # w => cpending'[v] = cpending[v]
      /\ \A c \in Conns : c # conn => written'[c] = written[c]
  BY Begins
<1>2. cpending["main"] = <<>> /\ cpending["load"] = <<>>
  BY <1>1 DEF ClientLocks
<1>3. \A c \in Conns : c # conn => Carried(c) /\ written'[c] = written[c]
  BY <1>1 DEF Carried, Sound, UpPipe
<1>4. UpRest' = PartsOf(m) /\ UpRest = <<>>
  <2>1. PartsOf(m) \in Seq(Pieces) /\ <<>> \in Seq(Pieces)
    BY PartsOfPieces, EmptySeq
  <2>2. UpRest = <<>>
    BY <1>2, <2>1, Emptied DEF UpRest
  <2>3. UpRest' = Cat(PartsOf(m), <<>>) \/ UpRest' = Cat(<<>>, PartsOf(m))
    BY <1>1, <1>2 DEF UpRest
  <2>4. QED
    BY <2>1, <2>2, <2>3, Emptied
<1>5. ASSUME UpLine(conn) PROVE UpLine(conn)'
  <2>1. written[conn] \in Seq(Messages) /\ handled[conn] \in Seq(Taken)
        /\ UpPipe(conn) \in Seq(Pieces)
    BY <1>1, PipeTypes DEF ClientTypes, ServerTypes
  <2>2. InOrder(written[conn], handled[conn])
    BY <1>5 DEF UpLine
  <2>3. /\ InOrder(written'[conn], handled[conn]) /\ Len(handled[conn]) < Len(written'[conn])
        /\ written'[conn][Len(written'[conn])] = m
    BY <1>1, <2>1, <2>2, OrderMore
  <2>8. Len(handled[conn]) \in 0 .. Len(written[conn]) /\ UpPipe(conn)' = UpPipe(conn)
    BY <2>1, <2>2 DEF InOrder, UpPipe
  <2>4. ASSUME Sound(conn), Live(conn) PROVE UpParts(conn, UpRest)'
    <3>1. Carries(Cat(UpPipe(conn), <<>>), written[conn], Len(handled[conn]))
      BY <1>4, <1>5, <2>4 DEF UpLine, UpParts
    <3>2. Carries(UpPipe(conn), written[conn], Len(handled[conn]))
      BY <2>1, <3>1, Emptied
    <3>4. Carries(Cat(UpPipe(conn), PartsOf(m)), Append(written[conn], m), Len(handled[conn]))
      BY <2>1, <2>8, <3>2, CarriesMore
    <3>6. QED
      BY <1>1, <1>4, <2>8, <3>4 DEF UpParts
  <2>9. ASSUME Sound(conn), ~Live(conn)
        PROVE  \E rest \in Seq(Pieces) : rest # <<>> /\ UpParts(conn, rest)'
    <3>1. PICK r \in Seq(Pieces) : UpParts(conn, r)
      BY <1>5, <2>9 DEF UpLine
    <3>2. Cat(UpPipe(conn), r) \in Seq(Pieces)
          /\ Carries(Cat(UpPipe(conn), r), written[conn], Len(handled[conn]))
      BY <2>1, <3>1, CatSeq DEF UpParts
    <3>3. Carries(Cat(Cat(UpPipe(conn), r), PartsOf(m)), Append(written[conn], m),
                  Len(handled[conn]))
      BY <2>1, <2>8, <3>2, CarriesMore
    <3>4. PartsOf(m) \in Seq(Pieces) /\ PartsOf(m) # <<>>
      <4>1. Parts(m.kind) \in 1 .. 3
        BY PartsRange DEF Messages
      <4>2. PartsOf(m) \in Seq(Pieces) /\ Len(PartsOf(m)) = Parts(m.kind)
        BY PartsOfPieces
      <4>3. QED
        BY <4>1, <4>2
    <3>5. PICK rest \in Seq(Pieces) : rest = Cat(r, PartsOf(m)) /\ rest # <<>>
      BY <3>4, CatSeq, NotEmpty
    <3>6. Cat(Cat(UpPipe(conn), r), PartsOf(m)) = Cat(UpPipe(conn), rest)
      BY <2>1, <3>4, <3>5, CatAssociative
    <3>7. UpParts(conn, rest)'
      BY <1>1, <2>8, <3>3, <3>6 DEF UpParts
    <3>8. QED
      BY <3>5, <3>7
  <2>10. Live(conn)' <=> Live(conn)
    BY DEF Live
  <2>5. Sound(conn)' <=> Sound(conn)
    BY DEF Sound
  <2>6. cpending'["load"] # <<>> => EndsInChunk(conn)'
    <3>1. cpending'["load"] # <<>> => w = "load"
      BY <1>1, <1>2
    <3>2. QED
      BY <2>3, <3>1 DEF EndsInChunk
  <2>7. QED
    BY <2>3, <2>4, <2>5, <2>6, <2>9, <2>10 DEF UpLine
<1>6. QED
  BY <1>1, <1>3, <1>5

(* A line that is cut short is one of which the rest will not come.        *)
LEMMA CutLine ==
  ASSUME SocketTypes, ServerTypes, NEW c \in Conns, NEW n \in 0 .. Len(up[c]),
         up'[c] = First(n, up[c]), UNCHANGED <<got, sbuf, handled, written>>,
         NEW rest \in Seq(Pieces), UpParts(c, rest)
  PROVE  \E r \in Seq(Pieces) : UpParts(c, r)' /\ (rest # <<>> => r # <<>>)
<1> DEFINE a == got[c]
           b == sbuf[c]
           u == up[c]
           f == First(n, u)
           r == Cat(Rest(n, u), rest)
<1>1. a \in Seq(Pieces) /\ b \in Seq(Pieces) /\ u \in Seq(Pieces)
  BY PipeTypes
<1>2. UpPipe(c)' = Cat(a, Cat(b, f)) /\ UpPipe(c) = Cat(a, Cat(b, u))
  BY DEF UpPipe
<1> HIDE DEF a, b
<1>3. f \in Seq(Pieces) /\ Rest(n, u) \in Seq(Pieces) /\ Cat(f, Rest(n, u)) = u
  BY <1>1, CutsCat
<1>4. Cat(Cat(a, Cat(b, Cat(f, Rest(n, u)))), rest) = Cat(Cat(a, Cat(b, f)), r)
  BY <1>1, <1>3, Bracketed
<1>5. r \in Seq(Pieces) /\ (rest # <<>> => r # <<>>)
  BY <1>3, CatSeq, NotEmpty
<1> HIDE DEF r, f, u
<1>6. Cat(UpPipe(c), rest) = Cat(UpPipe(c)', r)
  BY <1>2, <1>3, <1>4
<1>7. Carries(Cat(UpPipe(c)', r), written[c], Len(handled[c]))
  BY <1>6 DEF UpParts
<1>8. PICK q \in Seq(Pieces) : q = r
  BY <1>5
<1>9. Carries(Cat(UpPipe(c)', q), written[c], Len(handled[c]))
  BY <1>7, <1>8
<1>10. UpParts(c, q)'
  BY <1>9 DEF UpParts
<1>11. rest # <<>> => q # <<>>
  BY <1>5, <1>8
<1>12. QED
  BY <1>10, <1>11

(* A step that concerns the present connection only.                       *)
LEMMA OneLine ==
  ASSUME ClientTypes, UpLines, UNCHANGED <<conn, running>>,
         mpc' = "connect" <=> mpc = "connect",
         \A c \in Conns : c # conn => Carried(c) /\ written'[c] = written[c],
         conn \in Conns => (UpLine(conn) => UpLine(conn)')
  PROVE  UpLines'
<1>1. ASSUME NEW c \in Conns PROVE UpLine(c) => UpLine(c)'
  <2>1. CASE c = conn
    BY <2>1
  <2>2. CASE c # conn
    BY <2>2, CarriedLine
  <2>3. QED
    BY <2>1, <2>2
<1>2. ASSUME NEW c \in Conns, Torn(c) PROVE Torn(c)'
  <2>1. c < conn /\ c < conn' /\ c # conn
    BY <1>2 DEF Torn, Conns, ClientTypes
  <2>2. QED
    BY <1>2, <2>1, CarriedTorn
<1>3. QED
  BY <1>1, <1>2, UpLinesKept

(* The client leaves, or closes its connection: what has not left it yet   *)
(* is lost, at the end of the line.                                        *)
LEMMA LeaveUpLines ==
  ASSUME Frame, UpLines, Leave \/ Open, UNCHANGED serverVars
  PROVE  UpLines'
<1>1. /\ SocketTypes /\ ClientTypes /\ ServerTypes /\ Threads
      /\ \A c \in Conns : Ends(c)
  BY DEF Frame
<1>2. /\ UNCHANGED <<got, sbuf, handled, written, sEnd, alive, deaf, conn, cpending>>
      /\ running' => running /\ mpc' = "connect"
      /\ \A c \in Conns : \E n \in 0 .. Len(up[c]) : up'[c] = First(n, up[c])
  <2>1. UNCHANGED <<got, sbuf, handled, alive, deaf>>
    BY DEF serverVars, ioVars, outVars
  <2>2. CASE Leave
    BY <1>1, <2>1, <2>2, Leaves DEF mainVars, writeVars
  <2>3. CASE Open
    BY <1>1, <2>1, <2>3, Closes DEF writeVars
  <2>4. QED
    BY <2>2, <2>3
<1>3. ASSUME NEW c \in Conns, NEW rest \in Seq(Pieces), UpParts(c, rest)
      PROVE  \E r \in Seq(Pieces) : UpParts(c, r)' /\ (rest # <<>> => r # <<>>)
  <2>1. PICK n \in 0 .. Len(up[c]) : up'[c] = First(n, up[c])
    BY <1>2
  <2>2. QED
    BY <1>1, <1>2, <1>3, <2>1, CutLine
<1>4. \A c \in Conns : Sound(c)' = Sound(c) /\ EndsInChunk(c)' = EndsInChunk(c)
  BY <1>2 DEF Sound, EndsInChunk
<1>5. ASSUME NEW c \in Conns, UpLine(c) PROVE UpLine(c)'
  <2>1. ASSUME Sound(c)
        PROVE  \E rest \in Seq(Pieces) :
                 /\ UpParts(c, rest)
                 /\ running /\ conn = c /\ cpending["load"] # <<>> => rest # <<>>
    <3>1. CASE Live(c)
      <4>1. PICK rest \in Seq(Pieces) : rest = UpRest
        BY <1>1, RestTypes
      <4>2. cpending["load"] # <<>> => rest # <<>>
        BY <1>1, <4>1, RestTypes, NotEmpty DEF UpRest
      <4>3. UpParts(c, rest)
        BY <1>5, <2>1, <3>1, <4>1 DEF UpLine
      <4>4. QED
        BY <4>2, <4>3
    <3>2. CASE ~Live(c)
      BY <1>5, <2>1, <3>2 DEF UpLine
    <3>3. QED
      BY <3>1, <3>2
  <2>2. ASSUME Sound(c)
        PROVE  \E rest \in Seq(Pieces) :
                 /\ UpParts(c, rest)'
                 /\ running' /\ conn' = c /\ cpending'["load"] # <<>> => rest # <<>>
    <3>1. PICK rest \in Seq(Pieces) :
             /\ UpParts(c, rest)
             /\ running /\ conn = c /\ cpending["load"] # <<>> => rest # <<>>
      BY <2>1, <2>2
    <3>2. PICK r \in Seq(Pieces) : UpParts(c, r)' /\ (rest # <<>> => r # <<>>)
      BY <1>3, <3>1
    <3>3. QED
      BY <1>2, <3>1, <3>2
  <2>3. InOrder(written[c], handled[c])'
    BY <1>2, <1>5 DEF UpLine
  <2>4. ~Live(c)'
    BY <1>2 DEF Live
  <2>5. QED
    BY <1>2, <1>4, <1>5, <2>2, <2>3, <2>4 DEF UpLine
<1>6. ASSUME NEW c \in Conns, Torn(c) PROVE Torn(c)'
  <2>1. ASSUME Sound(c) PROVE \E rest \in Seq(Pieces) : rest # <<>> /\ UpParts(c, rest)'
    BY <1>3, <1>6, <2>1 DEF Torn
  <2>2. InOrder(written[c], handled[c])' /\ EndsInChunk(c)' /\ c < conn'
    BY <1>2, <1>4, <1>6 DEF Torn
  <2>3. QED
    BY <1>4, <2>1, <2>2 DEF Torn
<1>7. QED
  BY <1>5, <1>6, UpLinesKept

(* A new connection begins empty, unless the load thread is in the middle  *)
(* of a chunk: then the chunk is torn.                                     *)
LEMMA OpenUpLines ==
  ASSUME Frame, UpLines, Connected, UNCHANGED serverVars
  PROVE  UpLines'
<1>1. /\ SocketTypes /\ ClientTypes /\ ServerTypes /\ ClientLocks /\ Beginning /\ Threads
      /\ \A c \in Conns : Ends(c) /\ Unused(c)
  BY DEF Frame
<1>2. /\ UNCHANGED <<got, sbuf, handled, alive, deaf, serving, armed>>
      /\ running /\ running' = running /\ conn + 1 \in Conns /\ conn' = conn + 1
      /\ mpc = "connect" /\ mpc' # "connect"
      /\ UNCHANGED <<up, written, cpending>>
      /\ \A c \in Conns : c # conn + 1 => sEnd'[c] = sEnd[c]
  <2>1. mpc = "connect"
    BY DEF Connected
  <2>2. QED
    BY <1>1, <2>1, Connects DEF serverVars, ioVars, outVars, writeVars
<1>3. conn \in Nat /\ \A c \in Conns : c \in Nat /\ c # 0
  <2>1. conn \in Nat
    BY <1>1 DEF ClientTypes
  <2>2. \A c \in Conns : c \in Nat /\ c # 0
    BY MaxConnsAssumption DEF Conns
  <2>3. QED
    BY <2>1, <2>2
<1>4. ASSUME NEW c \in Conns, c # conn + 1
      PROVE  /\ Sound(c)' = Sound(c) /\ EndsInChunk(c)' = EndsInChunk(c)
             /\ InOrder(written[c], handled[c])' = InOrder(written[c], handled[c])
             /\ \A rest : UpParts(c, rest)' <=> UpParts(c, rest)
             /\ Carried(c)
  BY <1>2, <1>4 DEF Sound, EndsInChunk, UpParts, UpPipe, Carried
<1>5. ASSUME NEW c \in Conns, c # conn + 1, UpLine(c) PROVE UpLine(c)'
  <2>1. ASSUME Sound(c) PROVE \E rest \in Seq(Pieces) : UpParts(c, rest)'
    <3>1. ~Live(c)
      BY <1>2 DEF Live
    <3>2. QED
      BY <1>4, <1>5, <2>1, <3>1 DEF UpLine
  <2>2. ~(conn' = c) /\ ~Live(c)'
    BY <1>2, <1>5 DEF Live
  <2>3. QED
    BY <1>4, <1>5, <2>1, <2>2 DEF UpLine
<1>6. ASSUME NEW c \in Conns, Torn(c) PROVE Torn(c)'
  <2>1. c < conn' /\ c # conn + 1
    BY <1>2, <1>3, <1>6 DEF Torn
  <2>2. QED
    BY <1>2, <1>4, <1>6, <2>1, CarriedTorn
<1>7. cpending["main"] = <<>>
  BY <1>1, <1>2 DEF ClientLocks
<1>8. CASE cpending["load"] = <<>>
  <2>a. PICK e \in Conns : e = conn + 1
    BY <1>2
  <2>1. e \in Conns /\ e > conn /\ e # 0
    BY <1>3, <2>a
  <2>2. /\ up[e] = <<>> /\ written[e] = <<>> /\ handled[e] = <<>>
        /\ got[e] = <<>> /\ sbuf[e] = <<>>
    BY <1>1, <2>1 DEF Unused, Ends
  <2>3. /\ up'[e] = <<>> /\ written'[e] = <<>> /\ handled'[e] = <<>>
        /\ got'[e] = <<>> /\ sbuf'[e] = <<>>
    BY <1>2, <2>2
  <2>4. cpending'["main"] = <<>> /\ cpending'["load"] = <<>>
    BY <1>2, <1>7, <1>8
  <2>5. Cat(<<>>, <<>>) = <<>> /\ Len(<<>>) = 0 /\ InOrder(<<>>, <<>>) /\ Carries(<<>>, <<>>, 0)
    <3>1. Cat(<<>>, <<>>) = <<>>
      BY EmptySeq, Emptied
    <3>2. Len(<<>>) = 0 /\ <<>> \in Seq(Messages)
      BY EmptySeq
    <3>3. Carries(<<>>, <<>>, Len(<<>>))
      BY <3>2, CarriesNothing
    <3>4. InOrder(<<>>, <<>>)
      BY DEF InOrder
    <3>5. QED
      BY <3>1, <3>2, <3>3, <3>4
  <2>6. UpPipe(e)' = <<>> /\ UpRest' = <<>>
    BY <2>3, <2>4, <2>5 DEF UpPipe, UpRest
  <2>7. UpLine(e)'
    <3>1. InOrder(written[e], handled[e])'
      BY <2>3, <2>5
    <3>2. UpParts(e, UpRest)'
      BY <2>3, <2>5, <2>6 DEF UpParts
    <3>3. Live(e)'
      BY <1>2, <2>a DEF Live
    <3>4. QED
      BY <2>4, <3>1, <3>2, <3>3 DEF UpLine
  <2>8. ASSUME NEW c \in Conns PROVE UpLine(c) => UpLine(c)'
    BY <1>5, <2>7, <2>a
  <2>9. QED
    BY <1>6, <2>8, UpLinesKept
<1>9. CASE cpending["load"] # <<>>
  <2>1. PICK e \in Conns : e = conn
    BY <1>1, <1>9 DEF Beginning, ClientTypes, Conns
  <2>2. e \in 1 .. conn + 1 - 1 /\ e < conn' /\ e # conn + 1
    BY <1>2, <1>3, <2>1
  <2>3. ASSUME UpLine(e) PROVE Torn(e)'
    <3>1. InOrder(written[e], handled[e]) /\ EndsInChunk(e)
      BY <1>2, <1>9, <2>1, <2>3 DEF UpLine
    <3>2. ~Live(e)
      BY <1>2 DEF Live
    <3>3. Sound(e) => \E rest \in Seq(Pieces) : rest # <<>> /\ UpParts(e, rest)
      BY <1>2, <1>9, <2>1, <2>3, <3>2 DEF UpLine
    <3>4. Sound(e)' => \E rest \in Seq(Pieces) : rest # <<>> /\ UpParts(e, rest)'
      BY <1>4, <2>2, <3>3
    <3>5. InOrder(written[e], handled[e])' /\ EndsInChunk(e)'
      BY <1>4, <2>2, <3>1
    <3>6. QED
      BY <2>2, <3>4, <3>5 DEF Torn
  <2>4. ASSUME NEW c \in Conns, UpLine(c) \/ \E d \in 1 .. c - 1 : Torn(d)
        PROVE  UpLine(c)' \/ \E d \in 1 .. c - 1 : Torn(d)'
    <3>1. ASSUME NEW d \in 1 .. c - 1 PROVE d \in Conns
      BY MaxConnsAssumption DEF Conns
    <3>2. CASE \E d \in 1 .. c - 1 : Torn(d)
      BY <1>6, <3>1, <3>2
    <3>3. CASE UpLine(c) /\ c # conn + 1
      BY <1>5, <3>3
    <3>4. CASE c = conn + 1
      <4>1. UpLine(e) \/ \E d \in 1 .. e - 1 : Torn(d)
        BY DEF UpLines
      <4>2. ASSUME NEW d \in 1 .. e - 1 PROVE d \in 1 .. c - 1
        BY <1>3, <2>1, <3>4
      <4>3. e \in 1 .. c - 1
        BY <1>3, <2>1, <3>4
      <4>4. CASE UpLine(e)
        BY <2>3, <4>3, <4>4
      <4>5. CASE \E d \in 1 .. e - 1 : Torn(d)
        BY <1>6, <3>1, <4>2, <4>5
      <4>6. QED
        BY <4>1, <4>4, <4>5
    <3>5. QED
      BY <2>4, <3>2, <3>3, <3>4
  <2>5. QED
    BY <2>4 DEF UpLines
<1>10. QED
  BY <1>8, <1>9

(* The client keeps the connections in step.                               *)
LEMMA ClientUpLines ==
  ASSUME Frame, UpLines, ClientStep, UNCHANGED serverVars
  PROVE  UpLines'
<1>1. /\ SocketTypes /\ ClientTypes /\ ServerTypes /\ ClientLocks /\ Beginning
      /\ \A c \in Conns : Ends(c)
  BY DEF Frame
<1>2. UNCHANGED <<got, sbuf, handled, alive, deaf>>
  BY DEF serverVars, ioVars, outVars
<1>3. CASE Connected
  BY <1>3, OpenUpLines
<1>4. CASE Leave \/ Open
  BY <1>4, LeaveUpLines
<1>5. CASE OpenFails
  <2>1. ~alive /\ UNCHANGED <<up, sEnd, written, conn>> /\ running' = FALSE
    BY <1>5 DEF OpenFails, netVars, mainVars, writeVars
  <2>2. ASSUME NEW c \in Conns, UpLine(c) PROVE UpLine(c)'
    <3>1. ~Sound(c)' /\ (InOrder(written[c], handled[c])' <=> InOrder(written[c], handled[c]))
      BY <1>2, <2>1 DEF Sound
    <3>2. QED
      BY <2>1, <2>2, <3>1 DEF UpLine
  <2>3. ASSUME NEW c \in Conns, Torn(c) PROVE Torn(c)'
    BY <1>2, <2>1, <2>3 DEF Torn, Sound, EndsInChunk
  <2>4. QED
    BY <2>2, <2>3, UpLinesKept
<1>6. CASE /\ UNCHANGED <<up, sEnd, written, cpending, conn, running>>
           /\ mpc' = "connect" <=> mpc = "connect"
  <2>1. \A c \in Conns : Carried(c) /\ written'[c] = written[c]
    BY <1>2, <1>6 DEF Carried, Sound, UpPipe
  <2>2. conn \in Conns => (UpLine(conn) => UpLine(conn)')
    <3>1. ASSUME NEW c \in Conns PROVE UpLine(c) => UpLine(c)'
      BY <1>6, <2>1, CarriedLine
    <3>2. ASSUME conn \in Conns, UpLine(conn) PROVE UpLine(conn)'
      <4>1. PICK c \in Conns : c = conn
        BY <3>2
      <4>2. UpLine(c)'
        BY <3>1, <3>2, <4>1
      <4>3. QED
        BY <1>6, <4>1, <4>2
    <3>3. QED
      BY <3>2
  <2>3. QED
    BY <1>1, <1>6, <2>1, <2>2, OneLine
<1>7. CASE SendCommand
  <2>1. Head(script).msg \in Messages /\ conn > 0 /\ running
    BY <1>1, <1>7, Typed DEF SendCommand, Beginning, Type
  <2>2. /\ BeginWrite("main", Head(script).msg) /\ UNCHANGED <<up, sEnd, conn, running>>
        /\ mpc' = "connect" <=> mpc = "connect"
    BY <1>7 DEF SendCommand, netVars, Type
  <2>3. /\ \A c \in Conns : c # conn => Carried(c) /\ written'[c] = written[c]
        /\ conn \in Conns /\ (UpLine(conn) => UpLine(conn)')
    BY <1>1, <1>2, <2>1, <2>2, BeginsLine
  <2>4. QED
    BY <1>1, <2>2, <2>3, OneLine
<1>8. CASE LoadLock
  <2>1. Head(chunks) \in Chunks /\ conn > 0 /\ running
    BY <1>1, <1>8, HeadTailProperties DEF LoadLock, ClientTypes, Beginning
  <2>2. Head(chunks) \in Messages /\ Head(chunks).kind = "chunk"
    BY <2>1 DEF Chunks, Messages, Kinds
  <2>3. BeginWrite("load", Head(chunks)) /\ UNCHANGED <<up, sEnd, conn, running, mpc>>
    BY <1>8 DEF LoadLock, netVars, mainVars
  <2>4. /\ \A c \in Conns : c # conn => Carried(c) /\ written'[c] = written[c]
        /\ conn \in Conns /\ (UpLine(conn) => UpLine(conn)')
    BY <1>1, <1>2, <2>1, <2>2, <2>3, BeginsLine
  <2>5. QED
    BY <1>1, <2>3, <2>4, OneLine
<1>9. CASE MainWrite
  <2>1. /\ PutParts("main") /\ running /\ UNCHANGED <<sEnd, written, conn, running>>
        /\ mpc # "connect" /\ mpc' # "connect"
    BY <1>9 DEF MainWrite, Disconnect, After
  <2>2. /\ \A c \in Conns : c # conn => Carried(c)
        /\ conn \in Conns /\ (UpLine(conn) => UpLine(conn)')
    BY <1>1, <1>2, <2>1, MainPuts
  <2>3. QED
    BY <1>1, <2>1, <2>2, OneLine
<1>10. CASE LoadWrite
  <2>1. PutParts("load") /\ running /\ UNCHANGED <<sEnd, written, conn, running, mpc>>
    BY <1>10 DEF LoadWrite, mainVars
  <2>2. /\ \A c \in Conns : c # conn => Carried(c)
        /\ conn \in Conns /\ (UpLine(conn) => UpLine(conn)')
    BY <1>1, <1>2, <2>1, LoadPuts
  <2>3. QED
    BY <1>1, <2>1, <2>2, OneLine
<1>11. QED
  <2>1. \/ /\ UNCHANGED <<up, sEnd, written, cpending, conn, running>>
           /\ mpc' = "connect" <=> mpc = "connect"
        \/ Open \/ Connected \/ OpenFails \/ SendCommand \/ Leave \/ MainWrite
        \/ LoadLock \/ LoadWrite
    BY DEF ClientStep, Type, Disconnect, After, Close, Quit, SendNothing, Image, Stop, Joined, QuitJoined, Poll,
           LoadCheck, AnswerEnds, RunReturns, AnswerOverflow, TakePart, ReadAnswerFails, PutFails,
           AnswerArrives, ReadAnswer, HandleAnswer, netVars, mainVars, readVars, writeVars
  <2>2. QED
    BY <1>3, <1>4, <1>5, <1>6, <1>7, <1>8, <1>9, <1>10, <2>1

(* They are at the start.                                                  *)
LEMMA InitUpLines == ASSUME Init PROVE UpLines
<1>1. ASSUME NEW c \in Conns PROVE UpLine(c)
  <2>1. /\ written[c] = <<>> /\ handled[c] = <<>>
        /\ got[c] = <<>> /\ sbuf[c] = <<>> /\ up[c] = <<>>
        /\ cpending["load"] = <<>> /\ cpending["main"] = <<>> /\ conn = 0 /\ conn # c
    BY MaxConnsAssumption DEF Init, NetInit, ClientInit, ServerInit, Conns
  <2>2. Cat(<<>>, <<>>) = <<>> /\ Len(<<>>) = 0 /\ InOrder(<<>>, <<>>) /\ Carries(<<>>, <<>>, 0)
    <3>1. Cat(<<>>, <<>>) = <<>>
      BY EmptySeq, Emptied
    <3>2. Len(<<>>) = 0 /\ <<>> \in Seq(Messages)
      BY EmptySeq
    <3>3. Carries(<<>>, <<>>, Len(<<>>))
      BY <3>2, CarriesNothing
    <3>4. InOrder(<<>>, <<>>)
      BY DEF InOrder
    <3>5. QED
      BY <3>1, <3>2, <3>3, <3>4
  <2>3. PICK rest \in Seq(Pieces) : rest = <<>>
    BY EmptySeq
  <2>4. UpParts(c, rest)
    BY <2>1, <2>2, <2>3 DEF UpParts, UpPipe
  <2>5. QED
    BY <2>1, <2>2, <2>4 DEF UpLine, Live
<1>2. QED
  BY <1>1 DEF UpLines

(* Every step keeps them so.                                               *)
LEMMA NextUpLines == Frame /\ UpLines /\ [Next]_sessionVars => UpLines'
<1> SUFFICES ASSUME Frame, UpLines, [Next]_sessionVars PROVE UpLines'
  OBVIOUS
<1>1. CASE Next
  BY <1>1, Steps, ClientUpLines, ServerUpLines, ExitUpLines
<1>2. CASE UNCHANGED sessionVars
  <2> USE <1>2 DEF sessionVars, netVars, clientVars, serverVars, mainVars, readVars, writeVars,
                  ioVars, outVars
  <2>1. ASSUME NEW c \in Conns PROVE Carried(c)
    BY DEF Carried, Sound, UpPipe
  <2>2. \A c \in Conns : UpLine(c) => UpLine(c)'
    BY <2>1, CarriedLine
  <2>3. ASSUME NEW c \in Conns, Torn(c) PROVE Torn(c)'
    <3>1. c < conn'
      BY <2>3 DEF Torn
    <3>2. QED
      BY <2>1, <2>3, <3>1, CarriedTorn
  <2>4. QED
    BY <2>2, <2>3, UpLinesKept
<1>3. QED
  BY <1>1, <1>2

(* They always are.                                                        *)
THEOREM Lined == Spec => []UpLines
<1>1. Init => UpLines
  BY InitUpLines
<1>2. QED
  BY <1>1, NextUpLines, Framed, PTL DEF Spec

(* What is in order is a prefix.                                           *)
LEMMA InOrderPrefix ==
  ASSUME NEW w \in Seq(Messages), NEW t \in Seq(Taken), InOrder(w, t)
  PROVE  IsPrefix(t, w)
<1>1. /\ Len(t) \in Nat /\ Len(w) \in Nat /\ Len(t) <= Len(w)
      /\ \A k \in 1 .. Len(t) : t[k] = w[k] /\ w[k] \in Messages
  <2>1. Len(t) \in Nat /\ Len(w) \in Nat /\ Len(t) <= Len(w) /\ DOMAIN t = 1 .. Len(t)
    BY DEF InOrder
  <2>2. \A k \in 1 .. Len(t) : k \in 1 .. Len(w)
    BY <2>1
  <2>3. \A k \in 1 .. Len(t) : w[k] \in Messages
    BY <2>2, ElementOfSeq
  <2>4. QED
    BY <2>1, <2>3 DEF InOrder
<1>2. SubSeq(t, 1, Len(t)) = SubSeq(w, 1, Len(t))
  <2> DEFINE a == SubSeq(t, 1, Len(t))
             b == SubSeq(w, 1, Len(t))
  <2>1. a = t
    BY SubSeqFull
  <2>2. b \in Seq(Messages) /\ Len(b) = Len(t) /\ \A k \in 1 .. Len(t) : b[k] = w[k]
    BY <1>1
  <2> HIDE DEF a, b
  <2>3. t \in Seq(Messages)
    <3>1. \A k \in 1 .. Len(t) : t[k] \in Messages
      BY <1>1
    <3>2. QED
      BY <3>1
  <2>4. t = b
    BY <1>1, <2>2, <2>3, SeqEqual
  <2>5. QED
    BY <2>1, <2>4 DEF a, b
<1>3. QED
  BY <1>1, <1>2 DEF IsPrefix

(* The commands of every later connection are handled whole and in their   *)
(* order, unless a chunk was torn on a connection before it                *)
(* (Client.cpp:61-62, 152-159, 237), for any number of connections and any *)
(* script.                                                                 *)
THEOREM Later == Spec => []LaterInStep
<1>1. Frame /\ UpLines => LaterInStep
  <2> SUFFICES ASSUME Frame, UpLines, NEW c \in Conns \ {1}
      PROVE  \/ IsPrefix(handled[c], written[c])
             \/ \E d \in 1 .. c - 1 : \E k \in DOMAIN written[d] :
                  k > Len(handled[d]) /\ written[d][k].kind = "chunk"
    BY DEF LaterInStep, ChunkCut
  <2>1. /\ written \in [Conns -> Seq(Messages)] /\ handled \in [Conns -> Seq(Taken)]
    BY DEF Frame, ClientTypes, ServerTypes
  <2>2. CASE UpLine(c)
    <3>1. /\ written[c] \in Seq(Messages) /\ handled[c] \in Seq(Taken)
          /\ InOrder(written[c], handled[c])
      BY <2>1, <2>2 DEF UpLine
    <3>2. IsPrefix(handled[c], written[c])
      BY <3>1, InOrderPrefix
    <3>3. QED
      BY <3>2
  <2>3. ASSUME NEW d \in 1 .. c - 1, Torn(d)
        PROVE  \E k \in DOMAIN written[d] : k > Len(handled[d]) /\ written[d][k].kind = "chunk"
    <3>1. d \in Conns
      BY MaxConnsAssumption DEF Conns
    <3>2. written[d] \in Seq(Messages) /\ handled[d] \in Seq(Taken) /\ EndsInChunk(d)
      BY <2>1, <2>3, <3>1 DEF Torn
    <3>3. Len(written[d]) \in DOMAIN written[d] /\ Len(written[d]) > Len(handled[d])
      BY <3>2 DEF EndsInChunk
    <3>4. QED
      BY <3>2, <3>3 DEF EndsInChunk
  <2>4. QED
    BY <2>2, <2>3 DEF UpLines
<1>2. QED
  BY <1>1, Framed, Lined, PTL

(* A sequence is a prefix of itself and one element more.                  *)
LEMMA GrowsBy ==
  ASSUME NEW S, NEW s \in Seq(S), NEW e \in S
  PROVE  Len(Append(s, e)) = Len(s) + 1 /\ IsPrefix(s, Append(s, e))
<1> DEFINE t == Append(s, e)
<1>1. t \in Seq(S) /\ Len(t) = Len(s) + 1 /\ \A k \in 1 .. Len(s) : t[k] = s[k]
  BY AppendProperties
<1>2. SubSeq(s, 1, Len(s)) = s
  BY SubSeqFull
<1> HIDE DEF t
<1>3. Len(s) \in Nat
  OBVIOUS
<1> DEFINE u == SubSeq(t, 1, Len(s))
<1>4. u \in Seq(S) /\ Len(u) = Len(s) /\ \A k \in 1 .. Len(s) : u[k] = s[k]
  BY <1>1, <1>3
<1> HIDE DEF u
<1>5. u = s
  BY <1>4, SeqEqual
<1>6. Len(s) <= Len(t)
  BY <1>1, <1>3
<1>7. IsPrefix(s, t)
  BY <1>2, <1>5, <1>6 DEF IsPrefix, u
<1>8. QED
  BY <1>1, <1>7 DEF t

(* The client writes one command at a time.                                *)
LEMMA WrittenMore ==
  ASSUME SocketTypes, ClientTypes, Beginning, ClientStep, NEW c \in Conns
  PROVE  written'[c] = written[c] \/ \E m \in Messages : written'[c] = Append(written[c], m)
<1>1. CASE SendCommand
  <2>1. Head(script).msg \in Messages /\ conn > 0 /\ BeginWrite("main", Head(script).msg)
    BY <1>1, Typed DEF SendCommand, Beginning
  <2>2. /\ written'[conn] = Append(written[conn], Head(script).msg)
        /\ \A d \in Conns : d # conn => written'[d] = written[d]
    BY <2>1, Begins
  <2>3. QED
    BY <2>1, <2>2
<1>2. CASE LoadLock
  <2>1. Head(chunks) \in Chunks /\ conn > 0 /\ BeginWrite("load", Head(chunks))
    BY <1>2, HeadTailProperties DEF LoadLock, ClientTypes, Beginning
  <2>2. Head(chunks) \in Messages
    BY <2>1 DEF Chunks, Messages, Kinds
  <2>3. /\ written'[conn] = Append(written[conn], Head(chunks))
        /\ \A d \in Conns : d # conn => written'[d] = written[d]
    BY <2>1, <2>2, Begins
  <2>4. QED
    BY <2>2, <2>3
<1>3. CASE UNCHANGED written
  BY <1>3
<1>4. QED
  BY <1>1, <1>2, <1>3
     DEF ClientStep, Open, Connected, OpenFails, Close, Quit, SendNothing, Image, Stop, Joined,
         QuitJoined,
         Poll, LoadCheck, AnswerEnds, RunReturns, AnswerOverflow, TakePart, ReadAnswerFails, PutFails, MainWrite,
         LoadWrite, AnswerArrives, ReadAnswer, HandleAnswer, Leave, writeVars

(* What the server has read whole is the next of them.                     *)
LEMMA NextInLine ==
  ASSUME SocketTypes, ClientTypes, ServerTypes, Measured, NEW c \in Conns, UpLine(c), Sound(c),
         IsWhole(got[c])
  PROVE  /\ ~IsTorn(got[c])
         /\ Len(handled[c]) < Len(written[c])
         /\ MessageOf(got[c]) = written[c][Len(handled[c]) + 1]
         /\ InOrder(written[c], Append(handled[c], MessageOf(got[c])))
<1>1. InOrder(written[c], handled[c])
  BY DEF UpLine
<1>2. PICK rest \in Seq(Pieces) : UpParts(c, rest)
  BY <1>1, RestTypes DEF UpLine
<1> DEFINE qs == Cat(Cat(sbuf[c], up[c]), rest)
<1>3. /\ got[c] \in Seq(Pieces) /\ Within(got[c]) /\ written[c] \in Seq(Messages) /\ handled[c] \in Seq(Taken)
      /\ Cat(sbuf[c], up[c]) \in Seq(Pieces)
  BY PipeTypes DEF ClientTypes, ServerTypes, Measured
<1>4. qs \in Seq(Pieces) /\ Cat(UpPipe(c), rest) = Cat(got[c], qs)
  <2>1. Cat(Cat(got[c], Cat(sbuf[c], up[c])), rest) = Cat(got[c], qs)
    BY <1>3, CatAssociative
  <2>2. QED
    BY <1>3, <2>1, CatSeq DEF UpPipe
<1> HIDE DEF qs
<1>5. Carries(Cat(got[c], qs), written[c], Len(handled[c]))
  BY <1>2, <1>4 DEF UpParts
<1>6. QED
  BY <1>1, <1>3, <1>4, <1>5, HandlesInOrder

(* The server handles it.                                                  *)
LEMMA HandledNext ==
  ASSUME SocketTypes, ClientTypes, ServerTypes, Measured, NEW c \in Conns, UpLine(c), Handling(c)
  PROVE  /\ Len(handled[c]) < Len(written[c])
         /\ handled'[c] = Append(handled[c], written[c][Len(handled[c]) + 1])
BY NextInLine DEF Handling

(* Each step puts a command into the first connection, takes the next one  *)
(* out, or does neither.                                                   *)
LEMMA UpStep ==
  ASSUME Frame, UpLines, [Next]_sessionVars
  PROVE  \/ written'[1] = written[1] /\ handled'[1] = handled[1]
         \/ /\ handled'[1] = handled[1]
            /\ \E m \in Messages : written'[1] = Append(written[1], m)
         \/ /\ written'[1] = written[1]
            /\ Len(handled[1]) < Len(written[1])
            /\ handled'[1] = Append(handled[1], written[1][Len(handled[1]) + 1])
<1>1. 1 \in Conns
  BY MaxConnsAssumption DEF Conns
<1>2. UpLine(1)
  BY <1>1 DEF UpLines
<1>3. /\ SocketTypes /\ ClientTypes /\ ServerTypes /\ Beginning /\ Measured
      /\ \A c \in Conns : ServerLocks(c)
  BY DEF Frame
<1>4. CASE ClientStep /\ UNCHANGED serverVars
  BY <1>1, <1>3, <1>4, WrittenMore DEF serverVars, ioVars
<1>5. CASE Exit /\ UNCHANGED clientVars
  BY <1>5 DEF Exit, Die, ioVars, clientVars, writeVars
<1>6. ASSUME NEW c \in Conns, ServerStep(c), UNCHANGED clientVars
      PROVE  /\ written'[1] = written[1]
             /\ \/ handled'[1] = handled[1]
                \/ /\ Len(handled[1]) < Len(written[1])
                   /\ handled'[1] = Append(handled[1], written[1][Len(handled[1]) + 1])
  <2>1. written'[1] = written[1]
    BY <1>6 DEF clientVars, writeVars
  <2>2. Carried(1) \/ Handling(1)
    BY <1>1, <1>3, <1>6, ServerCarries, Elsewhere
  <2>3. QED
    BY <1>1, <1>2, <1>3, <2>1, <2>2, HandledNext DEF Carried
<1>7. CASE UNCHANGED sessionVars
  BY <1>7 DEF sessionVars, clientVars, writeVars, serverVars, ioVars
<1>8. QED
  BY <1>4, <1>5, <1>6, <1>7, Steps

(* The first connection implements Wire: every command is handled whole,   *)
(* in the order of the writes, once (Client.cpp:85-173,                    *)
(* Server.cpp:16-130), although two threads write them and TCP cuts them   *)
(* anywhere.                                                               *)
THEOREM Commands == Spec => CommandsArrive
<1>1. 1 \in Conns
  BY MaxConnsAssumption DEF Conns
<1>2. Init => Up!Init
  BY <1>1 DEF Init, ClientInit, ServerInit, Up!Init
<1>3. Frame /\ UpLines /\ [Next]_sessionVars => [Up!Next]_(Up!wireVars)
  <2> SUFFICES ASSUME Frame, UpLines, [Next]_sessionVars PROVE [Up!Next]_(Up!wireVars)
    OBVIOUS
  <2>1. written[1] \in Seq(Messages) /\ handled[1] \in Seq(Taken)
    BY <1>1 DEF Frame, ClientTypes, ServerTypes
  <2>2. CASE written'[1] = written[1] /\ handled'[1] = handled[1]
    BY <2>2 DEF Up!wireVars
  <2>3. ASSUME handled'[1] = handled[1], NEW m \in Messages, written'[1] = Append(written[1], m)
        PROVE  Up!Next
    <3>1. Len(written'[1]) = Len(written[1]) + 1 /\ IsPrefix(written[1], written'[1])
      BY <2>1, <2>3, GrowsBy
    <3>2. Up!Send(1)
      BY <2>3, <3>1 DEF Up!Send, IsPrefix, Up!IsPrefix
    <3>3. QED
      BY <3>2 DEF Up!Next
  <2>4. ASSUME written'[1] = written[1], Len(handled[1]) < Len(written[1]),
               handled'[1] = Append(handled[1], written[1][Len(handled[1]) + 1])
        PROVE  Up!Next
    <3>1. Up!Deliver(1)
      BY <2>4 DEF Up!Deliver
    <3>2. QED
      BY <3>1 DEF Up!Next
  <2>5. QED
    BY <2>2, <2>3, <2>4, UpStep
<1>4. QED
  BY <1>2, <1>3, Framed, Lined, PTL DEF Spec, CommandsArrive, Up!Spec
-----------------------------------------------------------------------------
(* A connection that is in step has no torn parts.                         *)
LEMMA Untorn ==
  ASSUME SocketTypes, ClientTypes, ServerTypes, Measured, NEW c \in Conns, UpLine(c), Sound(c)
  PROVE  ~IsTorn(got[c])
<1>1. /\ written[c] \in Seq(Messages) /\ handled[c] \in Seq(Taken)
      /\ InOrder(written[c], handled[c]) /\ Within(got[c])
  BY DEF ClientTypes, ServerTypes, UpLine, Measured
<1>2. Len(handled[c]) \in 0 .. Len(written[c])
  BY <1>1 DEF InOrder
<1>3. PICK rest \in Seq(Pieces) : UpParts(c, rest)
  BY RestTypes DEF UpLine
<1> DEFINE qs == Cat(Cat(sbuf[c], up[c]), rest)
<1>4. got[c] \in Seq(Pieces) /\ Cat(sbuf[c], up[c]) \in Seq(Pieces)
  BY PipeTypes
<1>5. qs \in Seq(Pieces) /\ Cat(UpPipe(c), rest) = Cat(got[c], qs)
  <2>1. Cat(Cat(got[c], Cat(sbuf[c], up[c])), rest) = Cat(got[c], qs)
    BY <1>4, CatAssociative
  <2>2. QED
    BY <1>4, <2>1, CatSeq DEF UpPipe
<1> HIDE DEF qs
<1>6. Carries(Cat(got[c], qs), written[c], Len(handled[c]))
  BY <1>3, <1>5 DEF UpParts
<1>7. QED
  BY <1>1, <1>2, <1>4, <1>5, <1>6, CarriesUntorn

(* Parts are torn only when a connection was closed before.                *)
LEMMA TornAfterClose ==
  ASSUME Frame, UpLines, NEW c \in Conns, alive, serving = c, IsTorn(got[c])
  PROVE  \E d \in Conns : cEnd[d] = "closed"
<1>1. SocketTypes /\ ClientTypes /\ ServerTypes /\ Measured /\ \A d \in Conns : Ends(d)
  BY DEF Frame
<1>2. Sound(c)
  BY <1>1 DEF Sound, Ends
<1>3. ~UpLine(c)
  BY <1>1, <1>2, Untorn
<1>4. PICK d \in 1 .. c - 1 : Torn(d)
  BY <1>3 DEF UpLines
<1>5. d \in Conns /\ conn \in 0 .. MaxConns /\ d < conn
  BY <1>1, <1>4, MaxConnsAssumption DEF Conns, Torn, ClientTypes
<1>6. cEnd[d] = "closed"
  BY <1>1, <1>5, MaxConnsAssumption DEF Ends, Conns
<1>7. QED
  BY <1>5, <1>6

(* Each way in which the server ends is one of those named.                *)
LEMMA NextSurvives ==
  Frame /\ UpLines /\ SurvivesWhileConnected /\ [Next]_sessionVars => SurvivesWhileConnected'
<1> SUFFICES ASSUME Frame, UpLines, SurvivesWhileConnected, [Next]_sessionVars, ~alive'
             PROVE  SurvivesWhileConnected'
  BY DEF SurvivesWhileConnected
<1> DEFINE Why == \/ stopped
                  \/ \E c \in Conns : cEnd[c] = "closed" \/ deaf[c]
                  \/ depth > ServerStack /\ Len(handled[serving]) >= ServerStack
<1>1. /\ SocketTypes /\ ClientTypes /\ ServerTypes /\ Nested /\ \A c \in Conns : Ends(c)
  BY DEF Frame
<1>2. ASSUME Die, Why PROVE SurvivesWhileConnected'
  BY <1>2 DEF Die, ioVars, SurvivesWhileConnected
<1>3. CASE ClientStep /\ UNCHANGED serverVars
  <2>1. Why /\ ~alive /\ UNCHANGED <<stopped, deaf, depth, serving, handled>>
    BY <1>3 DEF serverVars, ioVars, SurvivesWhileConnected
  <2>2. \A c \in Conns : cEnd[c] = "closed" => cEnd'[c] = "closed"
    BY <1>3, <2>1
       DEF ClientStep, Open, OpenFails, Close, Quit, SendCommand, SendNothing, Image, Stop,
           Joined, QuitJoined, MainWrite, Poll, LoadCheck, LoadLock, LoadWrite, AnswerArrives,
           AnswerEnds, RunReturns, AnswerOverflow, TakePart, ReadAnswer, ReadAnswerFails,
           HandleAnswer, PutFails, Leave, AllClosed, netVars, SocketTypes
  <2>3. QED
    BY <2>1, <2>2 DEF SurvivesWhileConnected
<1>4. CASE Exit /\ UNCHANGED clientVars
  BY <1>2, <1>4 DEF Exit, IoThreadReturned
<1>5. ASSUME NEW c \in Conns, ServerStep(c) PROVE SurvivesWhileConnected'
  <2>1. CASE ArriveDeaf(c)
    BY <1>2, <2>1 DEF ArriveDeaf
  <2>2. CASE Overflow(c)
    <3>1. serving = c /\ c # 0 /\ depth > ServerStack /\ Die
      BY <2>2 DEF Overflow, Conns
    <3>2. Len(handled[c]) \in Nat /\ depth \in Nat /\ ServerStack \in Nat
      BY <1>1, ServerStackAssumption DEF ServerTypes
    <3>3. depth <= Len(handled[c]) + 1
      BY <1>1, <3>1 DEF Nested
    <3>4. Len(handled[serving]) >= ServerStack
      BY <3>1, <3>2, <3>3
    <3>5. QED
      BY <1>2, <3>1, <3>4
  <2>3. CASE BadSize(c)
    <3>1. alive /\ serving = c /\ Die /\ (IsTorn(got[c]) \/ Ended(c))
      BY <2>3 DEF BadSize, Serving
    <3>2. CASE IsTorn(got[c])
      BY <1>2, <3>1, <3>2, TornAfterClose
    <3>3. CASE Ended(c)
      BY <1>2, <3>1, <3>3 DEF Ended
    <3>4. QED
      BY <3>1, <3>2, <3>3
  <2>4. CASE WriteFails(c)
    <3>1. cEnd[c] = "closed" /\ Die
      BY <1>1, <2>4 DEF WriteFails, Broken, Ends
    <3>2. QED
      BY <1>2, <3>1
  <2>5. alive /\ (alive' = alive \/ ArriveDeaf(c) \/ Overflow(c) \/ BadSize(c) \/ WriteFails(c))
    BY <1>5
       DEF ServerStep, Accept, Arrive, ArriveEnd, HangUp, ArriveDeaf, Overflow, Take, SyncRead,
           EntriesLate, CutOff, BadSize, HandleCommand, HandleChunk, HandleShutdown,
           HandleStatus, WriteAnswer, SendFind, SendEnd, SendLock, SendWrite, WriteFails,
           Free, Needs, Serving, Whole, Write
  <2>6. QED
    BY <2>1, <2>2, <2>3, <2>4, <2>5
<1>6. CASE UNCHANGED sessionVars
  BY <1>6 DEF sessionVars, netVars, serverVars, ioVars, SurvivesWhileConnected
<1>7. QED
  BY <1>3, <1>4, <1>5, <1>6, Steps

(* As long as the clients keep their connections and no stream has failed, *)
(* the server ends by SHUTDOWN, or when commands that come all at once     *)
(* fill its stack (Server.cpp:75-77, 129, 134-144, 152-155, 188), for any  *)
(* number of connections and any script.                                   *)
THEOREM Survives == Spec => []SurvivesWhileConnected
<1>1. Init => SurvivesWhileConnected
  BY DEF Init, ServerInit, SurvivesWhileConnected
<1>2. QED
  BY <1>1, NextSurvives, Framed, Lined, PTL DEF Spec
-----------------------------------------------------------------------------
(* The same for the answers on the first connection: the parts that the    *)
(* client has or that are under way, those that the server still has to    *)
(* write, and what they belong to.                                         *)
DownPipe == Cat(cgot, Cat(cbuf, down[1]))

DownRest == Cat(pending[1]["io"], pending[1]["send"])
DownParts(rest) == Carries(Cat(DownPipe, rest), replied[1], Len(received[1]))

(* The answers are in step.  Once the client has gone on to another        *)
(* connection, or has closed this one, it reads no more of them.           *)
DownLine ==
  /\ InOrder(replied[1], received[1])
  /\ Live(1) =>
       IF alive THEN DownParts(DownRest) ELSE \E rest \in Seq(Pieces) : DownParts(rest)

(* The types of the streams to the client.                                 *)
LEMMA DownTypes ==
  ASSUME SocketTypes, ClientTypes, ServerTypes
  PROVE  /\ 1 \in Conns /\ cgot \in Seq(Pieces) /\ cbuf \in Seq(Pieces) /\ down[1] \in Seq(Pieces)
         /\ Cat(cbuf, down[1]) \in Seq(Pieces) /\ DownPipe \in Seq(Pieces)
         /\ pending[1]["io"] \in Seq(Pieces) /\ pending[1]["send"] \in Seq(Pieces)
         /\ DownRest \in Seq(Pieces)
         /\ replied[1] \in Seq(Messages) /\ received[1] \in Seq(Taken)
<1>1. 1 \in Conns
  BY MaxConnsAssumption DEF Conns
<1>2. cgot \in Seq(Pieces) /\ cbuf \in Seq(Pieces) /\ down[1] \in Seq(Pieces)
  BY <1>1 DEF SocketTypes, ClientTypes
<1>3. /\ pending[1]["io"] \in Seq(Pieces) /\ pending[1]["send"] \in Seq(Pieces)
      /\ replied[1] \in Seq(Messages) /\ received[1] \in Seq(Taken)
  BY <1>1 DEF ServerTypes, ClientTypes, Writers
<1>4. Cat(cbuf, down[1]) \in Seq(Pieces) /\ DownRest \in Seq(Pieces)
  BY <1>2, <1>3, CatSeq DEF DownRest
<1>5. DownPipe \in Seq(Pieces)
  BY <1>2, <1>4, CatSeq DEF DownPipe
<1>6. QED
  BY <1>1, <1>2, <1>3, <1>4, <1>5

(* The answers stay in step when the parts stay in the line.               *)
LEMMA SameDown ==
  ASSUME DownLine, DownPipe' = DownPipe, Live(1)' => Live(1), UNCHANGED alive,
         alive => DownRest' = DownRest,
         replied'[1] = replied[1], received'[1] = received[1]
  PROVE  DownLine'
<1>1. \A rest : DownParts(rest)' <=> DownParts(rest)
  BY DEF DownParts
<1>2. alive => (DownParts(DownRest)' <=> DownParts(DownRest))
  BY DEF DownParts
<1>3. QED
  BY <1>1, <1>2 DEF DownLine

(* What the client reads from its socket stays in the line.                *)
LEMMA AnswerAlong ==
  ASSUME SocketTypes, ClientTypes, ServerTypes, Take1(conn), conn = 1, UNCHANGED cgot
  PROVE  DownPipe' = DownPipe
<1>1. PICK n \in 1 .. Len(down[1]) :
        cbuf' = cbuf \o First(n, down[1]) /\ down'[1] = Rest(n, down[1])
  BY TakesAnswer
<1>2. cbuf \in Seq(Pieces) /\ down[1] \in Seq(Pieces) /\ n \in 0 .. Len(down[1])
  BY DownTypes
<1>3. Cat(Cat(cbuf, First(n, down[1])), Rest(n, down[1])) = Cat(cbuf, down[1])
  BY <1>2, Moved DEF Cat
<1>4. Cat(cbuf', down'[1]) = Cat(cbuf, down[1])
  BY <1>1, <1>3 DEF Cat
<1>5. QED
  BY <1>4 DEF DownPipe

(* The answer that the client handles is the next one.                     *)
LEMMA AnswerNext ==
  ASSUME SocketTypes, ClientTypes, ServerTypes, Threads, Measured, DownLine, HandleAnswer,
         conn = 1, UNCHANGED serverVars
  PROVE  /\ DownLine' /\ ~IsTorn(cgot) /\ Len(received[1]) < Len(replied[1])
         /\ received'[1] = Append(received[1], replied[1][Len(received[1]) + 1])
<1>1. /\ running /\ IsWhole(cgot) /\ Within(cgot) /\ cgot' = <<>>
      /\ received'[1] = Append(received[1], MessageOf(cgot))
      /\ UNCHANGED <<down, running, conn>>
      /\ IsTorn(cgot) \/ cbuf' = cbuf
  <2>1. /\ running /\ IsWhole(cgot) /\ Within(cgot) /\ cgot' = <<>>
        /\ UNCHANGED <<down, running, conn>>
    BY DEF HandleAnswer, Reading, netVars, Measured
  <2>2. received'[1] = Append(received[1], MessageOf(cgot))
    BY AnswerRead
  <2>3. IsTorn(cgot) \/ cbuf' = <<>> \o cbuf
    BY DEF HandleAnswer, Leftovers
  <2>4. <<>> \o cbuf = cbuf
    BY DownTypes
  <2>5. QED
    BY <2>1, <2>2, <2>3, <2>4
<1>9. Live(1) /\ Live(1)'
  <2>1. mpc # "connect"
    BY DEF Threads, HandleAnswer, Reading
  <2>2. mpc' # "connect"
    BY <2>1 DEF HandleAnswer
  <2>3. QED
    BY <1>1, <2>1, <2>2 DEF Live
<1>2. UNCHANGED <<alive, pending, replied>>
  BY DEF serverVars, outVars
<1>3. InOrder(replied[1], received[1])
  BY DEF DownLine
<1>4. ~IsTorn(cgot) => DownPipe' = Cat(cbuf, down[1])
  <2>1. ~IsTorn(cgot) => DownPipe' = Cat(<<>>, Cat(cbuf, down[1]))
    BY <1>1 DEF DownPipe
  <2>2. QED
    BY <2>1, DownTypes, Emptied
<1>5. ASSUME NEW rest \in Seq(Pieces), DownParts(rest)
      PROVE  /\ DownParts(rest)' /\ InOrder(replied[1], received[1])'
             /\ ~IsTorn(cgot) /\ MessageOf(cgot) = replied[1][Len(received[1]) + 1]
             /\ Len(received[1]) < Len(replied[1])
  <2> DEFINE qs == Cat(Cat(cbuf, down[1]), rest)
  <2>1. Cat(Cat(cgot, Cat(cbuf, down[1])), rest) = Cat(cgot, qs)
    BY DownTypes, CatAssociative
  <2>2. qs \in Seq(Pieces)
    BY DownTypes, CatSeq
  <2> HIDE DEF qs
  <2>3. Carries(Cat(cgot, qs), replied[1], Len(received[1]))
    BY <1>5, <2>1 DEF DownParts, DownPipe
  <2>4. /\ cgot \in Seq(Pieces) /\ replied[1] \in Seq(Messages) /\ received[1] \in Seq(Taken)
    BY DownTypes
  <2>5. /\ ~IsTorn(cgot) /\ MessageOf(cgot) = replied[1][Len(received[1]) + 1]
        /\ Len(received[1]) < Len(replied[1])
        /\ InOrder(replied[1], Append(received[1], MessageOf(cgot)))
        /\ Carries(qs, replied[1], Len(Append(received[1], MessageOf(cgot))))
    BY <1>1, <1>3, <2>2, <2>3, <2>4, HandlesInOrder
  <2>6. DownParts(rest)'
    BY <1>1, <1>2, <1>4, <2>5 DEF DownParts, qs
  <2>7. QED
    BY <1>1, <1>2, <2>5, <2>6
<1>6. CASE alive
  <2>1. PICK rest \in Seq(Pieces) : rest = DownRest
    BY DownTypes
  <2>2. DownParts(rest) /\ DownRest' = rest
    BY <1>1, <1>2, <1>6, <1>9, <2>1 DEF DownLine, DownRest
  <2>3. /\ DownParts(rest)' /\ InOrder(replied[1], received[1])' /\ ~IsTorn(cgot)
        /\ MessageOf(cgot) = replied[1][Len(received[1]) + 1]
        /\ Len(received[1]) < Len(replied[1])
    BY <1>5, <2>2
  <2>4. DownParts(DownRest)'
    BY <2>2, <2>3 DEF DownParts
  <2>5. QED
    BY <1>1, <1>2, <1>6, <2>3, <2>4 DEF DownLine
<1>7. CASE ~alive
  <2>1. PICK rest \in Seq(Pieces) : DownParts(rest)
    BY <1>1, <1>7, <1>9 DEF DownLine
  <2>2. /\ DownParts(rest)' /\ InOrder(replied[1], received[1])' /\ ~IsTorn(cgot)
        /\ MessageOf(cgot) = replied[1][Len(received[1]) + 1]
        /\ Len(received[1]) < Len(replied[1])
    BY <1>5, <2>1
  <2>3. QED
    BY <1>1, <1>2, <1>7, <2>2 DEF DownLine
<1>8. QED
  BY <1>6, <1>7

(* The first connection begins empty.                                      *)
LEMMA OpenDown ==
  ASSUME Frame, DownLine, Connected, UNCHANGED serverVars
  PROVE  DownLine'
<1>1. /\ SocketTypes /\ ClientTypes /\ ServerTypes /\ Beginning /\ Threads
      /\ \A c \in Conns : Ends(c) /\ Unused(c)
  BY DEF Frame
<1>2. /\ UNCHANGED <<pending, replied, alive, down, cgot, cbuf, received, running>>
      /\ conn' = conn + 1 /\ conn \in Nat
  BY <1>1, Connects DEF serverVars, outVars, ClientTypes
<1>3. InOrder(replied[1], received[1])'
  BY <1>2 DEF DownLine
<1>4. CASE conn # 0
  BY <1>2, <1>3, <1>4 DEF DownLine, Live
<1>5. CASE conn = 0
  <2>1. cbuf = <<>> /\ cgot = <<>>
    BY <1>1, <1>5 DEF Beginning
  <2>2. 1 \in Conns /\ 1 > conn
    BY <1>1, <1>5, DownTypes
  <2>3. /\ down[1] = <<>> /\ replied[1] = <<>> /\ received[1] = <<>>
        /\ pending[1]["io"] = <<>> /\ pending[1]["send"] = <<>>
    BY <1>1, <2>2 DEF Unused, Writers
  <2>4. Cat(<<>>, <<>>) = <<>> /\ Len(<<>>) = 0 /\ Carries(<<>>, <<>>, 0)
    <3>1. Cat(<<>>, <<>>) = <<>>
      BY EmptySeq, Emptied
    <3>2. Len(<<>>) = 0 /\ <<>> \in Seq(Messages)
      BY EmptySeq
    <3>3. Carries(<<>>, <<>>, Len(<<>>))
      BY <3>2, CarriesNothing
    <3>4. QED
      BY <3>1, <3>2, <3>3
  <2>5. PICK rest \in Seq(Pieces) : rest = <<>>
    BY EmptySeq
  <2>6. DownPipe' = <<>> /\ DownRest' = <<>>
    BY <1>2, <2>1, <2>3, <2>4 DEF DownPipe, DownRest
  <2>7. replied'[1] = <<>> /\ received'[1] = <<>>
    BY <1>2, <2>3
  <2>8. DownParts(DownRest)' /\ DownParts(rest)'
    BY <2>4, <2>5, <2>6, <2>7 DEF DownParts
  <2>9. QED
    BY <1>3, <2>8 DEF DownLine
<1>6. QED
  BY <1>4, <1>5

(* The client keeps the answers in step, and handles the next one at most. *)
LEMMA ClientDown ==
  ASSUME Frame, DownLine, ClientStep, UNCHANGED serverVars
  PROVE  /\ DownLine'
         /\ \/ received'[1] = received[1]
            \/ /\ Len(received[1]) < Len(replied[1])
               /\ received'[1] = Append(received[1], replied[1][Len(received[1]) + 1])
<1>1. SocketTypes /\ ClientTypes /\ ServerTypes /\ Beginning /\ Threads /\ Measured
  BY DEF Frame
<1>2. UNCHANGED <<pending, replied, alive>>
  BY DEF serverVars, outVars
<1>3. DownRest' = DownRest
  BY <1>2 DEF DownRest
<1>4. 1 \in Conns
  BY <1>1, DownTypes
<1>5. CASE /\ UNCHANGED <<down, cgot, cbuf, received, conn, running>>
           /\ mpc = "connect" => mpc' = "connect"
  <2>1. DownPipe' = DownPipe /\ (Live(1)' => Live(1))
    BY <1>5 DEF DownPipe, Live
  <2>2. QED
    BY <1>2, <1>3, <1>5, <2>1, SameDown
<1>6. CASE Connected
  <2>1. DownLine'
    BY <1>6, OpenDown
  <2>2. UNCHANGED received
    BY <1>6 DEF Connected
  <2>3. QED
    BY <2>1, <2>2
<1>7. ASSUME running' = FALSE, UNCHANGED received PROVE DownLine' /\ received'[1] = received[1]
  BY <1>2, <1>7 DEF DownLine, Live
<1>8. CASE Leave \/ OpenFails
  BY <1>7, <1>8 DEF Leave, OpenFails, readVars
<1>9. ASSUME conn # 1, UNCHANGED <<conn, running>>, received'[1] = received[1]
      PROVE  DownLine'
  BY <1>2, <1>9 DEF DownLine, Live
<1>10. CASE AnswerArrives \/ ReadAnswer
  <2>1. Take1(conn) /\ UNCHANGED <<running, conn, cgot, received, mpc>>
    BY <1>10 DEF AnswerArrives, ReadAnswer, mainVars
  <2>2. CASE conn = 1
    <3>1. Live(1)' => Live(1)
      BY <2>1 DEF Live
    <3>2. QED
      BY <1>1, <1>2, <1>3, <2>1, <2>2, <3>1, AnswerAlong, SameDown
  <2>3. CASE conn # 1
    BY <1>9, <2>1, <2>3
  <2>4. QED
    BY <2>1, <2>2, <2>3
<1>11. CASE TakePart
  <2>1. /\ cbuf # <<>> /\ cgot' = Append(cgot, Head(cbuf)) /\ cbuf' = Tail(cbuf)
        /\ UNCHANGED <<down, running, conn, received, mpc>>
    BY <1>11 DEF TakePart, netVars, mainVars
  <2>2. cgot \in Seq(Pieces) /\ cbuf \in Seq(Pieces) /\ down[1] \in Seq(Pieces)
    BY <1>1, DownTypes
  <2>3. Cat(Append(cgot, Head(cbuf)), Cat(Tail(cbuf), down[1])) = Cat(cgot, Cat(cbuf, down[1]))
    BY <2>1, <2>2, HeadAlong
  <2>4. DownPipe' = DownPipe /\ (Live(1)' => Live(1))
    BY <2>1, <2>3 DEF DownPipe, Live
  <2>5. QED
    BY <1>2, <1>3, <2>1, <2>4, SameDown
<1>12. CASE HandleAnswer
  <2>1. CASE conn = 1
    BY <1>1, <1>12, <2>1, AnswerNext
  <2>2. CASE conn # 1
    <3>1. conn > 0
      BY <1>1, <1>12 DEF HandleAnswer, Beginning, IsWhole, ClientTypes
    <3>2. received'[1] = received[1] /\ UNCHANGED <<conn, running>>
      BY <1>1, <1>4, <1>12, <2>2, <3>1, AnswerRead DEF HandleAnswer
    <3>3. QED
      BY <1>9, <2>2, <3>2
  <2>3. QED
    BY <2>1, <2>2
<1>13. QED
  <2>1. \/ /\ UNCHANGED <<down, cgot, cbuf, received, conn, running>>
           /\ mpc = "connect" => mpc' = "connect"
        \/ Connected \/ OpenFails \/ Leave \/ AnswerArrives \/ ReadAnswer \/ TakePart
        \/ HandleAnswer
    BY
       DEF ClientStep, Type, Disconnect, After, Open, AnswerOverflow, Close, Quit, SendCommand, SendNothing, Image, Stop, Joined,
           QuitJoined,
           Poll, LoadCheck, LoadLock, LoadWrite, MainWrite, AnswerEnds, RunReturns,
           ReadAnswerFails, PutFails, netVars, mainVars, readVars, writeVars
  <2>2. QED
    BY <1>5, <1>6, <1>8, <1>10, <1>11, <1>12, <2>1

(* Answers that are cut short are followed by a rest that will not come.   *)
LEMMA CutDown ==
  ASSUME SocketTypes, ClientTypes, ServerTypes, NEW n \in 0 .. Len(down[1]),
         down'[1] = First(n, down[1]), UNCHANGED <<cgot, cbuf, replied, received>>,
         NEW rest \in Seq(Pieces), DownParts(rest)
  PROVE  \E r \in Seq(Pieces) : DownParts(r)'
<1> DEFINE a == cgot
           b == cbuf
           u == down[1]
           f == First(n, u)
           r == Cat(Rest(n, u), rest)
<1>1. a \in Seq(Pieces) /\ b \in Seq(Pieces) /\ u \in Seq(Pieces)
  BY DownTypes
<1>2. DownPipe' = Cat(a, Cat(b, f)) /\ DownPipe = Cat(a, Cat(b, u))
  BY DEF DownPipe
<1> HIDE DEF a, b
<1>3. f \in Seq(Pieces) /\ Rest(n, u) \in Seq(Pieces) /\ Cat(f, Rest(n, u)) = u
  BY <1>1, CutsCat
<1>4. Cat(Cat(a, Cat(b, Cat(f, Rest(n, u)))), rest) = Cat(Cat(a, Cat(b, f)), r)
  BY <1>1, <1>3, Bracketed
<1>5. r \in Seq(Pieces)
  BY <1>3, CatSeq
<1> HIDE DEF r, f, u
<1>6. Cat(DownPipe, rest) = Cat(DownPipe', r)
  BY <1>2, <1>3, <1>4
<1>7. Carries(Cat(DownPipe', r), replied[1], Len(received[1]))
  BY <1>6 DEF DownParts
<1>8. PICK q \in Seq(Pieces) : q = r
  BY <1>5
<1>9. Carries(Cat(DownPipe', q), replied[1], Len(received[1]))
  BY <1>7, <1>8
<1>10. DownParts(q)'
  BY <1>9 DEF DownParts
<1>11. QED
  BY <1>10

(* The server ends: what has not left it yet is lost.                      *)
LEMMA DieDown ==
  ASSUME Frame, DownLine, Die, UNCHANGED clientVars
  PROVE  DownLine' /\ replied'[1] = replied[1]
<1>1. SocketTypes /\ ClientTypes /\ ServerTypes
  BY DEF Frame
<1>2. UNCHANGED <<cgot, cbuf, received, running, conn, mpc>>
  BY DEF clientVars, readVars, mainVars
<1>3. PICK n \in 0 .. Len(down[1]) : down'[1] = First(n, down[1])
  BY <1>1, Dies, DownTypes
<1>4. alive' = FALSE /\ UNCHANGED <<replied, pending>>
  BY DEF Die, outVars
<1>5. Live(1) => \E rest \in Seq(Pieces) : DownParts(rest)
  BY <1>1, DownTypes DEF DownLine
<1>6. Live(1) => \E r \in Seq(Pieces) : DownParts(r)'
  BY <1>1, <1>2, <1>3, <1>4, <1>5, CutDown
<1>7. QED
  BY <1>2, <1>4, <1>6 DEF DownLine, Live

(* A thread of the server begins to write: nothing was left to write       *)
(* before.                                                                 *)
LEMMA BeginDown ==
  ASSUME Frame, DownLine, NEW w \in Writers, NEW m \in Messages, Begin(1, w, m), alive,
         UNCHANGED <<down, alive, clientVars>>
  PROVE  DownLine' /\ replied'[1] = Append(replied[1], m)
<1>1. SocketTypes /\ ClientTypes /\ ServerTypes /\ \A c \in Conns : ServerLocks(c)
  BY DEF Frame
<1>2. UNCHANGED <<cgot, cbuf, received, running, conn, mpc>>
  BY DEF clientVars, readVars, mainVars
<1>3. /\ mutex[1] = "none" /\ pending'[1][w] = PartsOf(m) /\ replied'[1] = Append(replied[1], m)
      /\ \A v \in Writers : v # w => pending'[1][v] = pending[1][v]
  BY <1>1, DownTypes, BeginsReply
<1>4. pending[1]["io"] = <<>> /\ pending[1]["send"] = <<>>
  BY <1>1, <1>3, DownTypes DEF ServerLocks, Writers
<1>5. DownRest' = PartsOf(m) /\ DownRest = <<>>
  <2>1. PartsOf(m) \in Seq(Pieces) /\ <<>> \in Seq(Pieces)
    BY PartsOfPieces, EmptySeq
  <2>2. DownRest = <<>>
    BY <1>4, <2>1, Emptied DEF DownRest
  <2>3. DownRest' = Cat(PartsOf(m), <<>>) \/ DownRest' = Cat(<<>>, PartsOf(m))
    BY <1>3, <1>4 DEF DownRest, Writers
  <2>4. QED
    BY <2>1, <2>2, <2>3, Emptied
<1>6. replied[1] \in Seq(Messages) /\ received[1] \in Seq(Taken) /\ DownPipe \in Seq(Pieces)
  BY <1>1, DownTypes
<1>7. /\ InOrder(replied[1], received[1]) /\ InOrder(replied'[1], received[1])
  BY <1>3, <1>6, OrderMore DEF DownLine
<1>8. ASSUME Live(1) PROVE DownParts(DownRest)'
  <2>1. Carries(Cat(DownPipe, <<>>), replied[1], Len(received[1]))
    BY <1>5, <1>8 DEF DownLine, DownParts
  <2>2. Carries(DownPipe, replied[1], Len(received[1]))
    BY <1>6, <2>1, Emptied
  <2>3. Len(received[1]) \in 0 .. Len(replied[1])
    BY <1>6, <1>7 DEF InOrder
  <2>4. Carries(Cat(DownPipe, PartsOf(m)), Append(replied[1], m), Len(received[1]))
    BY <1>6, <2>2, <2>3, CarriesMore
  <2>5. DownPipe' = DownPipe
    BY <1>2 DEF DownPipe
  <2>6. QED
    BY <1>2, <1>3, <1>5, <2>4, <2>5 DEF DownParts
<1>9. QED
  BY <1>2, <1>3, <1>7, <1>8 DEF DownLine, Live

(* It writes: the line goes on where it ends.                              *)
LEMMA WriteDown ==
  ASSUME Frame, DownLine, NEW w \in Writers, Write(1, w),
         UNCHANGED <<alive, replied, clientVars>>
  PROVE  DownLine'
<1>1. /\ SocketTypes /\ ClientTypes /\ ServerTypes /\ 1 \in Conns /\ Ends(1) /\ ServerLocks(1)
  BY DownTypes DEF Frame
<1>2. UNCHANGED <<cgot, cbuf, received, running, conn, mpc>>
  BY DEF clientVars, readVars, mainVars
<1>3. PICK n \in 1 .. Len(pending[1][w]) :
        /\ alive
        /\ down'[1] = IF cEnd[1] = "open" THEN Cat(down[1], First(n, pending[1][w])) ELSE down[1]
        /\ pending'[1][w] = Rest(n, pending[1][w])
        /\ \A v \in Writers : v # w => pending'[1][v] = pending[1][v]
  BY <1>1, Writes DEF Cat
<1>4. ASSUME Live(1) PROVE Cat(DownPipe, DownRest)' = Cat(DownPipe, DownRest)
  <2>1. cEnd[1] = "open"
    BY <1>1, <1>4 DEF Ends, Live
  <2>2. PICK r \in Seq(Pieces) : r = (IF w = "io" THEN pending[1]["send"] ELSE <<>>)
    BY <1>1, DownTypes, EmptySeq
  <2> DEFINE a == cgot
             b == cbuf
             u == down[1]
             p == pending[1][w]
  <2>3. /\ a \in Seq(Pieces) /\ b \in Seq(Pieces) /\ u \in Seq(Pieces) /\ p \in Seq(Pieces)
        /\ n \in 0 .. Len(p)
    BY <1>1, DownTypes DEF Writers
  <2>4. First(n, p) \in Seq(Pieces) /\ Rest(n, p) \in Seq(Pieces)
    BY <2>3, CutsCat
  <2>5. DownPipe = Cat(a, Cat(b, u)) /\ DownPipe' = Cat(a, Cat(b, Cat(u, First(n, p))))
    BY <1>2, <1>3, <2>1 DEF DownPipe
  <2>6. DownRest = Cat(p, r) /\ DownRest' = Cat(Rest(n, p), r)
    <3>1. CASE w = "io"
      BY <1>3, <2>2, <3>1 DEF DownRest, Writers
    <3>2. CASE w = "send"
      <4>1. pending[1]["io"] = <<>>
        <5>1. mutex[1] = "send"
          BY <1>1, <1>3, <3>2 DEF ServerLocks, Writers
        <5>2. QED
          BY <1>1, <5>1 DEF ServerLocks, Writers
      <4>2. pending'[1]["io"] = <<>> /\ pending'[1]["send"] = Rest(n, p)
        BY <1>3, <3>2, <4>1 DEF Writers
      <4>3. DownRest = Cat(<<>>, p) /\ DownRest' = Cat(<<>>, Rest(n, p))
        BY <3>2, <4>1, <4>2 DEF DownRest
      <4>4. r = <<>>
        BY <2>2, <3>2
      <4> HIDE DEF p
      <4>5. QED
        BY <2>3, <2>4, <4>3, <4>4, Emptied
    <3>3. QED
      BY <3>1, <3>2 DEF Writers
  <2> HIDE DEF a, b, u, p
  <2>7. Cat(Cat(a, Cat(b, Cat(u, First(n, p)))), Cat(Rest(n, p), r))
          = Cat(Cat(a, Cat(b, u)), Cat(p, r))
    BY <2>3, PutAlong
  <2>8. QED
    BY <2>5, <2>6, <2>7
<1>5. Live(1) => (DownParts(DownRest)' <=> DownParts(DownRest))
  BY <1>2, <1>4 DEF DownParts
<1>6. QED
  BY <1>2, <1>3, <1>5 DEF DownLine, Live

(* The server keeps the answers in step, and begins one at most.           *)
LEMMA ServerDown ==
  ASSUME Frame, DownLine, NEW c \in Conns, ServerStep(c), UNCHANGED clientVars
  PROVE  /\ DownLine'
         /\ replied'[1] = replied[1] \/ \E m \in Messages : replied'[1] = Append(replied[1], m)
<1>1. SocketTypes /\ ClientTypes /\ ServerTypes
  BY DEF Frame
<1>2. UNCHANGED <<cgot, cbuf, received, running, conn, mpc>>
  BY DEF clientVars, readVars, mainVars
<1>3. ASSUME UNCHANGED alive, down'[1] = down[1], pending'[1] = pending[1],
             replied'[1] = replied[1]
      PROVE  DownLine' /\ replied'[1] = replied[1]
  <2>1. DownPipe' = DownPipe /\ DownRest' = DownRest
    BY <1>2, <1>3 DEF DownPipe, DownRest
  <2>2. QED
    BY <1>2, <1>3, <2>1, SameDown DEF Live
<1>4. CASE Die
  BY <1>4, DieDown
<1>5. CASE UNCHANGED <<alive, down, pending, replied>>
  BY <1>3, <1>5
<1>6. ASSUME NEW w \in Writers, NEW m \in Messages, Begin(c, w, m), alive,
             UNCHANGED <<alive, down>>
      PROVE  /\ DownLine'
             /\ replied'[1] = replied[1] \/ \E k \in Messages : replied'[1] = Append(replied[1], k)
  <2>1. CASE c = 1
    BY <1>6, <2>1, BeginDown
  <2>2. CASE c # 1
    <3>1. pending'[1] = pending[1] /\ replied'[1] = replied[1]
      BY <1>1, <1>6, <2>2, DownTypes, BeginsReply
    <3>2. QED
      BY <1>3, <1>6, <3>1
  <2>3. QED
    BY <2>1, <2>2
<1>7. CASE HandleStatus(c)
  <2>1. /\ got[c] # <<>> /\ got[c] \in Seq(Pieces) /\ alive
        /\ UNCHANGED <<alive, down>>
    BY <1>1, <1>7 DEF HandleStatus, Whole, Serving, IsWhole, ServerTypes, netVars
  <2>2. MessageOf(got[c]).id \in Nat
    BY <2>1, StatusTaken
  <2>3. [kind |-> "answer", id |-> MessageOf(got[c]).id] \in Messages
    BY <2>2 DEF Messages, Kinds
  <2>4. "io" \in Writers /\ Begin(c, "io", [kind |-> "answer", id |-> MessageOf(got[c]).id])
    BY <1>7 DEF HandleStatus, Writers
  <2>5. QED
    BY <1>6, <2>1, <2>3, <2>4
<1>8. CASE SendLock(c)
  <2>1. "send" \in Writers /\ Begin(c, "send", held[c]) /\ alive /\ UNCHANGED <<alive, down>>
    BY <1>8 DEF SendLock, Writers, netVars
  <2>2. held[c] \in Messages
    BY <1>1 DEF ServerTypes, Chunks, Messages, Kinds
  <2>3. QED
    BY <1>6, <2>1, <2>2
<1>9. CASE WriteAnswer(c) \/ SendWrite(c)
  <2>1. PICK w \in Writers : Write(c, w)
    BY <1>9 DEF WriteAnswer, SendWrite, Writers
  <2>2. UNCHANGED <<alive, replied>>
    BY <1>9 DEF WriteAnswer, SendWrite
  <2>3. CASE c = 1
    BY <2>1, <2>2, <2>3, WriteDown
  <2>4. CASE c # 1
    <3>1. down'[1] = down[1] /\ pending'[1] = pending[1]
      BY <1>1, <2>1, <2>4, DownTypes, Writes
    <3>2. QED
      BY <1>3, <2>2, <3>1
  <2>5. QED
    BY <2>2, <2>3, <2>4
<1>10. QED
  <2>1. \/ UNCHANGED <<alive, down, pending, replied>>
        \/ Die \/ HandleStatus(c) \/ SendLock(c) \/ WriteAnswer(c) \/ SendWrite(c)
    BY
       DEF ServerStep, Accept, Arrive, ArriveEnd, ArriveDeaf, Overflow, Take, SyncRead, EntriesLate,
           CutOff, HangUp,
           BadSize, HandleCommand, HandleChunk, HandleShutdown, SendFind, SendEnd, WriteFails,
           netVars, outVars
  <2>2. QED
    BY <1>4, <1>5, <1>7, <1>8, <1>9, <2>1

(* Each step keeps them in step, and puts an answer in, takes the next one *)
(* out, or does neither.                                                   *)
LEMMA DownStep ==
  ASSUME Frame, DownLine, [Next]_sessionVars
  PROVE  /\ DownLine'
         /\ \/ replied'[1] = replied[1] /\ received'[1] = received[1]
            \/ /\ received'[1] = received[1]
               /\ \E m \in Messages : replied'[1] = Append(replied[1], m)
            \/ /\ replied'[1] = replied[1]
               /\ Len(received[1]) < Len(replied[1])
               /\ received'[1] = Append(received[1], replied[1][Len(received[1]) + 1])
<1>1. CASE ClientStep /\ UNCHANGED serverVars
  BY <1>1, ClientDown DEF serverVars, outVars
<1>2. CASE Exit /\ UNCHANGED clientVars
  BY <1>2, DieDown DEF Exit, clientVars, readVars
<1>3. ASSUME NEW c \in Conns, ServerStep(c), UNCHANGED clientVars
      PROVE  /\ DownLine' /\ received'[1] = received[1]
             /\ \/ replied'[1] = replied[1]
                \/ \E m \in Messages : replied'[1] = Append(replied[1], m)
  BY <1>3, ServerDown DEF clientVars, readVars
<1>4. CASE UNCHANGED sessionVars
  <2> USE <1>4 DEF sessionVars, netVars, clientVars, serverVars, mainVars, readVars, outVars
  <2>1. DownPipe' = DownPipe /\ DownRest' = DownRest
    BY DEF DownPipe, DownRest
  <2>2. QED
    BY <2>1, SameDown DEF Live
<1>5. QED
  BY <1>1, <1>2, <1>3, <1>4, Steps

(* They are in step from the beginning.                                    *)
LEMMA InitDownLine == Init => DownLine
<1> SUFFICES ASSUME Init PROVE DownLine
  OBVIOUS
<1>1. 1 \in Conns
  BY MaxConnsAssumption DEF Conns
<1>2. replied[1] = <<>> /\ received[1] = <<>> /\ conn = 0
  BY <1>1 DEF Init, ClientInit, ServerInit
<1>3. InOrder(<<>>, <<>>)
  BY DEF InOrder
<1>4. QED
  BY <1>2, <1>3 DEF DownLine, Live

(* They always are.                                                        *)
THEOREM Followed == Spec => []DownLine
<1>1. Frame /\ DownLine /\ [Next]_sessionVars => DownLine'
  BY DownStep
<1>2. QED
  BY <1>1, InitDownLine, Framed, PTL DEF Spec

(* In the other direction the first connection implements Wire as well:    *)
(* every answer and every chunk that comes back is read whole, in the      *)
(* order of the writes, once (Server.cpp:37-42, 138-145,                   *)
(* Client.cpp:16-62), although two threads write them.                     *)
THEOREM Answers == Spec => AnswersArrive
<1>1. 1 \in Conns
  BY MaxConnsAssumption DEF Conns
<1>2. Init => Down!Init
  BY <1>1 DEF Init, ClientInit, ServerInit, Down!Init
<1>3. Frame /\ DownLine /\ [Next]_sessionVars => [Down!Next]_(Down!wireVars)
  <2> SUFFICES ASSUME Frame, DownLine, [Next]_sessionVars PROVE [Down!Next]_(Down!wireVars)
    OBVIOUS
  <2>1. replied[1] \in Seq(Messages) /\ received[1] \in Seq(Taken)
    BY <1>1 DEF Frame, ClientTypes, ServerTypes
  <2>2. CASE replied'[1] = replied[1] /\ received'[1] = received[1]
    BY <2>2 DEF Down!wireVars
  <2>3. ASSUME received'[1] = received[1], NEW m \in Messages, replied'[1] = Append(replied[1], m)
        PROVE  Down!Next
    <3>1. Len(replied'[1]) = Len(replied[1]) + 1 /\ IsPrefix(replied[1], replied'[1])
      BY <2>1, <2>3, GrowsBy
    <3>2. Down!Send(1)
      BY <2>3, <3>1 DEF Down!Send, IsPrefix, Down!IsPrefix
    <3>3. QED
      BY <3>2 DEF Down!Next
  <2>4. ASSUME replied'[1] = replied[1], Len(received[1]) < Len(replied[1]),
               received'[1] = Append(received[1], replied[1][Len(received[1]) + 1])
        PROVE  Down!Next
    <3>1. Down!Deliver(1)
      BY <2>4 DEF Down!Deliver
    <3>2. QED
      BY <3>1 DEF Down!Next
  <2>5. QED
    BY <2>2, <2>3, <2>4, DownStep
<1>4. QED
  BY <1>2, <1>3, Framed, Followed, PTL DEF Spec, AnswersArrive, Down!Spec
-----------------------------------------------------------------------------
(* One message more counts if it is of the kind.                           *)
LEMMA CountsOne ==
  ASSUME NEW S, NEW s \in Seq(S), NEW m \in S, NEW kind
  PROVE  /\ Count(s, kind) \in Nat
         /\ Count(Append(s, m), kind) = Count(s, kind) + (IF m.kind = kind THEN 1 ELSE 0)
<1> DEFINE t == Append(s, m)
           K == {k \in DOMAIN s : s[k].kind = kind}
           L == {k \in DOMAIN t : t[k].kind = kind}
<1>1. /\ t \in Seq(S) /\ Len(t) = Len(s) + 1 /\ t[Len(s) + 1] = m
      /\ \A k \in 1 .. Len(s) : t[k] = s[k]
  BY AppendProperties
<1> HIDE DEF t
<1>2. Len(s) \in Nat /\ DOMAIN s = 1 .. Len(s) /\ DOMAIN t = 1 .. Len(s) + 1
  BY <1>1
<1>3. IsFiniteSet(1 .. Len(s)) /\ K \in SUBSET (1 .. Len(s))
  BY <1>2, FS_Interval
<1>4. IsFiniteSet(K) /\ Cardinality(K) \in Nat
  BY <1>3, FS_Subset, FS_CardinalityType
<1>5. Count(s, kind) = Cardinality(K) /\ Count(Append(s, m), kind) = Cardinality(L)
  BY DEF Count, t
<1>6. CASE m.kind = kind
  <2>1. L = K \cup {Len(s) + 1} /\ Len(s) + 1 \notin K
    BY <1>1, <1>2, <1>6
  <2> HIDE DEF K, L
  <2>2. Cardinality(L) = Cardinality(K) + 1
    BY <1>4, <2>1, FS_AddElement
  <2>3. QED
    BY <1>4, <1>5, <1>6, <2>2
<1>7. CASE m.kind # kind
  <2>1. L = K
    BY <1>1, <1>2, <1>7
  <2> HIDE DEF K, L
  <2>2. Cardinality(L) = Cardinality(K) + 0
    BY <1>4, <2>1
  <2>3. QED
    BY <1>4, <1>5, <1>7, <2>2
<1>8. QED
  BY <1>6, <1>7

(* Of nothing, nothing counts.                                             *)
LEMMA CountsNothing == \A kind : Count(<<>>, kind) = 0
<1>1. \A kind : {k \in DOMAIN <<>> : <<>>[k].kind = kind} = {}
  OBVIOUS
<1>2. QED
  BY <1>1, FS_EmptySet DEF Count

(* The messages taken out of a stream are not more than those put in.      *)
LEMMA CountsLess ==
  ASSUME NEW w \in Seq(Messages), NEW t \in Seq(Taken), InOrder(w, t), NEW kind
  PROVE  Count(t, kind) <= Count(w, kind)
<1> DEFINE K == {k \in DOMAIN t : t[k].kind = kind}
           L == {k \in DOMAIN w : w[k].kind = kind}
<1>1. /\ Len(w) \in Nat /\ DOMAIN w = 1 .. Len(w)
      /\ DOMAIN t = 1 .. Len(t) /\ Len(t) \in Nat /\ Len(t) <= Len(w)
  BY DEF InOrder
<1>2. L \in SUBSET (1 .. Len(w)) /\ K \in SUBSET L
  BY <1>1 DEF InOrder
<1>3. IsFiniteSet(1 .. Len(w))
  BY <1>1, FS_Interval
<1> HIDE DEF K, L
<1>4. IsFiniteSet(L)
  BY <1>2, <1>3, FS_Subset
<1>5. Cardinality(K) <= Cardinality(L)
  BY <1>2, <1>4, FS_Subset
<1>6. QED
  BY <1>5 DEF Count, K, L

(* The server answers a status request once: an answer that it has begun   *)
(* to write belongs to a request that was written, and to one that is      *)
(* handled, or is being handled as long as the answer is not all written.  *)
Replies ==
  /\ Count(replied[1], "answer") <= Count(written[1], "status")
  /\ Count(replied[1], "answer") <=
       Count(handled[1], "status") + (IF pending[1]["io"] = <<>> THEN 0 ELSE 1)

(* While the first connection is open, at most one answer is awaited, and  *)
(* then the flag is down and the main thread is in the status command.     *)
Awaited ==
  conn = 1 /\ connected =>
    /\ Count(written[1], "status") <= Count(received[1], "answer") + 1
    /\ Count(written[1], "status") # Count(received[1], "answer") =>
         /\ ~flag
         /\ \/ mpc = "poll"
            \/ /\ mpc = "write"
               /\ \A k \in DOMAIN cpending["main"] : cpending["main"][k].msg.kind = "status"

(* The counts are numbers.                                                 *)
LEMMA Countable ==
  ASSUME ClientTypes, ServerTypes, NEW kind
  PROVE  /\ 1 \in Conns
         /\ written[1] \in Seq(Messages) /\ received[1] \in Seq(Taken)
         /\ replied[1] \in Seq(Messages) /\ handled[1] \in Seq(Taken)
         /\ Count(written[1], kind) \in Nat /\ Count(received[1], kind) \in Nat
         /\ Count(replied[1], kind) \in Nat /\ Count(handled[1], kind) \in Nat
<1>1. 1 \in Conns
  BY MaxConnsAssumption DEF Conns
<1>2. /\ written[1] \in Seq(Messages) /\ received[1] \in Seq(Taken)
      /\ replied[1] \in Seq(Messages) /\ handled[1] \in Seq(Taken)
  BY <1>1 DEF ClientTypes, ServerTypes
<1>3. \A S : \A s \in Seq(S) : \A m \in S : Count(s, kind) \in Nat
  BY CountsOne
<1>4. Garbled \in Taken /\ HalfChunk \in Messages
  BY DEF Taken, Garbled, HalfChunk, Messages, Kinds
<1>5. QED
  BY <1>1, <1>2, <1>3, <1>4

(* A command that is handled adds to those that are.                       *)
LEMMA HandledCount ==
  ASSUME ClientTypes, ServerTypes, NEW c \in Conns, Handled(c), IsWhole(got[c])
  PROVE  /\ Count(handled'[1], "status") >= Count(handled[1], "status")
         /\ c = 1 /\ MessageOf(got[1]).kind = "status" =>
              Count(handled'[1], "status") = Count(handled[1], "status") + 1
<1>1. /\ MessageOf(got[c]) \in Taken
      /\ handled'[c] = Append(handled[c], MessageOf(got[c]))
      /\ \A d \in Conns : d # c => handled'[d] = handled[d]
  BY HandlesOne
<1>2. 1 \in Conns /\ handled[1] \in Seq(Taken) /\ Count(handled[1], "status") \in Nat
  BY Countable
<1>3. CASE c = 1
  <2>1. handled'[1] = Append(handled[1], MessageOf(got[1])) /\ MessageOf(got[1]) \in Taken
    BY <1>1, <1>3
  <2> DEFINE m == MessageOf(got[1])
  <2> HIDE DEF m
  <2>2. m \in Taken /\ handled'[1] = Append(handled[1], m)
    BY <2>1 DEF m
  <2>3. Count(Append(handled[1], m), "status") =
          Count(handled[1], "status") + (IF m.kind = "status" THEN 1 ELSE 0)
    BY <1>2, <2>2, CountsOne
  <2>4. QED
    BY <1>2, <1>3, <2>2, <2>3 DEF m
<1>4. CASE c # 1
  BY <1>1, <1>2, <1>4
<1>5. QED
  BY <1>3, <1>4

(* Nothing but a new answer, or the end of one, could disturb Replies.     *)
LEMMA RepliesKept ==
  ASSUME ClientTypes, ServerTypes, Replies,
         Count(written'[1], "status") >= Count(written[1], "status"),
         Count(handled'[1], "status") >= Count(handled[1], "status"),
         Count(written'[1], "status") \in Nat, Count(handled'[1], "status") \in Nat,
         Count(replied'[1], "answer") = Count(replied[1], "answer"),
         \/ pending'[1]["io"] = <<>> <=> pending[1]["io"] = <<>>
         \/ pending'[1]["io"] # <<>>
         \/ Count(handled'[1], "status") = Count(handled[1], "status") + 1
  PROVE  Replies'
<1>1. /\ Count(written[1], "status") \in Nat /\ Count(handled[1], "status") \in Nat
      /\ Count(replied[1], "answer") \in Nat
  BY Countable
<1> DEFINE a == Count(replied[1], "answer")
           s == Count(handled[1], "status")
           t == Count(handled'[1], "status")
<1>2. a <= Count(written'[1], "status")
  BY <1>1 DEF Replies
<1>3. a <= s + (IF pending[1]["io"] = <<>> THEN 0 ELSE 1)
  BY DEF Replies
<1>4. a \in Nat /\ s \in Nat /\ t \in Nat /\ t >= s
  BY <1>1
<1>5. \/ pending'[1]["io"] = <<>> <=> pending[1]["io"] = <<>>
      \/ pending'[1]["io"] # <<>>
      \/ t = s + 1
  OBVIOUS
<1> HIDE DEF a, s, t
<1>6. a <= t + (IF pending'[1]["io"] = <<>> THEN 0 ELSE 1)
  BY <1>3, <1>4, <1>5
<1>7. QED
  BY <1>2, <1>6 DEF Replies, a, t

(* A status request that is answered was written and not answered before.  *)
LEMMA AnswersOne ==
  ASSUME Frame, UpLines, Replies, HandleStatus(1), UNCHANGED clientVars
  PROVE  Replies'
<1>0. SocketTypes /\ ClientTypes /\ ServerTypes /\ 1 \in Conns
  BY Countable DEF Frame
<1>1. Ends(1) /\ UpLine(1)
  BY <1>0 DEF Frame, UpLines
<1>2. /\ Serving(1) /\ IsWhole(got[1]) /\ (IsTorn(got[1]) \/ MessageOf(got[1]).kind = "status")
      /\ pending[1]["io"] = <<>>
      /\ Begin(1, "io", [kind |-> "answer", id |-> MessageOf(got[1]).id])
      /\ UNCHANGED <<handled, written>>
  <2>1. Whole(1, {"status"})
    BY DEF HandleStatus
  <2>2. /\ Serving(1) /\ IsWhole(got[1]) /\ (IsTorn(got[1]) \/ MessageOf(got[1]).kind = "status")
    BY <2>1 DEF Whole
  <2>3. pending[1]["io"] = <<>>
    BY <2>2 DEF Serving
  <2>4. /\ Begin(1, "io", [kind |-> "answer", id |-> MessageOf(got[1]).id])
        /\ UNCHANGED <<handled, written>>
    BY DEF HandleStatus, ioVars, clientVars, writeVars
  <2>5. QED
    BY <2>2, <2>3, <2>4
<1>3. Sound(1)
  BY <1>1, <1>2 DEF Sound, Serving, Ends
<1>4. /\ Len(handled[1]) < Len(written[1]) /\ MessageOf(got[1]).kind = "status"
      /\ InOrder(written[1], Append(handled[1], MessageOf(got[1])))
  BY <1>0, <1>1, <1>2, <1>3, NextInLine DEF Frame
<1>5. got[1] \in Seq(Pieces) /\ got[1] # <<>> /\ handled[1] \in Seq(Taken)
  BY <1>0, <1>2 DEF ServerTypes, IsWhole
<1>6. MessageOf(got[1]) \in Taken /\ MessageOf(got[1]).id \in Nat
  BY <1>2, <1>5, MessageTypes, StatusTaken
<1>7. Append(handled[1], MessageOf(got[1])) \in Seq(Taken)
  BY <1>5, <1>6, AppendProperties
<1>8. Count(Append(handled[1], MessageOf(got[1])), "status") = Count(handled[1], "status") + 1
  BY <1>4, <1>5, <1>6, CountsOne
<1>9. Count(handled[1], "status") + 1 <= Count(written[1], "status")
  BY <1>0, <1>4, <1>7, <1>8, CountsLess, Countable
<1> DEFINE answer == [kind |-> "answer", id |-> MessageOf(got[1]).id]
<1>10. answer \in Messages /\ answer.kind = "answer"
  BY <1>6 DEF Messages, Kinds
<1>11. Begin(1, "io", answer) /\ "io" \in Writers
  BY <1>2 DEF Writers
<1> HIDE DEF answer
<1>12. replied'[1] = Append(replied[1], answer) /\ pending'[1]["io"] = PartsOf(answer)
  BY <1>0, <1>10, <1>11, BeginsReply
<1>13. PartsOf(answer) # <<>>
  <2>1. Len(PartsOf(answer)) = Parts(answer.kind) /\ Parts("answer") = 2
    BY <1>10, PartsOfPieces DEF Parts
  <2>2. QED
    BY <1>10, <2>1
<1>14. Count(replied'[1], "answer") = Count(replied[1], "answer") + 1
  BY <1>0, <1>10, <1>12, CountsOne, Countable
<1>15. Count(replied[1], "answer") <= Count(handled[1], "status")
  BY <1>0, <1>2, Countable DEF Replies
<1>16. /\ Count(replied[1], "answer") \in Nat /\ Count(handled[1], "status") \in Nat
       /\ Count(written[1], "status") \in Nat
  BY <1>0, Countable
<1>17. pending'[1]["io"] # <<>>
  BY <1>12, <1>13
<1>18. handled'[1] = handled[1] /\ written'[1] = written[1]
  BY <1>2
<1>19. Count(replied'[1], "answer") <= Count(written'[1], "status")
  BY <1>9, <1>14, <1>15, <1>16, <1>18
<1>20. Count(replied'[1], "answer") <= Count(handled'[1], "status") + 1
  BY <1>14, <1>15, <1>16, <1>18
<1>21. QED
  BY <1>17, <1>19, <1>20 DEF Replies

(* The server answers no request twice.                                    *)
LEMMA ServerReplies ==
  ASSUME Frame, UpLines, Replies, NEW c \in Conns, ServerStep(c), UNCHANGED clientVars
  PROVE  Replies'
<1>1. /\ ClientTypes /\ ServerTypes /\ ServerLocks(c)
      /\ 1 \in Conns /\ Count(written[1], "status") \in Nat /\ Count(handled[1], "status") \in Nat
      /\ replied[1] \in Seq(Messages)
  BY Countable DEF Frame
<1>2. Frame'
  BY ServerFrame
<1>3. /\ Count(handled'[1], "status") \in Nat
      /\ written' = written /\ Count(written'[1], "status") \in Nat
  <2>1. handled'[1] \in Seq(Taken) /\ Garbled \in Taken
    BY <1>1, <1>2 DEF Frame, ServerTypes, Taken
  <2>2. Count(handled'[1], "status") \in Nat
    BY <2>1, CountsOne
  <2>3. written' = written
    BY DEF clientVars, writeVars
  <2>4. QED
    BY <1>1, <2>2, <2>3
<1>4. CASE UNCHANGED <<handled, replied, pending>>
  BY <1>1, <1>3, <1>4, RepliesKept
<1>5. CASE HandleCommand(c) \/ HandleChunk(c) \/ HandleShutdown(c)
  <2>1. Handled(c) /\ IsWhole(got[c]) /\ UNCHANGED <<replied, pending>>
    BY <1>5 DEF HandleCommand, HandleChunk, HandleShutdown, Whole, outVars
  <2>2. Count(handled'[1], "status") >= Count(handled[1], "status")
    BY <1>1, <2>1, HandledCount
  <2>3. QED
    BY <1>1, <1>3, <2>1, <2>2, RepliesKept
<1>6. CASE HandleStatus(c)
  <2>1. CASE c = 1
    BY <1>6, <2>1, AnswersOne
  <2>2. CASE c # 1
    <3>1. handled' = handled /\ replied'[1] = replied[1] /\ pending'[1]["io"] = pending[1]["io"]
      BY <1>1, <1>6, <2>2 DEF HandleStatus, Begin, ioVars, ServerTypes
    <3>2. QED
      BY <1>1, <1>3, <3>1, RepliesKept
  <2>3. QED
    BY <2>1, <2>2
<1>7. CASE WriteAnswer(c)
  <2>1. Write(c, "io") /\ replied' = replied /\ "io" \in Writers
    BY <1>7 DEF WriteAnswer, Writers
  <2>2. PICK n \in 1 .. Len(pending[c]["io"]) :
           /\ pending'[c]["io"] = Rest(n, pending[c]["io"])
           /\ \A d \in Conns : d # c => pending'[d] = pending[d]
    BY <1>1, <2>1, Writes DEF Frame
  <2>3. pending[c]["io"] # <<>>
    BY <2>2
  <2>4. IsWhole(got[c]) /\ (IsTorn(got[c]) \/ MessageOf(got[c]).kind = "status") /\ serving = c
    BY <1>1, <2>3 DEF ServerLocks
  <2>8. ASSUME c = 1 PROVE MessageOf(got[1]).kind = "status"
    <3>1. SocketTypes /\ Measured /\ Ends(c)
      BY DEF Frame
    <3>5. UpLine(c)
      BY <2>8 DEF UpLines
    <3>2. Sound(c)
      BY <2>1, <2>4, <3>1 DEF Sound, Write, Ends
    <3>3. ~IsTorn(got[c])
      BY <1>1, <2>4, <3>1, <3>2, <3>5, NextInLine
    <3>4. QED
      BY <2>4, <2>8, <3>3
  <2>5. CASE pending'[c]["io"] = <<>>
    <3>1. Handled(c)
      BY <1>7, <2>5 DEF WriteAnswer
    <3>2. /\ Count(handled'[1], "status") >= Count(handled[1], "status")
          /\ c = 1 => Count(handled'[1], "status") = Count(handled[1], "status") + 1
      BY <1>1, <2>4, <2>8, <3>1, HandledCount
    <3>3. c # 1 => pending'[1] = pending[1]
      BY <1>1, <2>2
    <3>4. QED
      BY <1>1, <1>3, <2>1, <3>2, <3>3, RepliesKept
  <2>6. CASE pending'[c]["io"] # <<>>
    <3>1. handled' = handled
      BY <1>7, <2>6 DEF WriteAnswer
    <3>2. pending'[1]["io"] = <<>> <=> pending[1]["io"] = <<>>
      BY <1>1, <2>2, <2>3, <2>6
    <3>3. QED
      BY <1>1, <1>3, <2>1, <3>1, <3>2, RepliesKept
  <2>7. QED
    BY <2>5, <2>6
<1>8. CASE SendLock(c)
  <2>1. Begin(c, "send", held[c]) /\ handled' = handled
    BY <1>8 DEF SendLock, ioVars
  <2>2. held[c] \in Chunks
    BY <1>1 DEF ServerTypes
  <2>3. held[c] \in Messages /\ held[c].kind # "answer" /\ "send" \in Writers /\ "io" \in Writers
    BY <2>2 DEF Chunks, Messages, Kinds, Writers
  <2>4. /\ replied'[c] = Append(replied[c], held[c])
        /\ pending'[c]["io"] = pending[c]["io"]
        /\ \A d \in Conns : d # c => pending'[d] = pending[d] /\ replied'[d] = replied[d]
    BY <1>1, <2>1, <2>3, BeginsReply
  <2>5. pending'[1]["io"] = pending[1]["io"]
    BY <1>1, <2>4
  <2>6. Count(replied'[1], "answer") = Count(replied[1], "answer")
    <3>1. CASE c # 1
      BY <1>1, <2>4, <3>1
    <3>2. CASE c = 1
      <4>1. replied'[1] = Append(replied[1], held[c])
        BY <2>4, <3>2
      <4>2. /\ Count(Append(replied[1], held[c]), "answer") = Count(replied[1], "answer") + 0
            /\ Count(replied[1], "answer") \in Nat
        BY <1>1, <2>3, CountsOne
      <4>3. QED
        BY <4>1, <4>2
    <3>3. QED
      BY <3>1, <3>2
  <2>7. QED
    BY <1>1, <1>3, <2>1, <2>5, <2>6, RepliesKept
<1>9. CASE SendWrite(c)
  <2>1. Write(c, "send") /\ UNCHANGED <<replied, handled>> /\ "send" \in Writers /\ "io" \in Writers
    BY <1>9 DEF SendWrite, ioVars, Writers
  <2>2. /\ pending'[c]["io"] = pending[c]["io"]
        /\ \A d \in Conns : d # c => pending'[d] = pending[d]
    BY <1>1, <2>1, Writes DEF Frame
  <2>3. pending'[1]["io"] = pending[1]["io"]
    BY <1>1, <2>2
  <2>4. QED
    BY <1>1, <1>3, <2>1, <2>3, RepliesKept
<1>10. QED
  BY <1>4, <1>5, <1>6, <1>7, <1>8, <1>9
     DEF ServerStep, Accept, Arrive, ArriveEnd, HangUp, ArriveDeaf, Overflow, Take, SyncRead,
         EntriesLate, CutOff, BadSize, SendFind, SendEnd, WriteFails, Die, ioVars, outVars

(* Every step keeps Replies.                                               *)
LEMMA NextReplies == Frame /\ UpLines /\ Replies /\ [Next]_sessionVars => Replies'
<1> SUFFICES ASSUME Frame, UpLines, Replies, [Next]_sessionVars PROVE Replies'
  OBVIOUS
<1>1. /\ ClientTypes /\ ServerTypes /\ SocketTypes /\ Beginning
      /\ 1 \in Conns /\ Count(written[1], "status") \in Nat /\ Count(handled[1], "status") \in Nat
      /\ written[1] \in Seq(Messages)
  BY Countable DEF Frame
<1>2. CASE ClientStep /\ UNCHANGED serverVars
  <2>1. UNCHANGED <<handled, replied, pending>>
    BY <1>2 DEF serverVars, ioVars, outVars
  <2>2. CASE written'[1] = written[1]
    BY <1>1, <2>1, <2>2, RepliesKept
  <2>3. ASSUME NEW m \in Messages, written'[1] = Append(written[1], m) PROVE Replies'
    <3>1. /\ Count(written'[1], "status") \in Nat
          /\ Count(written'[1], "status") >= Count(written[1], "status")
      BY <1>1, <2>3, CountsOne
    <3>2. QED
      BY <1>1, <2>1, <3>1, RepliesKept
  <2>4. QED
    BY <1>1, <1>2, <2>2, <2>3, WrittenMore
<1>3. CASE Exit /\ UNCHANGED clientVars
  <2>1. UNCHANGED <<handled, replied, pending, written>>
    BY <1>3 DEF Exit, Die, ioVars, outVars, clientVars, writeVars
  <2>2. QED
    BY <1>1, <2>1, RepliesKept
<1>4. CASE UNCHANGED sessionVars
  <2>1. UNCHANGED <<handled, replied, pending, written>>
    BY <1>4 DEF sessionVars, serverVars, ioVars, outVars, clientVars, writeVars
  <2>2. QED
    BY <1>1, <2>1, RepliesKept
<1>5. QED
  BY <1>2, <1>3, <1>4, Steps, ServerReplies

(* Nothing is counted at the beginning.                                    *)
LEMMA InitReplies == Init => Replies /\ Awaited
<1> SUFFICES ASSUME Init PROVE Replies /\ Awaited
  OBVIOUS
<1>1. 1 \in Conns
  BY MaxConnsAssumption DEF Conns
<1>2. replied[1] = <<>> /\ handled[1] = <<>> /\ written[1] = <<>> /\ conn = 0
  BY <1>1 DEF Init, ClientInit, ServerInit
<1>3. QED
  BY <1>2, CountsNothing DEF Replies, Awaited

(* It always holds.                                                        *)
THEOREM Replied == Spec => []Replies
<1>1. Init => Replies
  BY InitReplies
<1>2. QED
  BY <1>1, NextReplies, Framed, Lined, PTL DEF Spec

(* An answer that was handled belongs to a request.                        *)
LEMMA NoMoreAnswers ==
  ASSUME ClientTypes, ServerTypes, DownLine, Replies
  PROVE  Count(received[1], "answer") <= Count(written[1], "status")
<1>1. /\ received[1] \in Seq(Taken) /\ replied[1] \in Seq(Messages)
      /\ Count(received[1], "answer") \in Nat /\ Count(replied[1], "answer") \in Nat
      /\ Count(written[1], "status") \in Nat
  BY Countable
<1>2. Count(received[1], "answer") <= Count(replied[1], "answer")
  BY <1>1, CountsLess DEF DownLine
<1>3. QED
  BY <1>1, <1>2 DEF Replies

(* Nothing is awaited when the two counts agree.                           *)
LEMMA NothingAwaited ==
  ASSUME Count(written[1], "status") = Count(received[1], "answer"),
         Count(received[1], "answer") \in Nat
  PROVE  Awaited
BY DEF Awaited

(* What the user types finds nothing awaited.                              *)
LEMMA NoneAwaited ==
  ASSUME ClientTypes, Awaited, conn = 1, connected, mpc \notin {"write", "poll"}
  PROVE  Count(written[1], "status") = Count(received[1], "answer")
BY DEF Awaited

(* A status request awaits its answer, with the flag down.                 *)
LEMMA SendAwaits ==
  ASSUME Frame, Awaited, SendCommand, conn = 1
  PROVE  Awaited'
<1>1. /\ ClientTypes /\ ServerTypes
      /\ 1 \in Conns /\ written[1] \in Seq(Messages)
      /\ Count(written[1], "status") \in Nat /\ Count(received[1], "answer") \in Nat
  BY Countable DEF Frame
<1> DEFINE m == Head(script).msg
<1>2. /\ m \in Messages /\ connected /\ mpc = "idle" /\ BeginWrite("main", m)
      /\ flag' = FlagFor(m) /\ mpc' = "write" /\ received' = received
  BY <1>1, Typed DEF SendCommand
<1> HIDE DEF m
<1>3. written'[1] = Append(written[1], m) /\ cpending'["main"] = PartsOf(m)
  BY <1>1, <1>2, Begins
<1>4. Count(written[1], "status") = Count(received[1], "answer")
  BY <1>1, <1>2, NoneAwaited
<1>5. Count(written'[1], "status") =
        Count(written[1], "status") + (IF m.kind = "status" THEN 1 ELSE 0)
  BY <1>1, <1>2, <1>3, CountsOne
<1>6. CASE m.kind = "status"
  <2>1. /\ Len(PartsOf(m)) = Parts(m.kind) /\ PartsOf(m) \in Seq(Pieces)
        /\ \A k \in 1 .. Parts(m.kind) : PartsOf(m)[k] = [msg |-> m, part |-> k]
    BY <1>2, PartsOfPieces
  <2>2. \A k \in DOMAIN PartsOf(m) : PartsOf(m)[k].msg.kind = "status"
    BY <1>6, <2>1
  <2>3. flag' = FALSE
    BY <1>2, <1>6 DEF FlagFor
  <2>4. Count(written'[1], "status") = Count(received'[1], "answer") + 1
    BY <1>1, <1>2, <1>4, <1>5, <1>6
  <2>5. Count(received'[1], "answer") \in Nat
    BY <1>1, <1>2
  <2>6. QED
    BY <1>2, <1>3, <2>2, <2>3, <2>4, <2>5 DEF Awaited
<1>7. CASE m.kind # "status"
  <2>1. Count(written'[1], "status") = Count(received'[1], "answer")
    BY <1>1, <1>2, <1>4, <1>5, <1>7
  <2>2. Count(received'[1], "answer") \in Nat
    BY <1>1, <1>2
  <2>3. QED
    BY <2>1, <2>2 DEF Awaited
<1>8. QED
  BY <1>6, <1>7

(* When a status request is all written, the main thread polls.            *)
LEMMA WriteAwaits ==
  ASSUME Frame, Awaited, MainWrite, conn = 1, connected'
  PROVE  Awaited'
<1>1. SocketTypes /\ ClientTypes /\ 1 \in Conns
  BY Countable DEF Frame
<1>2. /\ PutParts("main") /\ mpc = "write"
      /\ UNCHANGED <<conn, received, flag, written>>
  BY DEF MainWrite, readVars
<1>3. connected
  BY <1>1 DEF MainWrite, ClientTypes, Disconnect
<1>4. PICK n \in 1 .. Len(cpending["main"]) :
        cpending["main"] # <<>> /\ cpending'["main"] = Rest(n, cpending["main"])
  BY <1>1, <1>2, Puts
<1>5. /\ cpending["main"] \in Seq(Pieces) /\ Len(cpending["main"]) \in Nat
      /\ n \in 0 .. Len(cpending["main"])
      /\ 1 \in DOMAIN cpending["main"]
  BY <1>1, <1>4 DEF ClientTypes
<1>6. CASE Count(written[1], "status") = Count(received[1], "answer")
  BY <1>2, <1>3, <1>6 DEF Awaited
<1>7. CASE Count(written[1], "status") # Count(received[1], "answer")
  <2>1. ~flag /\ \A k \in DOMAIN cpending["main"] : cpending["main"][k].msg.kind = "status"
    BY <1>2, <1>3, <1>7 DEF Awaited
  <2>2. CASE cpending'["main"] = <<>>
    <3>1. cpending["main"][1].msg.kind = "status"
      BY <1>5, <2>1
    <3>2. mpc' = "poll"
      BY <2>2, <3>1 DEF MainWrite, After
    <3>3. QED
      BY <1>2, <1>3, <2>1, <3>2 DEF Awaited
  <2>3. CASE cpending'["main"] # <<>>
    <3>1. mpc' = "write"
      BY <1>2, <2>3 DEF MainWrite
    <3>2. /\ Len(Rest(n, cpending["main"])) = Len(cpending["main"]) - n
          /\ Rest(n, cpending["main"]) \in Seq(Pieces)
          /\ \A k \in 1 .. Len(cpending["main"]) - n :
               Rest(n, cpending["main"])[k] = cpending["main"][n + k]
      BY <1>5, Cuts
    <3>3. ASSUME NEW k \in DOMAIN cpending'["main"]
          PROVE  cpending'["main"][k].msg.kind = "status"
      <4>1. k \in 1 .. Len(cpending["main"]) - n
        BY <1>4, <3>2
      <4>2. n + k \in DOMAIN cpending["main"]
        BY <1>5, <4>1
      <4>3. QED
        BY <1>4, <2>1, <3>2, <4>1, <4>2
    <3>4. QED
      BY <1>2, <1>3, <2>1, <3>1, <3>3 DEF Awaited
  <2>4. QED
    BY <2>2, <2>3
<1>8. QED
  BY <1>6, <1>7

(* An answer that is handled is the one awaited.                           *)
LEMMA AnswerAwaited ==
  ASSUME Frame, Awaited, HandleAnswer, conn = 1, ~IsTorn(cgot),
         Count(received'[1], "answer") <= Count(written'[1], "status")
  PROVE  Awaited'
<1>1. /\ ClientTypes /\ ServerTypes /\ 1 \in Conns /\ received[1] \in Seq(Taken)
      /\ Count(written[1], "status") \in Nat /\ Count(received[1], "answer") \in Nat
  BY Countable DEF Frame
<1> DEFINE m == MessageOf(cgot)
<1>2. m \in Taken /\ received'[1] = Append(received[1], m)
  BY <1>1, AnswerRead
<1>3. /\ UNCHANGED <<conn, connected, written, cpending>>
      /\ flag' = (flag \/ m.kind = "answer")
      /\ mpc' = IF mpc = "inline" /\ cbuf' = <<>> THEN "idle" ELSE mpc
  BY DEF HandleAnswer, writeVars
<1> HIDE DEF m
<1>4. Count(received'[1], "answer") =
        Count(received[1], "answer") + (IF m.kind = "answer" THEN 1 ELSE 0)
  BY <1>1, <1>2, CountsOne
<1>5. CASE m.kind = "answer"
  <2>1. Count(received'[1], "answer") = Count(received[1], "answer") + 1
    BY <1>1, <1>4, <1>5
  <2>2. connected => Count(written[1], "status") <= Count(received[1], "answer") + 1
    BY DEF Awaited
  <2>3. connected => Count(written'[1], "status") = Count(received'[1], "answer")
    BY <1>1, <1>3, <2>1, <2>2
  <2>4. Count(received'[1], "answer") \in Nat
    BY <1>1, <2>1
  <2>5. QED
    BY <1>3, <2>3, <2>4 DEF Awaited
<1>6. CASE m.kind # "answer"
  <2>1. Count(received'[1], "answer") = Count(received[1], "answer")
    BY <1>1, <1>4, <1>6
  <2>2. mpc \in {"poll", "write"} => mpc' = mpc
    BY <1>3
  <2>3. ~flag => ~flag'
    BY <1>3, <1>6
  <2>4. written'[1] = written[1] /\ cpending'["main"] = cpending["main"]
    BY <1>3
  <2>5. QED
    BY <1>3, <2>1, <2>2, <2>3, <2>4 DEF Awaited
<1>7. QED
  BY <1>5, <1>6

(* The steps of the client that send no command and handle no answer.      *)
LEMMA OthersAwait ==
  ASSUME Frame, Awaited, ClientStep, ~SendCommand, ~MainWrite, ~HandleAnswer,
         conn' = 1, connected'
  PROVE  Awaited'
<1>1. /\ ClientTypes /\ ServerTypes /\ Beginning /\ 1 \in Conns
      /\ written[1] \in Seq(Messages)
      /\ Count(written[1], "status") \in Nat /\ Count(received[1], "answer") \in Nat
  BY Countable DEF Frame
<1>2. CASE Connected
  <2>1. conn = 0
    BY <1>1, <1>2 DEF Connected, ClientTypes
  <2>2. written[1] = <<>> /\ received[1] = <<>>
    BY <1>1, <2>1 DEF Frame, Unused
  <2>3. written' = written /\ received' = received
    BY <1>2 DEF Connected, writeVars
  <2>4. Count(written'[1], "status") = 0 /\ Count(received'[1], "answer") = 0
    BY <2>2, <2>3, CountsNothing
  <2>5. QED
    BY <2>4 DEF Awaited
<1>3. CASE LoadLock
  <2>1. Head(chunks) \in Chunks /\ conn > 0 /\ BeginWrite("load", Head(chunks))
    BY <1>1, <1>3, HeadTailProperties DEF LoadLock, ClientTypes, Beginning
  <2>2. Head(chunks) \in Messages /\ Head(chunks).kind # "status"
    BY <2>1 DEF Chunks, Messages, Kinds
  <2>3. UNCHANGED <<conn, connected, mpc, flag, received>>
    BY <1>3 DEF LoadLock, mainVars, readVars
  <2>4. written'[1] = Append(written[1], Head(chunks)) /\ cpending'["main"] = cpending["main"]
    BY <1>1, <2>1, <2>2, <2>3, Begins
  <2>5. Count(written'[1], "status") = Count(written[1], "status") + 0
    BY <1>1, <2>2, <2>4, CountsOne
  <2>6. Count(written'[1], "status") = Count(written[1], "status")
    BY <1>1, <2>5
  <2>7. QED
    BY <2>3, <2>4, <2>6 DEF Awaited
<1>4. CASE LoadWrite
  <2>1. PutParts("load") /\ UNCHANGED <<conn, connected, mpc, flag, received, written>>
    BY <1>4 DEF LoadWrite, mainVars, readVars
  <2>2. conn > 0
    BY <2>1
  <2>3. cpending'["main"] = cpending["main"]
    BY <1>1, <2>1, <2>2, Puts DEF Frame
  <2>4. QED
    BY <2>1, <2>3 DEF Awaited
<1>5. CASE Poll
  <2>1. flag /\ UNCHANGED <<conn, connected, flag, received, written>>
    BY <1>5 DEF Poll, readVars, writeVars
  <2>2. QED
    BY <2>1 DEF Awaited
<1>6. CASE Joined \/ Close \/ SendNothing \/ Quit
  <2>1. UNCHANGED <<conn, flag, received, written>> /\ mpc # "poll" /\ mpc # "write"
    BY <1>6 DEF Joined, Close, SendNothing, Quit, Type, readVars, writeVars
  <2>2. connected
    BY <1>1, <1>6 DEF Joined, Close, SendNothing, Quit, Disconnect, ClientTypes
  <2>3. Count(written[1], "status") = Count(received[1], "answer")
    BY <1>1, <2>1, <2>2, NoneAwaited
  <2>4. QED
    BY <1>1, <2>1, <2>3 DEF Awaited
<1>7. CASE UNCHANGED <<conn, connected, mpc, flag, received, written, cpending>>
  BY <1>7 DEF Awaited
<1>9. ~Open
  BY DEF Open
<1>8. QED
  BY <1>2, <1>3, <1>4, <1>5, <1>6, <1>7, <1>9
     DEF ClientStep, OpenFails, Image, Stop, QuitJoined, LoadCheck, AnswerArrives, AnswerEnds,
         RunReturns, AnswerOverflow, TakePart, ReadAnswer, ReadAnswerFails, PutFails, Leave, mainVars, readVars,
         writeVars

(* Every step keeps Awaited.                                               *)
LEMMA NextAwaited ==
  Frame /\ Frame' /\ DownLine /\ DownLine' /\ Replies' /\ Awaited /\ [Next]_sessionVars => Awaited'
<1> SUFFICES ASSUME Frame, Frame', DownLine, DownLine', Replies', Awaited, [Next]_sessionVars,
                    conn' = 1, connected'
             PROVE  Awaited'
  BY DEF Awaited
<1>1. CASE ClientStep /\ UNCHANGED serverVars
  <2>1. CASE SendCommand
    BY <2>1, SendAwaits DEF SendCommand
  <2>2. CASE MainWrite
    BY <2>2, WriteAwaits DEF MainWrite
  <2>3. CASE HandleAnswer
    <3>1. 1 \in Conns
      BY MaxConnsAssumption DEF Conns
    <3>2. /\ received'[1] \in Seq(Taken) /\ replied'[1] \in Seq(Messages)
          /\ written'[1] \in Seq(Messages)
      BY <3>1 DEF Frame, ClientTypes, ServerTypes
    <3>3. Count(received'[1], "answer") <= Count(replied'[1], "answer")
      BY <3>2, CountsLess DEF DownLine, InOrder
    <3>4. Garbled \in Taken /\ HalfChunk \in Messages
      BY DEF Taken, Garbled, HalfChunk, Messages, Kinds
    <3>5. /\ Count(received'[1], "answer") \in Nat /\ Count(replied'[1], "answer") \in Nat
          /\ Count(written'[1], "status") \in Nat
      BY <3>2, <3>4, CountsOne
    <3>6. Count(received'[1], "answer") <= Count(written'[1], "status")
      BY <3>3, <3>5 DEF Replies
    <3>7. conn = 1
      BY <2>3 DEF HandleAnswer
    <3>8. ~IsTorn(cgot)
      BY <1>1, <2>3, <3>7, AnswerNext DEF Frame
    <3>9. QED
      BY <2>3, <3>6, <3>7, <3>8, AnswerAwaited
  <2>4. QED
    BY <1>1, <2>1, <2>2, <2>3, OthersAwait
<1>2. CASE UNCHANGED clientVars
  BY <1>2 DEF clientVars, mainVars, readVars, writeVars, Awaited
<1>3. CASE UNCHANGED sessionVars
  BY <1>2, <1>3 DEF sessionVars
<1>4. QED
  BY <1>1, <1>2, <1>3, Steps

(* At most one answer is ever awaited.                                     *)
THEOREM Await == Spec => []Awaited
<1>1. Init => Awaited
  BY InitReplies
<1>2. QED
  BY <1>1, NextAwaited, Framed, Followed, Replied, PTL DEF Spec

(* When the status command ends its poll, as many answers have been        *)
(* handled as requests were written, so the one it prints is that of its   *)
(* own request (Client.cpp:49-52, 90-92).                                  *)
THEOREM Fresh == Spec => StatusFresh
<1>1. Awaited /\ [Next]_sessionVars =>
        [mpc = "poll" /\ mpc' # "poll" /\ conn = 1 /\ connected =>
           Count(received[1], "answer") = Count(written[1], "status")]_sessionVars
  <2> SUFFICES ASSUME Awaited, Next, mpc = "poll", mpc' # "poll", conn = 1, connected
               PROVE  Count(received[1], "answer") = Count(written[1], "status")
    OBVIOUS
  <2>1. ClientStep
    BY Steps DEF clientVars, mainVars
  <2>2. flag
    BY <2>1 DEF ClientStep, Open, Connected, OpenFails, Close, Quit, SendCommand, SendNothing, Image, Stop,
                Joined, QuitJoined, MainWrite, Poll, LoadCheck, LoadLock, LoadWrite,
                AnswerArrives, AnswerEnds, RunReturns, AnswerOverflow, TakePart, ReadAnswer, ReadAnswerFails,
                HandleAnswer, PutFails, Leave, Type, mainVars
  <2>3. QED
    BY <2>2 DEF Awaited
<1>2. QED
  BY <1>1, Await, PTL DEF Spec, StatusFresh
=============================================================================
