-------------------------- MODULE ChunkServerProofs --------------------------
(***************************************************************************)
(* Proofs about the server as a whole, for every number of slots, of SPUs, *)
(* managers and connections, and for all that the clients may send.        *)
(***************************************************************************)
EXTENDS ChunkServer, FiniteSetTheorems, TLAPS

Contents == {"free", "raw", "unknown"} \cup Masks

Chunks ==
  [kind : {"chunk"}, id : ChunkIds \cup {Null}, seq : SeqIds \cup {Zero},
   index : 0 .. 255, prog : ProgIds, param : ParamIds, trail : Seq(Contents)]

SeqCommands == [kind : {"seq"}, seq : SeqIds, entries : Seq(Entries)]

(* Where the io thread is between a param command and its content.         *)
Allocation == {"erase", "alloc", "fill"}

(* The parts of the type invariant.  An owned slot is in the state its     *)
(* owner has put it in; two parameters never share a block.                *)
SlotTypes ==
  /\ place \in [Slots -> States]
  /\ owner \in [Slots -> Threads \cup {NoThread}]
  /\ \A i \in Slots : owner[i] # NoThread => place[i] = Busy(owner[i])

CommandTypes ==
  /\ wire \in [Senders -> Seq(Commands)]
  /\ iopc \in {"listen", "erase", "alloc", "fill", "entries", "receive"}
  /\ iopc \in Allocation => cmd.param \in ParamIds /\ cmd.mask \in Masks
  /\ iopc = "entries" => cmd \in SeqCommands
  /\ iopc = "receive" => cmd.id \in ChunkIds /\ cmd.seq \in SeqIds

(* The block of p is freed, and p has not yet forgotten it.                *)
Erasing(p) == iopc = "erase" /\ cmd.param = p

TableTypes ==
  /\ loaded \subseteq ProgIds
  /\ spuProg \in [Spus -> ProgIds]
  /\ seqs \in [SeqIds -> Seq(Entries)]
  /\ heap \in [Blocks -> {"free", "raw"} \cup Masks]
  /\ params \in [ParamIds -> Blocks \cup {Null}]
  /\ \A p \in ParamIds : params[p] # Null /\ ~Erasing(p) => heap[params[p]] # "free"
  /\ \A p \in ParamIds : Erasing(p) => params[p] # Null /\ heap[params[p]] = "free"
  /\ \A p, q \in ParamIds : params[p] = params[q] /\ params[p] # Null => p = q
  /\ iopc = "alloc" => params[cmd.param] = Null

ManagerTypes ==
  /\ mpc \in [Managers -> {"off", "search", "lookup", "process", "advance"}]
  /\ spuOf \in [Managers -> Spus \cup {NoSpu}]
  /\ ptr \in [Managers -> Blocks \cup {Null}]
  /\ \A m \in Managers : mpc[m] = "process" => ptr[m] \in Blocks

ChunkTypes ==
  /\ slot \in [Slots -> Chunks]
  /\ \A i \in Slots : Occupied(i) => slot[i].id \in ChunkIds /\ slot[i].seq \in SeqIds
  /\ out \in [Senders -> Seq(Chunks \cup [kind : {"status"}])]
  /\ dropped \subseteq ChunkIds

(* A thread in the midst of its work holds a slot.                         *)
Holding(t) == \E i \in Slots : Owns(t, i)

Holders ==
  /\ iopc = "receive" => Holding(IO)
  /\ \A m \in Managers : mpc[m] \in {"lookup", "process", "advance"} => Holding(m)

Typing ==
  SlotTypes /\ CommandTypes /\ TableTypes /\ ManagerTypes /\ ChunkTypes /\ Holders
-----------------------------------------------------------------------------
(* The threads are told apart by the states they take slots from.          *)
LEMMA Stations ==
  /\ IO \in Threads /\ Source(IO) = "FREE" /\ Busy(IO) = "RECEIVING" /\ Goals(IO) = {"WAIT"}
  /\ \A m \in Managers : /\ m \in Threads /\ m # IO /\ Source(m) = "WAIT"
                         /\ Busy(m) = "WORKING" /\ Goals(m) = {"WAIT", "READY"}
  /\ \A c \in Senders : /\ c \in Threads /\ c # IO /\ c \notin Managers /\ Source(c) = "READY"
                        /\ Busy(c) = "SENDING" /\ Goals(c) = {"FREE"}
  /\ NoThread \notin Threads
BY ThreadsAssumption, ServerNamesAssumption, ServerFlagsAssumption
   DEF Threads, Source, Busy, Goals

(* What a command holds, by its kind.                                      *)
LEMMA CommandFields ==
  ASSUME NEW r \in Commands
  PROVE  /\ r.kind = "load" => r.prog \in ProgIds
         /\ r.kind = "run" => r.prog \in ProgIds
         /\ r.kind = "param" => r.param \in ParamIds /\ r.mask \in Masks
         /\ r.kind = "seq" => r \in SeqCommands
         /\ r.kind = "chunk" => r.id \in ChunkIds /\ r.seq \in SeqIds
BY DEF Commands, SeqCommands

(* Every step of the server moves the slots as SlotCycle says, or leaves   *)
(* them alone.                                                             *)
LEMMA SlotSteps == [ServerNext]_serverVars => [Next]_slotVars
<1> SUFFICES ASSUME [ServerNext]_serverVars PROVE [Next]_slotVars
  OBVIOUS
<1> USE Stations
<1>1. CASE Listen
  BY <1>1 DEF Listen, Status, Load, Run, RunFails, ParamFree, ParamErase, ParamAlloc,
     ParamAllocFails, SeqHeader, ChunkFind, ChunkDrop, ParamFill, SeqEntry, ChunkFill,
     ioFrame, Next
<1>2. ASSUME NEW m \in Managers, Manage(m) PROVE [Next]_slotVars
  BY <1>2 DEF Manage, Search, Lookup, LookupFails, Process, Astray, Advance, Next
<1>3. ASSUME NEW c \in Senders, SendFind(c) \/ SendWrite(c) PROVE [Next]_slotVars
  BY <1>3 DEF SendFind, SendWrite, Sent, Next
<1>4. CASE UNCHANGED serverVars
  BY <1>4 DEF serverVars
<1>5. QED
  BY <1>1, <1>2, <1>3, <1>4 DEF ServerNext

(* The server does with its slots what SlotCycle allows.                   *)
THEOREM Refinement == ServerSpec => Spec
<1>1. ServerInit => Init
  BY DEF ServerInit
<1>2. QED
  BY <1>1, SlotSteps, PTL DEF ServerSpec, Spec

(* An owned slot stays in the state its owner has put it in.               *)
LEMMA SlotTypesStep == ASSUME SlotTypes, [Next]_slotVars PROVE SlotTypes'
<1> USE Stations DEF SlotTypes
<1>0. \A t \in Threads : Busy(t) \in States /\ Goals(t) \subseteq States
  BY DEF Threads, States
<1>1. ASSUME NEW t \in Threads, NEW i \in Slots, Take(t, i) PROVE SlotTypes'
  BY <1>0, <1>1 DEF Take
<1>2. ASSUME NEW t \in Threads, NEW i \in Slots, Pass(t, i) PROVE SlotTypes'
  BY <1>0, <1>2 DEF Pass
<1>3. ASSUME NEW t \in Threads, NEW i \in Slots, Abandon(t, i) PROVE SlotTypes'
  BY <1>3 DEF Abandon
<1>4. CASE UNCHANGED slotVars
  BY <1>4 DEF slotVars
<1>5. QED
  BY <1>1, <1>2, <1>3, <1>4 DEF Next
-----------------------------------------------------------------------------
(* A handler takes the first command of a connection.                      *)
LEMMA HandleTypes ==
  ASSUME wire \in [Senders -> Seq(Commands)], NEW c \in Senders, NEW kind, Handle(c, kind)
  PROVE  /\ wire' \in [Senders -> Seq(Commands)]
         /\ Head(wire[c]) \in Commands /\ Head(wire[c]).kind = kind
         /\ iopc = "listen"
<1>1. wire[c] \in Seq(Commands) /\ wire[c] # <<>>
  BY DEF Handle
<1>2. Head(wire[c]) \in Commands /\ Tail(wire[c]) \in Seq(Commands)
  BY <1>1
<1>3. QED
  BY <1>2 DEF Handle

(* The step of a manager or a send thread.                                 *)
OtherStep ==
  \/ \E m \in Managers : Manage(m)
  \/ \E c \in Senders : SendFind(c) \/ SendWrite(c)
  \/ UNCHANGED serverVars

(* It leaves the io thread and the tables alone.                           *)
LEMMA OtherFrame == ASSUME OtherStep PROVE UNCHANGED <<wire, iopc, cmd, tables, dropped>>
BY DEF OtherStep, Manage, Search, Lookup, LookupFails, Process, Astray, Advance, MGoto, ioVars,
   SendFind, SendWrite, serverVars

(* The io thread takes well-formed commands, one at a time.                *)
LEMMA CommandTypesStep == ASSUME CommandTypes, [ServerNext]_serverVars PROVE CommandTypes'
<1> USE DEF CommandTypes
<1>1. ASSUME NEW c \in Senders, NEW kind, Handle(c, kind), Done PROVE CommandTypes'
  BY <1>1, HandleTypes DEF Done
<1>2. ASSUME NEW c \in Senders, ParamFree(c) \/ SeqHeader(c) \/ ChunkFind(c)
      PROVE  CommandTypes'
  BY <1>2, HandleTypes, CommandFields DEF ParamFree, SeqHeader, ChunkFind, GoOn, Allocation
<1>3. CASE ParamErase \/ ParamAlloc \/ ParamAllocFails \/ ParamFill \/ ChunkFill
  BY <1>3 DEF ParamErase, ParamAlloc, ParamAllocFails, ioFrame, ParamFill, ChunkFill,
     Return, Allocation
<1>4. CASE SeqEntry
  <2>1. CASE cmd.entries = <<>>
    BY <1>4, <2>1 DEF SeqEntry, Return, Allocation
  <2>2. CASE cmd.entries # <<>>
    <3>1. cmd \in SeqCommands /\ cmd.entries \in Seq(Entries)
      BY <1>4 DEF SeqEntry, SeqCommands
    <3>2. Tail(cmd.entries) \in Seq(Entries)
      BY <2>2, <3>1
    <3>3. cmd' \in SeqCommands
      BY <1>4, <2>2, <3>1, <3>2 DEF SeqEntry, SeqCommands
    <3>4. QED
      BY <1>4, <2>2, <3>3 DEF SeqEntry, Allocation
  <2>3. QED
    BY <2>1, <2>2
<1>5. CASE OtherStep
  BY <1>5, OtherFrame
<1>6. QED
  BY <1>1, <1>2, <1>3, <1>4, <1>5 DEF ServerNext, Listen, OtherStep, Status, Load, Run,
     RunFails, ChunkDrop
-----------------------------------------------------------------------------
(* The tables.                                                             *)
LEMMA TableFrame ==
  ASSUME TableTypes, UNCHANGED tables,
         {iopc, iopc'} \subseteq {"listen", "entries", "receive", "fill"} \/ UNCHANGED <<iopc, cmd>>
  PROVE  TableTypes'
BY DEF TableTypes, Erasing, tables

(* parameter_free: the block is free, and the parameter forgets it next.   *)
LEMMA ParamFreeTypes ==
  ASSUME TableTypes, CommandTypes, NEW c \in Senders, ParamFree(c)
  PROVE  TableTypes'
<1> DEFINE p == Head(wire[c]).param
<1>1. p \in ParamIds /\ iopc = "listen"
  BY HandleTypes, CommandFields DEF ParamFree, CommandTypes
<1>2. /\ heap' = [b \in Blocks |-> IF b \in OldBlocks(p) THEN "free" ELSE heap[b]]
      /\ UNCHANGED <<loaded, spuProg, seqs, params>>
      /\ iopc' = (IF params[p] = Null THEN "alloc" ELSE "erase") /\ cmd'.param = p
  BY DEF ParamFree, GoOn
<1> HIDE DEF p
<1>3. heap' \in [Blocks -> {"free", "raw"} \cup Masks]
  BY <1>2 DEF TableTypes
<1>4. ASSUME NEW q \in ParamIds, params[q] # Null
      PROVE  heap'[params[q]] = IF q = p THEN "free" ELSE heap[params[q]]
  BY <1>1, <1>2, <1>4 DEF TableTypes, OldBlocks
<1>5. \A q \in ParamIds : ~Erasing(q)
  BY <1>1 DEF Erasing
<1>6. \A q \in ParamIds : Erasing(q)' <=> q = p /\ params[p] # Null
  BY <1>2 DEF Erasing
<1>7. \A q \in ParamIds : params'[q] # Null /\ ~Erasing(q)' => heap'[params'[q]] # "free"
  BY <1>2, <1>4, <1>5, <1>6 DEF TableTypes
<1>8. \A q \in ParamIds : Erasing(q)' => params'[q] # Null /\ heap'[params'[q]] = "free"
  BY <1>2, <1>4, <1>6
<1>9. QED
  BY <1>2, <1>3, <1>7, <1>8 DEF TableTypes

(* It has forgotten it.                                                    *)
LEMMA ParamEraseTypes ==
  ASSUME TableTypes, CommandTypes, ParamErase
  PROVE  TableTypes'
<1>1. cmd.param \in ParamIds /\ UNCHANGED <<loaded, spuProg, seqs, heap, cmd>>
  BY DEF ParamErase, CommandTypes, Allocation, ioFrame
<1>2. \A q \in ParamIds : params'[q] = IF q = cmd.param THEN Null ELSE params[q]
  BY DEF ParamErase, TableTypes
<1>3. params' \in [ParamIds -> Blocks \cup {Null}]
  BY DEF ParamErase, TableTypes
<1>4. \A q \in ParamIds : ~Erasing(q)' /\ (q # cmd.param => ~Erasing(q))
  BY DEF ParamErase, Erasing
<1>5. params'[cmd'.param] = Null
  BY <1>1, <1>2
<1>6. QED
  BY <1>1, <1>2, <1>3, <1>4, <1>5 DEF TableTypes

(* A new block: no other parameter has it.                                 *)
LEMMA ParamAllocTypes ==
  ASSUME TableTypes, CommandTypes, ParamAlloc
  PROVE  TableTypes'
<1>1. cmd.param \in ParamIds /\ UNCHANGED <<loaded, spuProg, seqs, cmd>>
  BY DEF ParamAlloc, CommandTypes, Allocation, ioFrame
<1>2. PICK b \in Blocks : /\ heap[b] = "free"
                          /\ heap' = [heap EXCEPT ![b] = "raw"]
                          /\ params' = [params EXCEPT ![cmd.param] = b]
  BY DEF ParamAlloc
<1>3. b # Null
  BY ServerNamesAssumption
<1>4. heap' \in [Blocks -> {"free", "raw"} \cup Masks] /\ heap'[b] = "raw"
  BY <1>2 DEF TableTypes
<1>5. \A q \in ParamIds : params'[q] = IF q = cmd.param THEN b ELSE params[q]
  BY <1>2 DEF TableTypes
<1>6. params' \in [ParamIds -> Blocks \cup {Null}]
  BY <1>2 DEF TableTypes
<1>7. \A q \in ParamIds : ~Erasing(q)' /\ ~Erasing(q)
  BY DEF ParamAlloc, Erasing
<1>8. ASSUME NEW q \in ParamIds, q # cmd.param, params[q] # Null
      PROVE  params[q] # b /\ heap'[params[q]] # "free"
  BY <1>2, <1>7, <1>8 DEF TableTypes
<1>9. \A q \in ParamIds : params'[q] # Null => heap'[params'[q]] # "free"
  BY <1>4, <1>5, <1>8
<1>10. \A q, r \in ParamIds : params'[q] = params'[r] /\ params'[q] # Null => q = r
  BY <1>3, <1>5, <1>8 DEF TableTypes
<1>11. iopc' = "fill"
  BY DEF ParamAlloc
<1>12. QED
  BY <1>1, <1>4, <1>6, <1>7, <1>9, <1>10, <1>11 DEF TableTypes

(* Every handler leaves the tables well-formed.                            *)
LEMMA TableTypesStep ==
  ASSUME TableTypes, CommandTypes, [ServerNext]_serverVars
  PROVE  TableTypes'
<1>1. ASSUME NEW c \in Senders, Status(c) \/ RunFails(c) \/ ChunkDrop(c) PROVE TableTypes'
  BY <1>1, TableFrame DEF Status, RunFails, ChunkDrop, Done
<1>2. ASSUME NEW c \in Senders, SeqHeader(c) \/ ChunkFind(c) PROVE TableTypes'
  BY <1>2, TableFrame DEF SeqHeader, ChunkFind, Handle, GoOn
<1>3. CASE ChunkFill
  BY <1>3, TableFrame DEF ChunkFill, Return
<1>4. ASSUME NEW c \in Senders, Load(c) PROVE TableTypes'
  <2>1. Head(wire[c]).prog \in ProgIds
    BY <1>4, HandleTypes, CommandFields DEF Load, CommandTypes
  <2>2. loaded' \subseteq ProgIds
    BY <1>4, <2>1 DEF Load, TableTypes
  <2>3. QED
    BY <1>4, <2>2 DEF Load, Done, Erasing, TableTypes
<1>5. ASSUME NEW c \in Senders, Run(c) PROVE TableTypes'
  <2>1. spuProg' \in [Spus -> ProgIds]
    BY <1>5 DEF Run, TableTypes
  <2>2. QED
    BY <1>5, <2>1 DEF Run, Done, Erasing, TableTypes
<1>6. ASSUME NEW c \in Senders, ParamFree(c) PROVE TableTypes'
  BY <1>6, ParamFreeTypes
<1>7. CASE ParamErase \/ ParamAlloc
  BY <1>7, ParamEraseTypes, ParamAllocTypes
<1>11. CASE ParamAllocFails
  BY <1>11 DEF ParamAllocFails, ioFrame, TableTypes, Erasing
<1>12. CASE ParamFill
  <2>1. cmd.param \in ParamIds /\ cmd.mask \in Masks /\ cmd.mask # "free"
    BY <1>12, ServerNamesAssumption DEF ParamFill, CommandTypes, Allocation
  <2>2. /\ heap' \in [Blocks -> {"free", "raw"} \cup Masks]
        /\ \A b \in Blocks : heap[b] # "free" => heap'[b] # "free"
    BY <1>12, <2>1 DEF ParamFill, TableTypes
  <2>3. UNCHANGED <<loaded, spuProg, seqs, params>> /\ iopc' = "listen" /\ iopc = "fill"
    BY <1>12 DEF ParamFill, Return, ioFrame
  <2>4. \A p \in ParamIds : ~Erasing(p) /\ ~Erasing(p)'
    BY <2>3 DEF Erasing
  <2>5. \A p \in ParamIds : params[p] # Null => heap'[params[p]] # "free"
    BY <2>2, <2>4 DEF TableTypes
  <2>6. QED
    BY <2>2, <2>3, <2>4, <2>5 DEF TableTypes
<1>8. CASE SeqEntry
  <2>1. CASE cmd.entries = <<>>
    BY <1>8, <2>1, TableFrame DEF SeqEntry, Return, tables
  <2>2. CASE cmd.entries # <<>>
    <3>1. cmd.seq \in SeqIds /\ cmd.entries \in Seq(Entries)
      BY <1>8 DEF SeqEntry, SeqCommands, CommandTypes
    <3>2. Head(cmd.entries) \in Entries
      BY <2>2, <3>1
    <3>3. seqs[cmd.seq] \in Seq(Entries)
      BY <3>1 DEF TableTypes
    <3>4. Append(seqs[cmd.seq], Head(cmd.entries)) \in Seq(Entries)
      BY <3>2, <3>3
    <3>5. seqs' \in [SeqIds -> Seq(Entries)]
      BY <1>8, <2>2, <3>4 DEF SeqEntry, Added, TableTypes
    <3>6. QED
      BY <1>8, <2>2, <3>5 DEF SeqEntry, Erasing, TableTypes
  <2>3. QED
    BY <2>1, <2>2
<1>9. CASE OtherStep
  BY <1>9, OtherFrame, TableFrame
<1>10. QED
  BY <1>1, <1>2, <1>3, <1>4, <1>5, <1>6, <1>7, <1>8, <1>9, <1>11, <1>12
     DEF ServerNext, Listen, OtherStep
-----------------------------------------------------------------------------
(* The managers.                                                           *)
LEMMA ManagerTypesStep ==
  ASSUME ManagerTypes, TableTypes, [ServerNext]_serverVars,
         \A i \in Slots : slot[i].param \in ParamIds
  PROVE  ManagerTypes'
<1> USE DEF ManagerTypes
<1>1. ASSUME NEW c \in Senders, Run(c) PROVE ManagerTypes'
  BY <1>1 DEF Run
<1>2. ASSUME NEW m \in Managers, Lookup(m) PROVE ManagerTypes'
  <2>1. PICK i \in Slots : Known(slot[i]) /\ ptr' = [ptr EXCEPT ![m] = params[slot[i].param]]
    BY <1>2 DEF Lookup
  <2>2. params[slot[i].param] \in Blocks
    BY <2>1 DEF Known, TableTypes
  <2>3. QED
    BY <1>2, <2>1, <2>2 DEF Lookup, MGoto
<1>3. ASSUME NEW m \in Managers, Search(m) \/ LookupFails(m) \/ Process(m) \/ Advance(m)
      PROVE  ManagerTypes'
  BY <1>3 DEF Search, LookupFails, Process, Advance, MGoto
<1>7. ASSUME NEW m \in Managers, Astray(m) PROVE ManagerTypes'
  BY <1>7 DEF Astray, managers
<1>4. CASE UNCHANGED managers
  BY <1>4 DEF managers
<1>5. CASE (Listen /\ ~ \E c \in Senders : Run(c)) \/ \E c \in Senders : SendFind(c) \/ SendWrite(c)
  <2>1. UNCHANGED managers
    BY <1>5 DEF Listen, Status, Load, RunFails, ParamFree, ParamErase, ParamAlloc,
       ParamAllocFails, ioFrame, SeqHeader, ChunkFind, ChunkDrop, ParamFill, SeqEntry,
       ChunkFill, SendFind, SendWrite
  <2>2. QED
    BY <2>1, <1>4
<1>6. QED
  BY <1>1, <1>2, <1>3, <1>4, <1>5, <1>7 DEF ServerNext, Manage, serverVars
-----------------------------------------------------------------------------
(* The chunks.                                                             *)
LEMMA NewChunkType ==
  ASSUME NEW id \in ChunkIds \cup {Null}, NEW q \in SeqIds \cup {Zero}
  PROVE  NewChunk(id, q) \in Chunks
<1>1. <<>> \in Seq(Contents)
  OBVIOUS
<1>2. QED
  BY <1>1, ServerNamesAssumption DEF NewChunk, Chunks

(* chunk_cache_values does nothing for an entry that exists.               *)
LEMMA CacheDoesNothing ==
  ASSUME NEW ch, seqs[ch.seq] \in Seq(Entries), ch.index \in Nat,
         ch.index <= Len(seqs[ch.seq])
  PROVE  CacheValues(ch) = ch
BY DEF CacheValues

(* A new chunk asks for no entry that does not exist.                      *)
LEMMA CacheNew ==
  ASSUME TableTypes, NEW id, NEW q \in SeqIds
  PROVE  CacheValues(NewChunk(id, q)) = NewChunk(id, q)
<1>1. NewChunk(id, q).seq = q /\ NewChunk(id, q).index = 0
  BY DEF NewChunk
<1>2. seqs[q] \in Seq(Entries)
  BY DEF TableTypes
<1>3. QED
  BY <1>1, <1>2, CacheDoesNothing

(* The chunk after an entry: only its index is another.                    *)
Advanced(ch) == [ch EXCEPT !.index = (@ + 1) % 256]

(* It is a chunk still.                                                    *)
LEMMA AdvancedType ==
  ASSUME NEW ch \in Chunks
  PROVE  /\ Advanced(ch) \in Chunks
         /\ Advanced(ch).id = ch.id /\ Advanced(ch).seq = ch.seq
         /\ Advanced(ch).param = ch.param /\ Advanced(ch).trail = ch.trail
         /\ Advanced(ch).index = (ch.index + 1) % 256
<1>1. ch.index \in 0 .. 255
  BY DEF Chunks
<1>2. (ch.index + 1) % 256 \in 0 .. 255
  BY <1>1
<1>3. QED
  BY <1>2 DEF Advanced, Chunks

(* What Advance makes of a chunk: it moves on and is not touched otherwise.*)
LEMMA AdvanceSlot ==
  ASSUME TableTypes, SlotTypes, ChunkTypes, NEW m \in Managers, Advance(m)
  PROVE  \E i \in Slots :
           /\ Pass(m, i)
           /\ slot' = [slot EXCEPT ![i] = Advanced(slot[i])]
           /\ place'[i] = IF HasEntry(Advanced(slot[i])) THEN "WAIT" ELSE "READY"
<1>1. PICK i \in Slots :
        /\ Pass(m, i)
        /\ place'[i] = IF HasEntry(Advanced(slot[i])) THEN "WAIT" ELSE "READY"
        /\ slot' = [slot EXCEPT ![i] = IF HasEntry(Advanced(slot[i]))
                                       THEN CacheValues(Advanced(slot[i]))
                                       ELSE Advanced(slot[i])]
  BY DEF Advance, Advanced
<1>2. slot[i] \in Chunks /\ slot[i].seq \in SeqIds
  <2>1. owner[i] = m
    BY <1>1 DEF Pass, Owns
  <2>2. place[i] = "WORKING"
    BY <2>1, Stations DEF SlotTypes
  <2>3. QED
    BY <2>2 DEF ChunkTypes, Occupied
<1>3. Advanced(slot[i]).index \in Nat
  <2>1. Advanced(slot[i]) \in Chunks
    BY <1>2, AdvancedType
  <2>2. Advanced(slot[i]).index \in 0 .. 255
    BY <2>1 DEF Chunks
  <2>3. QED
    BY <2>2
<1>4. seqs[Advanced(slot[i]).seq] \in Seq(Entries)
  BY <1>2, AdvancedType DEF TableTypes
<1>5. HasEntry(Advanced(slot[i])) => CacheValues(Advanced(slot[i])) = Advanced(slot[i])
  BY <1>3, <1>4, CacheDoesNothing DEF HasEntry
<1>6. QED
  BY <1>1, <1>5

(* A chunk with another trail.                                             *)
LEMMA TrailType ==
  ASSUME NEW ch \in Chunks, NEW t \in Seq(Contents)
  PROVE  /\ [ch EXCEPT !.trail = t] \in Chunks
         /\ \A f \in {"kind", "id", "seq", "index", "prog", "param"} :
              [ch EXCEPT !.trail = t][f] = ch[f]
         /\ [ch EXCEPT !.trail = t].trail = t
BY DEF Chunks

(* What an SPU writes: a chunk has another trail, and is the same chunk    *)
(* otherwise.                                                              *)
TrailSet(i, t) ==
  /\ t \in Seq(Contents)
  /\ slot' = [slot EXCEPT ![i] = [slot[i] EXCEPT !.trail = t]]

LEMMA ProcessSlot ==
  ASSUME TableTypes, ManagerTypes, SlotTypes, ChunkTypes, NEW m \in Managers, Process(m)
  PROVE  \E i \in Slots :
           /\ Owns(m, i)
           /\ Occupied(i)
           /\ heap[ptr[m]] \in Contents
           /\ TrailSet(i, IF Shared(m) THEN Spoilt ELSE Append(slot[i].trail, heap[ptr[m]]))
<1>1. PICK i \in Slots :
        /\ Owns(m, i)
        /\ slot' = [slot EXCEPT ![i].trail =
                      IF Shared(m) THEN Spoilt ELSE Append(@, heap[ptr[m]])]
  BY DEF Process
<1>2. Occupied(i)
  BY <1>1, Stations DEF Owns, SlotTypes, Occupied
<1>3. heap[ptr[m]] \in Contents
  BY DEF Process, MGoto, ManagerTypes, TableTypes, Contents
<1>4. slot[i].trail \in Seq(Contents)
  BY DEF ChunkTypes, Chunks
<1>5. Spoilt \in Seq(Contents) /\ Append(slot[i].trail, heap[ptr[m]]) \in Seq(Contents)
  BY <1>3, <1>4 DEF Spoilt, Contents
<1>6. slot' = [slot EXCEPT ![i] = [slot[i] EXCEPT !.trail =
                IF Shared(m) THEN Spoilt ELSE Append(slot[i].trail, heap[ptr[m]])]]
  BY <1>1
<1>7. QED
  BY <1>1, <1>2, <1>3, <1>5, <1>6 DEF TrailSet

(* The same of an SPU that two managers share.                             *)
LEMMA AstraySlot ==
  ASSUME NEW m \in Managers, Astray(m)
  PROVE  /\ Shared(m)
         /\ \E i \in Slots : TrailSet(i, Spoilt)
<1>1. Spoilt \in Seq(Contents)
  BY DEF Spoilt, Contents
<1>2. PICK i \in Slots : slot' = [slot EXCEPT ![i].trail = Spoilt]
  BY DEF Astray
<1>3. TrailSet(i, Spoilt)
  BY <1>1, <1>2 DEF TrailSet
<1>4. QED
  BY <1>3 DEF Astray

(* What is written to a slot.                                              *)
LEMMA TrailSetSlot ==
  ASSUME ChunkTypes, NEW i \in Slots, NEW t, TrailSet(i, t)
  PROVE  /\ slot' \in [Slots -> Chunks]
         /\ \A j \in Slots : /\ slot'[j].id = slot[j].id
                               /\ slot'[j].seq = slot[j].seq
                               /\ slot'[j].param = slot[j].param
                               /\ slot'[j].index = slot[j].index
                               /\ slot'[j].trail = IF j = i THEN t ELSE slot[j].trail
<1> DEFINE ch == [slot[i] EXCEPT !.trail = t]
<1>1. slot[i] \in Chunks /\ t \in Seq(Contents)
  BY DEF ChunkTypes, TrailSet
<1>2. /\ ch \in Chunks /\ ch.id = slot[i].id /\ ch.seq = slot[i].seq
      /\ ch.param = slot[i].param /\ ch.index = slot[i].index /\ ch.trail = t
  BY <1>1, TrailType
<1>3. slot' = [slot EXCEPT ![i] = ch]
  BY DEF TrailSet
<1> HIDE DEF ch
<1>4. \A j \in Slots : slot'[j] = IF j = i THEN ch ELSE slot[j]
  BY <1>3 DEF ChunkTypes
<1>5. QED
  BY <1>2, <1>3, <1>4 DEF ChunkTypes

(* A slot that a step leaves alone, or finds occupied, keeps its chunk.    *)
LEMMA ChunkFrame ==
  ASSUME ChunkTypes, UNCHANGED <<slot, out, dropped>>,
         \A i \in Slots : Occupied(i)' => Occupied(i)
  PROVE  ChunkTypes'
BY DEF ChunkTypes, Occupied

(* The chunks stay well-formed, in the slots and on the way back.          *)
LEMMA ChunkTypesStep ==
  ASSUME SlotTypes, CommandTypes, TableTypes, ManagerTypes, ChunkTypes,
         [ServerNext]_serverVars
  PROVE  ChunkTypes'
<1> USE Stations
<1>1. ASSUME NEW t \in Threads, NEW i \in Slots, Take(t, i) \/ Abandon(t, i)
      PROVE  \A j \in Slots : Occupied(j)' => Occupied(j)
  BY <1>1 DEF Take, Abandon, Occupied, Threads, SlotTypes
<1>2. ASSUME UNCHANGED slotVars PROVE \A j \in Slots : Occupied(j)' => Occupied(j)
  BY <1>2 DEF slotVars, Occupied
<1>3. ASSUME NEW t \in Threads, NEW i \in Slots, Pass(t, i)
      PROVE  \A j \in Slots : j # i /\ Occupied(j)' => Occupied(j)
  BY <1>3 DEF Pass, Occupied, SlotTypes
<1>4. ASSUME NEW c \in Senders, Status(c) PROVE ChunkTypes'
  <2>1. [kind |-> "status"] \in [kind : {"status"}]
    OBVIOUS
  <2>2. out' \in [Senders -> Seq(Chunks \cup [kind : {"status"}])]
    BY <1>4, <2>1 DEF Status, ChunkTypes
  <2>3. QED
    BY <1>4, <1>2, <2>2 DEF Status, ChunkTypes
<1>5. ASSUME NEW c \in Senders, Load(c) \/ Run(c) \/ RunFails(c) \/ ParamFree(c) \/ SeqHeader(c)
      PROVE  ChunkTypes'
  BY <1>2, <1>5, ChunkFrame DEF Load, Run, RunFails, ParamFree, SeqHeader
<1>6. CASE ParamErase \/ ParamAlloc \/ ParamAllocFails \/ ParamFill \/ SeqEntry
  BY <1>2, <1>6, ChunkFrame
     DEF ParamErase, ParamAlloc, ParamAllocFails, ParamFill, SeqEntry, ioFrame
<1>7. ASSUME NEW c \in Senders, ChunkFind(c) PROVE ChunkTypes'
  BY <1>1, <1>7, ChunkFrame DEF ChunkFind
<1>8. ASSUME NEW c \in Senders, ChunkDrop(c) PROVE ChunkTypes'
  <2>1. Head(wire[c]).id \in ChunkIds
    BY <1>8, HandleTypes, CommandFields DEF ChunkDrop, CommandTypes
  <2>2. QED
    BY <1>2, <1>8, <2>1 DEF ChunkDrop, ChunkTypes
<1>9. CASE ChunkFill
  <2>1. PICK i \in Slots : /\ Pass(IO, i)
                           /\ slot' = [slot EXCEPT ![i] = CacheValues(NewChunk(cmd.id, cmd.seq))]
    BY <1>9 DEF ChunkFill
  <2>2. cmd.id \in ChunkIds /\ cmd.seq \in SeqIds
    BY <1>9 DEF ChunkFill, CommandTypes
  <2>3. CacheValues(NewChunk(cmd.id, cmd.seq)) = NewChunk(cmd.id, cmd.seq)
    BY <2>2, CacheNew
  <2>4. NewChunk(cmd.id, cmd.seq) \in Chunks
    BY <2>2, NewChunkType
  <2>5. slot' \in [Slots -> Chunks]
    BY <2>1, <2>3, <2>4 DEF ChunkTypes
  <2>6. NewChunk(cmd.id, cmd.seq).id = cmd.id /\ NewChunk(cmd.id, cmd.seq).seq = cmd.seq
    BY DEF NewChunk
  <2>7. \A j \in Slots : Occupied(j)' => slot'[j].id \in ChunkIds /\ slot'[j].seq \in SeqIds
    BY <1>3, <2>1, <2>2, <2>3, <2>6 DEF ChunkTypes
  <2>8. QED
    BY <1>9, <2>5, <2>7 DEF ChunkFill, ChunkTypes
<1>10. ASSUME NEW m \in Managers, Search(m) \/ Lookup(m) \/ LookupFails(m) PROVE ChunkTypes'
  BY <1>1, <1>2, <1>10, ChunkFrame DEF Search, Lookup, LookupFails, MGoto, ioVars
<1>11. ASSUME NEW m \in Managers, Process(m) \/ Astray(m) PROVE ChunkTypes'
  <2>1. PICK i \in Slots : \E t : TrailSet(i, t)
    BY <1>11, ProcessSlot, AstraySlot
  <2>2. /\ slot' \in [Slots -> Chunks]
        /\ \A j \in Slots : slot'[j].id = slot[j].id /\ slot'[j].seq = slot[j].seq
    BY <2>1, TrailSetSlot
  <2>3. UNCHANGED <<out, dropped, slotVars>>
    BY <1>11 DEF Process, Astray, MGoto, ioVars
  <2>4. QED
    BY <1>2, <2>2, <2>3 DEF ChunkTypes
<1>12. ASSUME NEW m \in Managers, Advance(m) PROVE ChunkTypes'
  <2>1. PICK i \in Slots : Pass(m, i) /\ slot' = [slot EXCEPT ![i] = Advanced(slot[i])]
    BY <1>12, AdvanceSlot
  <2>2. slot[i] \in Chunks /\ slot[i].id \in ChunkIds /\ slot[i].seq \in SeqIds
    BY <2>1 DEF Pass, Owns, SlotTypes, ChunkTypes, Occupied
  <2>3. /\ Advanced(slot[i]) \in Chunks /\ Advanced(slot[i]).id = slot[i].id
        /\ Advanced(slot[i]).seq = slot[i].seq
    BY <2>2, AdvancedType
  <2>4. UNCHANGED <<out, dropped>>
    BY <1>12 DEF Advance, MGoto, ioVars
  <2>5. QED
    BY <1>3, <2>1, <2>2, <2>3, <2>4 DEF ChunkTypes
<1>13. ASSUME NEW c \in Senders, SendFind(c) PROVE ChunkTypes'
  <2>1. UNCHANGED <<slot, out, dropped>>
    BY <1>13 DEF SendFind, ioVars
  <2>2. QED
    BY <1>1, <1>13, <2>1, ChunkFrame DEF SendFind
<1>14. ASSUME NEW c \in Senders, SendWrite(c) PROVE ChunkTypes'
  <2>1. PICK i \in Slots : Pass(c, i) /\ out' = [out EXCEPT ![c] = Append(@, slot[i])]
    BY <1>14 DEF SendWrite, Sent
  <2>2. out' \in [Senders -> Seq(Chunks \cup [kind : {"status"}])]
    BY <2>1 DEF ChunkTypes
  <2>3. \A j \in Slots : Occupied(j)' => Occupied(j)
    BY <2>1 DEF Pass, Occupied, SlotTypes
  <2>4. UNCHANGED <<slot, dropped>>
    BY <1>14 DEF SendWrite
  <2>5. QED
    BY <2>2, <2>3, <2>4 DEF ChunkTypes, Occupied
<1>15. CASE UNCHANGED serverVars
  BY <1>2, <1>15, ChunkFrame DEF serverVars
<1>16. QED
  BY <1>4, <1>5, <1>6, <1>7, <1>8, <1>9, <1>10, <1>11, <1>12, <1>13, <1>14, <1>15
     DEF ServerNext, Listen, Manage
-----------------------------------------------------------------------------
(* A thread loses its slot by its own step only.                           *)
LEMMA OthersKeep ==
  ASSUME SlotTypes, NEW t \in Threads, NEW i \in Slots,
         Take(t, i) \/ Pass(t, i) \/ Abandon(t, i),
         NEW u \in Threads, u # t, Holding(u)
  PROVE  Holding(u)'
<1>1. PICK j \in Slots : owner[j] = u
  BY DEF Holding, Owns
<1>2. j # i
  BY <1>1, Stations DEF Take, Pass, Abandon, Owns
<1>3. owner'[j] = u
  BY <1>1, <1>2 DEF Take, Pass, Abandon, SlotTypes
<1>4. QED
  BY <1>3 DEF Holding, Owns

(* A thread that has taken a slot holds it.                                *)
LEMMA TakerHolds ==
  ASSUME SlotTypes, NEW t \in Threads, NEW i \in Slots, Take(t, i)
  PROVE  Holding(t)'
<1>1. owner'[i] = t
  BY DEF Take, SlotTypes
<1>2. QED
  BY <1>1 DEF Holding, Owns

(* A step that moves no slot takes none away.                              *)
LEMMA HoldingFrame ==
  ASSUME UNCHANGED slotVars
  PROVE  \A u \in Threads : Holding(u)' <=> Holding(u)
BY DEF slotVars, Holding, Owns

(* The io thread and the managers hold a slot as long as they need it.     *)
LEMMA HoldersStep ==
  ASSUME SlotTypes, ManagerTypes, Holders, [ServerNext]_serverVars
  PROVE  Holders'
<1> USE Stations
<1>1. ASSUME NEW c \in Senders, Run(c) PROVE Holders'
  BY <1>1, HoldingFrame DEF Run, Done, Holders, ManagerTypes
<1>2. ASSUME NEW c \in Senders,
             \/ Status(c) \/ Load(c) \/ RunFails(c) \/ ParamFree(c) \/ SeqHeader(c)
             \/ ChunkDrop(c)
      PROVE  Holders'
  BY <1>2, HoldingFrame DEF Status, Load, RunFails, ParamFree, SeqHeader, ChunkDrop,
     managers, Done, GoOn, Holders
<1>3. ASSUME NEW c \in Senders, ChunkFind(c) PROVE Holders'
  BY <1>3, TakerHolds, OthersKeep DEF ChunkFind, managers, Holders
<1>4. CASE ParamErase \/ ParamAlloc \/ ParamAllocFails \/ ParamFill \/ SeqEntry
  BY <1>4, HoldingFrame DEF ParamErase, ParamAlloc, ParamAllocFails, ParamFill, SeqEntry,
     ioFrame, Return, managers, Holders
<1>5. CASE ChunkFill
  BY <1>5, OthersKeep DEF ChunkFill, Return, managers, Holders
<1>6. ASSUME NEW m \in Managers, Search(m) PROVE Holders'
  BY <1>6, TakerHolds, OthersKeep DEF Search, MGoto, ioVars, ManagerTypes, Holders
<1>7. ASSUME NEW m \in Managers, Lookup(m) \/ Process(m) \/ Astray(m) PROVE Holders'
  BY <1>7, HoldingFrame DEF Lookup, Process, Astray, MGoto, ioVars, managers, ManagerTypes,
     Holders
<1>8. ASSUME NEW m \in Managers, LookupFails(m) \/ Advance(m) PROVE Holders'
  <2>1. PICK i \in Slots : Pass(m, i) \/ Abandon(m, i)
    BY <1>8 DEF LookupFails, Advance
  <2>2. \A u \in Threads : u # m /\ Holding(u) => Holding(u)'
    BY <2>1, OthersKeep
  <2>3. UNCHANGED iopc /\ mpc' = [mpc EXCEPT ![m] = "search"]
    BY <1>8 DEF LookupFails, Advance, MGoto, ioVars
  <2>4. QED
    BY <2>2, <2>3 DEF ManagerTypes, Holders
<1>9. ASSUME NEW c \in Senders, SendFind(c) \/ SendWrite(c) PROVE Holders'
  BY <1>9, OthersKeep DEF SendFind, SendWrite, Sent, ioVars, managers, Holders
<1>10. CASE UNCHANGED serverVars
  BY <1>10, HoldingFrame DEF serverVars, managers, Holders
<1>11. QED
  BY <1>1, <1>2, <1>3, <1>4, <1>5, <1>6, <1>7, <1>8, <1>9, <1>10
     DEF ServerNext, Listen, Manage
-----------------------------------------------------------------------------
(* The types hold at first.                                                *)
LEMMA InitTyping == ServerInit => Typing
<1> SUFFICES ASSUME ServerInit PROVE Typing
  OBVIOUS
<1> USE Stations, ServerNamesAssumption
<1>1. SlotTypes
  BY DEF ServerInit, Init, SlotTypes, States
<1>2. CommandTypes
  BY ScriptsAssumption DEF ServerInit, CommandTypes, Allocation
<1>3. TableTypes
  <2>1. seqs \in [SeqIds -> Seq(Entries)]
    BY DEF ServerInit
  <2>2. QED
    BY <2>1 DEF ServerInit, TableTypes, Erasing
<1>4. ManagerTypes
  BY DEF ServerInit, ManagerTypes
<1>5. ChunkTypes
  <2>1. slot \in [Slots -> Chunks]
    BY NewChunkType DEF ServerInit
  <2>2. out \in [Senders -> Seq(Chunks \cup [kind : {"status"}])]
    BY DEF ServerInit
  <2>3. QED
    BY <2>1, <2>2 DEF ServerInit, Init, ChunkTypes, Occupied
<1>6. Holders
  BY DEF ServerInit, Holders
<1>7. QED
  BY <1>1, <1>2, <1>3, <1>4, <1>5, <1>6 DEF Typing

(* Every step keeps them.                                                  *)
LEMMA TypingStep == Typing /\ [ServerNext]_serverVars => Typing'
<1> SUFFICES ASSUME Typing, [ServerNext]_serverVars PROVE Typing'
  OBVIOUS
<1>1. SlotTypes'
  BY SlotSteps, SlotTypesStep DEF Typing
<1>2. CommandTypes'
  BY CommandTypesStep DEF Typing
<1>3. TableTypes'
  BY TableTypesStep DEF Typing
<1>4. ManagerTypes'
  <2>1. \A i \in Slots : slot[i].param \in ParamIds
    BY DEF Typing, ChunkTypes, Chunks
  <2>2. QED
    BY <2>1, ManagerTypesStep DEF Typing
<1>5. ChunkTypes'
  BY ChunkTypesStep DEF Typing
<1>6. Holders'
  BY HoldersStep DEF Typing
<1>7. QED
  BY <1>1, <1>2, <1>3, <1>4, <1>5, <1>6 DEF Typing

(* The types are those of the runs.                                        *)
LEMMA TypingTypeOK == Typing => TypeOK
<1> SUFFICES ASSUME Typing PROVE TypeOK
  OBVIOUS
<1>1. \A p \in ParamIds :
        params[p] \in Allocated \cup {Null} \/ (iopc = "erase" /\ cmd.param = p)
  BY DEF Typing, TableTypes, Erasing, Allocated
<1>2. iopc = "erase" => params[cmd.param] \in Blocks \ Allocated
  BY DEF Typing, TableTypes, CommandTypes, Allocation, Erasing, Allocated
<1>3. iopc = "receive" => \E i \in Slots : Owns(IO, i)
  BY DEF Typing, Holders, Holding
<1>4. \A i \in Slots : slot[i].index \in 0 .. 255
  BY DEF Typing, ChunkTypes, Chunks
<1>5. QED
  BY <1>1, <1>2, <1>3, <1>4
     DEF Typing, SlotTypes, CommandTypes, TableTypes, ManagerTypes, ChunkTypes, TypeOK,
         Contents

(* So they hold always.                                                    *)
LEMMA AlwaysTyping == ServerSpec => []Typing
BY InitTyping, TypingStep, PTL DEF ServerSpec

(* Type correctness: whatever the clients send, a registered parameter     *)
(* points to an allocated block, and the io thread holds a slot while it   *)
(* receives a chunk.                                                       *)
THEOREM Types == ServerSpec => []TypeOK
BY AlwaysTyping, TypingTypeOK, PTL
-----------------------------------------------------------------------------
(* Conservation.  A chunk is on the wire of one connection or on the way   *)
(* back on one, each once, or in one slot, in the hands of the io thread,  *)
(* or dropped; never in two of these places.                               *)
InQueue(queue, id) == \E c \in Senders : \E k : k \in At(queue, c, id)

OnlyAt(queue, id) ==
  \A c, d \in Senders : \A k \in At(queue, c, id), l \in At(queue, d, id) : c = d /\ k = l

InSlot(i, id) == Occupied(i) /\ slot[i].id = id
Kept(id) == \E i \in Slots : InSlot(i, id)
AtHand(id) == iopc = "receive" /\ cmd.id = id

Somewhere(id) ==
  InQueue(wire, id) \/ InQueue(out, id) \/ Kept(id) \/ AtHand(id) \/ id \in dropped

NowhereElse(id) ==
  /\ InQueue(wire, id) => ~InQueue(out, id) /\ ~Kept(id) /\ ~AtHand(id) /\ id \notin dropped
  /\ InQueue(out, id) => ~Kept(id) /\ ~AtHand(id) /\ id \notin dropped
  /\ Kept(id) => ~AtHand(id) /\ id \notin dropped
  /\ AtHand(id) => id \notin dropped

OneSlot(id) == \A i, j \in Slots : InSlot(i, id) /\ InSlot(j, id) => i = j

Once(id) ==
  OnlyAt(wire, id) /\ OnlyAt(out, id) /\ OneSlot(id) /\ Somewhere(id) /\ NowhereElse(id)

(* Membership in the places of a chunk in the queues ...                   *)
LEMMA QueuedMember ==
  ASSUME NEW tag, NEW queue, NEW id, NEW x
  PROVE  x \in Queued(tag, queue, id) <=>
           \E c \in Senders : \E k \in At(queue, c, id) : x = <<tag, c, k>>
BY DEF Queued

(* ... and in all its places.                                              *)
LEMMA PlacesMember ==
  ASSUME NEW id, NEW x
  PROVE  x \in Places(id) <=>
           \/ x \in Queued("wire", wire, id)
           \/ x \in Queued("out", out, id)
           \/ \E i \in Slots : InSlot(i, id) /\ x = <<"slot", i>>
           \/ AtHand(id) /\ x = <<"io">>
           \/ id \in dropped /\ x = <<"dropped">>
BY DEF Places, InSlot, AtHand

(* What is only at one place of the queues is there.                       *)
LEMMA QueuePlace ==
  ASSUME NEW tag, NEW queue, NEW id, OnlyAt(queue, id)
  PROVE  /\ InQueue(queue, id) => \E p : \A x : x \in Queued(tag, queue, id) <=> x = p
         /\ ~InQueue(queue, id) => \A x : x \notin Queued(tag, queue, id)
<1>1. ASSUME InQueue(queue, id)
      PROVE  \E p : \A x : x \in Queued(tag, queue, id) <=> x = p
  <2>1. PICK c \in Senders : \E k : k \in At(queue, c, id)
    BY <1>1 DEF InQueue
  <2>2. PICK k : k \in At(queue, c, id)
    BY <2>1
  <2>3. \A d \in Senders : \A l \in At(queue, d, id) : d = c /\ l = k
    BY <2>2 DEF OnlyAt
  <2>4. <<tag, c, k>> \in Queued(tag, queue, id)
    BY <2>2, QueuedMember
  <2>5. ASSUME NEW x \in Queued(tag, queue, id) PROVE x = <<tag, c, k>>
    BY <2>3, QueuedMember
  <2>6. QED
    BY <2>4, <2>5
<1>2. ~InQueue(queue, id) => \A x : x \notin Queued(tag, queue, id)
  BY QueuedMember DEF InQueue
<1>3. QED
  BY <1>1, <1>2

(* So there is one place.                                                  *)
LEMMA OncePlace == ASSUME NEW id, Once(id) PROVE Cardinality(Places(id)) = 1
<1>1. /\ InQueue(wire, id) => \E p : \A x : x \in Queued("wire", wire, id) <=> x = p
      /\ ~InQueue(wire, id) => \A x : x \notin Queued("wire", wire, id)
  BY QueuePlace DEF Once
<1>2. /\ InQueue(out, id) => \E p : \A x : x \in Queued("out", out, id) <=> x = p
      /\ ~InQueue(out, id) => \A x : x \notin Queued("out", out, id)
  BY QueuePlace DEF Once
<1>3. /\ Kept(id) => \E p : \A x : (\E i \in Slots : InSlot(i, id) /\ x = <<"slot", i>>) <=> x = p
      /\ ~Kept(id) => \A x : ~ \E i \in Slots : InSlot(i, id) /\ x = <<"slot", i>>
  <2>1. ASSUME Kept(id)
        PROVE  \E p : \A x : (\E i \in Slots : InSlot(i, id) /\ x = <<"slot", i>>) <=> x = p
    <3>1. PICK i \in Slots : InSlot(i, id)
      BY <2>1 DEF Kept
    <3>2. \A j \in Slots : InSlot(j, id) => j = i
      BY <3>1 DEF Once, OneSlot
    <3>3. \A x : (\E j \in Slots : InSlot(j, id) /\ x = <<"slot", j>>) <=> x = <<"slot", i>>
      BY <3>1, <3>2, Zenon
    <3>4. QED
      BY <3>3
  <2>2. QED
    BY <2>1 DEF Kept
<1>4. \E p : \A x : x \in Places(id) <=> x = p
  <2>1. CASE InQueue(wire, id)
    <3>1. PICK p : \A x : x \in Queued("wire", wire, id) <=> x = p
      BY <1>1, <2>1
    <3>2. \A x : x \in Places(id) <=> x = p
      BY <1>1, <1>2, <1>3, <2>1, <3>1, PlacesMember DEF Once, NowhereElse
    <3>3. QED
      BY <3>2
  <2>2. CASE InQueue(out, id)
    <3>1. PICK p : \A x : x \in Queued("out", out, id) <=> x = p
      BY <1>2, <2>2
    <3>2. \A x : x \in Places(id) <=> x = p
      BY <1>1, <1>2, <1>3, <2>2, <3>1, PlacesMember DEF Once, NowhereElse
    <3>3. QED
      BY <3>2
  <2>3. CASE Kept(id)
    <3>1. PICK p : \A x : (\E i \in Slots : InSlot(i, id) /\ x = <<"slot", i>>) <=> x = p
      BY <1>3, <2>3
    <3>2. \A x : x \in Places(id) <=> x = p
      BY <1>1, <1>2, <1>3, <2>3, <3>1, PlacesMember DEF Once, NowhereElse
    <3>3. QED
      BY <3>2
  <2>4. CASE AtHand(id)
    <3>1. PICK p : p = <<"io">>
      OBVIOUS
    <3>2. \A x : x \in Places(id) <=> x = p
      BY <1>1, <1>2, <1>3, <2>4, <3>1, PlacesMember DEF Once, NowhereElse
    <3>3. QED
      BY <3>2
  <2>5. CASE id \in dropped
    <3>1. PICK p : p = <<"dropped">>
      OBVIOUS
    <3>2. \A x : x \in Places(id) <=> x = p
      BY <1>1, <1>2, <1>3, <2>5, <3>1, PlacesMember DEF Once, NowhereElse
    <3>3. QED
      BY <3>2
  <2>6. QED
    BY <2>1, <2>2, <2>3, <2>4, <2>5 DEF Once, Somewhere
<1>5. PICK p : \A x : x \in Places(id) <=> x = p
  BY <1>4
<1>6. Places(id) = {p}
  BY <1>5
<1>7. QED
  BY <1>6, FS_Singleton
-----------------------------------------------------------------------------
(* A command that is taken is a chunk on the wire that no longer is.       *)
IsChunk(r, id) == r.kind = "chunk" /\ r.id = id

(* Then it is once at hand, where it was once on the wire.                 *)
LEMMA WireStep ==
  ASSUME CommandTypes, NEW c \in Senders, NEW kind, Handle(c, kind),
         NEW id, OnlyAt(wire, id)
  PROVE  /\ OnlyAt(wire', id)
         /\ InQueue(wire', id) <=> InQueue(wire, id) /\ ~IsChunk(Head(wire[c]), id)
         /\ IsChunk(Head(wire[c]), id) => InQueue(wire, id)
<1>1. wire[c] \in Seq(Commands) /\ wire[c] # <<>>
  BY DEF Handle, CommandTypes
<1>2. \A d \in Senders : wire'[d] = IF d = c THEN Tail(wire[c]) ELSE wire[d]
  BY DEF Handle, CommandTypes
<1>3. /\ 1 \in DOMAIN wire[c] /\ Head(wire[c]) = wire[c][1]
      /\ \A k \in DOMAIN Tail(wire[c]) : /\ k \in Nat \ {0} /\ k+1 \in DOMAIN wire[c]
                                         /\ Tail(wire[c])[k] = wire[c][k+1]
      /\ \A k \in DOMAIN wire[c] : k # 1 => /\ k \in Nat /\ k-1 \in DOMAIN Tail(wire[c])
                                            /\ Tail(wire[c])[k-1] = wire[c][k]
  BY <1>1
<1>4. \A k \in At(wire', c, id) : k \in Nat \ {0} /\ k+1 \in At(wire, c, id)
  BY <1>2, <1>3 DEF At
<1>5. \A k \in At(wire, c, id) : k # 1 => k-1 \in At(wire', c, id)
  BY <1>2, <1>3 DEF At
<1>6. 1 \in At(wire, c, id) <=> IsChunk(Head(wire[c]), id)
  BY <1>3 DEF At, IsChunk
<1>7. \A d \in Senders : d # c => At(wire', d, id) = At(wire, d, id)
  BY <1>2 DEF At
<1>8. OnlyAt(wire', id)
  <2> SUFFICES ASSUME NEW d \in Senders, NEW e \in Senders,
                      NEW k \in At(wire', d, id), NEW l \in At(wire', e, id)
               PROVE  d = e /\ k = l
    BY DEF OnlyAt
  <2>1. d = c => k \in Nat /\ k+1 \in At(wire, d, id)
    BY <1>4
  <2>2. e = c => l \in Nat /\ l+1 \in At(wire, e, id)
    BY <1>4
  <2>3. d = e
    BY <1>7, <2>1, <2>2 DEF OnlyAt
  <2>4. k = l
    BY <1>7, <2>1, <2>2, <2>3 DEF OnlyAt
  <2>5. QED
    BY <2>3, <2>4
<1>9. InQueue(wire', id) => InQueue(wire, id) /\ ~IsChunk(Head(wire[c]), id)
  <2> SUFFICES ASSUME NEW d \in Senders, NEW k \in At(wire', d, id)
               PROVE  InQueue(wire, id) /\ ~IsChunk(Head(wire[c]), id)
    BY DEF InQueue
  <2>1. CASE d = c
    <3>1. k \in Nat \ {0} /\ k+1 \in At(wire, c, id)
      BY <1>4, <2>1
    <3>2. 1 \notin At(wire, c, id)
      BY <3>1 DEF OnlyAt
    <3>3. QED
      BY <1>6, <3>1, <3>2 DEF InQueue
  <2>2. CASE d # c
    BY <1>6, <1>7, <2>2 DEF OnlyAt, InQueue
  <2>3. QED
    BY <2>1, <2>2
<1>10. InQueue(wire, id) /\ ~IsChunk(Head(wire[c]), id) => InQueue(wire', id)
  BY <1>5, <1>6, <1>7 DEF InQueue
<1>11. QED
  BY <1>6, <1>8, <1>9, <1>10 DEF InQueue

(* What is written to a connection is the chunk, or another.               *)
LEMMA OutStep ==
  ASSUME ChunkTypes, NEW c \in Senders, NEW r, out' = [out EXCEPT ![c] = Append(@, r)],
         NEW id, OnlyAt(out, id), IsChunk(r, id) => ~InQueue(out, id)
  PROVE  /\ OnlyAt(out', id)
         /\ InQueue(out', id) <=> InQueue(out, id) \/ IsChunk(r, id)
<1> DEFINE n == Len(out[c]) + 1
<1>1. out[c] \in Seq(Chunks \cup [kind : {"status"}])
  BY DEF ChunkTypes
<1>2. \A d \in Senders : out'[d] = IF d = c THEN Append(out[c], r) ELSE out[d]
  BY DEF ChunkTypes
<1>3. /\ DOMAIN Append(out[c], r) = DOMAIN out[c] \cup {n} /\ n \notin DOMAIN out[c]
      /\ Append(out[c], r)[n] = r
      /\ \A k \in DOMAIN out[c] : Append(out[c], r)[k] = out[c][k]
  BY <1>1
<1> HIDE DEF n
<1>4. \A k \in DOMAIN out[c] : k \in At(out', c, id) <=> k \in At(out, c, id)
  BY <1>2, <1>3 DEF At
<1>5. n \in At(out', c, id) <=> IsChunk(r, id)
  BY <1>2, <1>3 DEF At, IsChunk
<1>6. \A k : k \in At(out', c, id) => k = n \/ k \in DOMAIN out[c]
  BY <1>2, <1>3 DEF At
<1>7. At(out, c, id) \subseteq DOMAIN out[c]
  BY DEF At
<1>8. \A d \in Senders : d # c => At(out', d, id) = At(out, d, id)
  BY <1>2 DEF At
<1>9. CASE IsChunk(r, id)
  <2>1. \A d \in Senders : \A k : k \notin At(out, d, id)
    BY <1>9 DEF InQueue
  <2>2. \A d \in Senders : \A k \in At(out', d, id) : d = c /\ k = n
    BY <1>4, <1>6, <1>8, <2>1
  <2>3. InQueue(out', id)
    BY <1>5, <1>9 DEF InQueue
  <2>4. QED
    BY <1>9, <2>2, <2>3 DEF OnlyAt
<1>10. CASE ~IsChunk(r, id)
  <2>1. \A k : k \in At(out', c, id) <=> k \in At(out, c, id)
    BY <1>3, <1>4, <1>5, <1>6, <1>7, <1>10
  <2>2. \A d \in Senders : \A k : k \in At(out', d, id) <=> k \in At(out, d, id)
    BY <1>8, <2>1
  <2>3. OnlyAt(out', id)
    BY <2>2 DEF OnlyAt
  <2>4. InQueue(out', id) <=> InQueue(out, id)
    BY <2>2 DEF InQueue
  <2>5. QED
    BY <1>10, <2>3, <2>4
<1>11. QED
  BY <1>9, <1>10
-----------------------------------------------------------------------------
(* A slot that is taken, or forgotten, goes on holding what it holds.      *)
LEMMA TakeKeeps ==
  ASSUME SlotTypes, NEW t \in Threads, NEW i \in Slots, Take(t, i) \/ Abandon(t, i)
  PROVE  \A j \in Slots : Occupied(j)' <=> Occupied(j)
BY Stations DEF Take, Abandon, Occupied, Threads, SlotTypes

(* The io thread fills a slot, a manager passes a full one on, a send      *)
(* thread empties one.                                                     *)
LEMMA PassKeeps ==
  ASSUME SlotTypes, NEW t \in Threads, NEW i \in Slots, Pass(t, i)
  PROVE  /\ \A j \in Slots : j # i => (Occupied(j)' <=> Occupied(j))
         /\ Occupied(i) <=> t # IO
         /\ Occupied(i)' <=> t \notin Senders
<1>1. owner[i] = t /\ place[i] = Busy(t)
  BY Stations DEF Pass, Owns, SlotTypes
<1>2. PICK s \in Goals(t) : place' = [place EXCEPT ![i] = s]
  BY DEF Pass
<1>3. \A j \in Slots : place'[j] = IF j = i THEN s ELSE place[j]
  BY <1>2 DEF SlotTypes
<1>4. QED
  BY <1>1, <1>2, <1>3, Stations DEF Occupied, Threads

(* The chunk has not moved.                                                *)
Stays(id) ==
  /\ AtHand(id)' <=> AtHand(id)
  /\ \A i \in Slots : InSlot(i, id)' <=> InSlot(i, id)

(* What does not move is still there once.                                 *)
LEMMA OnceQuiet ==
  ASSUME NEW id, Once(id), Stays(id), UNCHANGED dropped,
         OnlyAt(wire', id), InQueue(wire', id) <=> InQueue(wire, id),
         OnlyAt(out', id), InQueue(out', id) <=> InQueue(out, id)
  PROVE  Once(id)'
<1>1. (Kept(id)' <=> Kept(id)) /\ OneSlot(id)'
  BY DEF Stays, Kept, OneSlot, Once
<1>2. QED
  BY <1>1 DEF Once, Somewhere, NowhereElse, Stays

(* A step of the io thread that takes a command other than a chunk.        *)
LEMMA OnceCommand ==
  ASSUME NEW id, Once(id), CommandTypes, NEW c \in Senders, NEW kind, Handle(c, kind),
         kind # "chunk", iopc' # "receive", UNCHANGED <<slotVars, slot, dropped>>,
         OnlyAt(out', id), InQueue(out', id) <=> InQueue(out, id)
  PROVE  Once(id)'
<1>1. ~IsChunk(Head(wire[c]), id) /\ iopc = "listen"
  BY DEF Handle, IsChunk
<1>2. OnlyAt(wire', id) /\ (InQueue(wire', id) <=> InQueue(wire, id))
  BY <1>1, WireStep DEF Once
<1>3. Stays(id)
  BY <1>1 DEF Stays, AtHand, InSlot, Occupied, slotVars
<1>4. QED
  BY <1>2, <1>3, OnceQuiet

(* A step that leaves the queues alone.                                    *)
LEMMA OnceInside ==
  ASSUME NEW id, Once(id), Stays(id), UNCHANGED <<wire, out, dropped>>
  PROVE  Once(id)'
<1>1. /\ OnlyAt(wire', id) /\ (InQueue(wire', id) <=> InQueue(wire, id))
      /\ OnlyAt(out', id) /\ (InQueue(out', id) <=> InQueue(out, id))
  BY DEF Once
<1>2. QED
  BY <1>1, OnceQuiet

(* A chunk is received into a slot ...                                     *)
LEMMA OnceFind ==
  ASSUME NEW id, Once(id), Typing, NEW c \in Senders, ChunkFind(c)
  PROVE  Once(id)'
<1>1. PICK i \in Slots : Take(IO, i)
  BY DEF ChunkFind
<1>2. \A j \in Slots : InSlot(j, id)' <=> InSlot(j, id)
  BY <1>1, Stations, TakeKeeps DEF ChunkFind, InSlot, Typing
<1>3. iopc = "listen" /\ iopc' = "receive" /\ cmd' = Head(wire[c]) /\ UNCHANGED <<out, dropped>>
  BY DEF ChunkFind, Handle, GoOn
<1>4. /\ OnlyAt(wire', id)
      /\ InQueue(wire', id) <=> InQueue(wire, id) /\ ~IsChunk(Head(wire[c]), id)
      /\ IsChunk(Head(wire[c]), id) => InQueue(wire, id)
  BY WireStep DEF ChunkFind, Typing, Once
<1>5. AtHand(id)' <=> IsChunk(Head(wire[c]), id)
  BY <1>3 DEF AtHand, IsChunk, ChunkFind, Handle
<1>6. ~AtHand(id)
  BY <1>3 DEF AtHand
<1>7. (Kept(id)' <=> Kept(id)) /\ OneSlot(id)'
  BY <1>2 DEF Kept, OneSlot, Once
<1>8. QED
  BY <1>3, <1>4, <1>5, <1>6, <1>7 DEF Once, Somewhere, NowhereElse

(* ... or dropped.                                                         *)
LEMMA OnceDrop ==
  ASSUME NEW id, Once(id), Typing, NEW c \in Senders, ChunkDrop(c)
  PROVE  Once(id)'
<1>1. /\ dropped' = dropped \cup {Head(wire[c]).id} /\ Head(wire[c]).kind = "chunk"
      /\ UNCHANGED <<slotVars, slot, out, iopc, cmd>>
  BY DEF ChunkDrop, Handle, Done
<1>2. (Kept(id)' <=> Kept(id)) /\ OneSlot(id)' /\ (AtHand(id)' <=> AtHand(id))
  BY <1>1 DEF slotVars, Kept, OneSlot, InSlot, Occupied, AtHand, Once
<1>3. /\ OnlyAt(wire', id)
      /\ InQueue(wire', id) <=> InQueue(wire, id) /\ ~IsChunk(Head(wire[c]), id)
      /\ IsChunk(Head(wire[c]), id) => InQueue(wire, id)
  BY WireStep DEF ChunkDrop, Typing, Once
<1>4. id \in dropped' <=> id \in dropped \/ IsChunk(Head(wire[c]), id)
  BY <1>1 DEF IsChunk
<1>5. QED
  BY <1>1, <1>2, <1>3, <1>4 DEF Once, Somewhere, NowhereElse

(* The chunk at hand is in the slot then.                                  *)
LEMMA OnceFill ==
  ASSUME NEW id, Once(id), Typing, ChunkFill
  PROVE  Once(id)'
<1>1. PICK i \in Slots : /\ Pass(IO, i)
                         /\ slot' = [slot EXCEPT ![i] = CacheValues(NewChunk(cmd.id, cmd.seq))]
  BY DEF ChunkFill
<1>2. CacheValues(NewChunk(cmd.id, cmd.seq)).id = cmd.id
  <2>1. cmd.seq \in SeqIds
    BY DEF ChunkFill, Typing, CommandTypes
  <2>2. CacheValues(NewChunk(cmd.id, cmd.seq)) = NewChunk(cmd.id, cmd.seq)
    BY <2>1, CacheNew DEF Typing
  <2>3. QED
    BY <2>2 DEF NewChunk
<1>3. slot'[i].id = cmd.id /\ \A j \in Slots : j # i => slot'[j] = slot[j]
  BY <1>1, <1>2 DEF Typing, ChunkTypes
<1>4. /\ ~Occupied(i) /\ Occupied(i)'
      /\ \A j \in Slots : j # i => (Occupied(j)' <=> Occupied(j))
  BY <1>1, Stations, PassKeeps, ThreadsAssumption DEF Typing
<1>5. iopc = "receive" /\ iopc' = "listen" /\ UNCHANGED <<wire, out, dropped>>
  BY DEF ChunkFill, Return
<1>6. /\ InSlot(i, id)' <=> AtHand(id)
      /\ ~InSlot(i, id)
      /\ \A j \in Slots : j # i => (InSlot(j, id)' <=> InSlot(j, id))
  BY <1>3, <1>4, <1>5 DEF InSlot, AtHand
<1>7. ~AtHand(id)'
  BY <1>5 DEF AtHand
<1>8. /\ OnlyAt(wire', id) /\ (InQueue(wire', id) <=> InQueue(wire, id))
      /\ OnlyAt(out', id) /\ (InQueue(out', id) <=> InQueue(out, id))
  BY <1>5 DEF Once
<1>9. CASE AtHand(id)
  <2>1. Kept(id)' /\ OneSlot(id)'
    BY <1>6, <1>9 DEF Kept, OneSlot, Once, NowhereElse
  <2>2. QED
    BY <1>5, <1>7, <1>8, <1>9, <2>1 DEF Once, Somewhere, NowhereElse
<1>10. CASE ~AtHand(id)
  <2>1. Stays(id)
    BY <1>6, <1>7, <1>10 DEF Stays
  <2>2. QED
    BY <1>5, <2>1, OnceInside
<1>11. QED
  BY <1>9, <1>10

(* And from a slot it goes to one connection, once.                        *)
LEMMA OnceWrite ==
  ASSUME NEW id \in ChunkIds, Once(id), Typing, NEW c \in Senders, SendWrite(c)
  PROVE  Once(id)'
<1>1. PICK i \in Slots : Pass(c, i) /\ out' = [out EXCEPT ![c] = Append(@, slot[i])]
  BY DEF SendWrite, Sent
<1>2. /\ Occupied(i) /\ ~Occupied(i)'
      /\ \A j \in Slots : j # i => (Occupied(j)' <=> Occupied(j))
  BY <1>1, Stations, PassKeeps DEF Typing
<1>3. UNCHANGED <<wire, iopc, cmd, slot, dropped>>
  BY DEF SendWrite
<1>4. IsChunk(slot[i], id) <=> InSlot(i, id)
  BY <1>2 DEF IsChunk, InSlot, Typing, ChunkTypes, Chunks
<1>5. /\ ~InSlot(i, id)'
      /\ \A j \in Slots : j # i => (InSlot(j, id)' <=> InSlot(j, id))
  BY <1>2, <1>3 DEF InSlot
<1>6. InSlot(i, id) => Kept(id)
  BY DEF Kept
<1>7. OnlyAt(out', id) /\ (InQueue(out', id) <=> InQueue(out, id) \/ IsChunk(slot[i], id))
  BY <1>1, <1>4, <1>6, OutStep DEF Typing, Once, NowhereElse
<1>8. /\ OnlyAt(wire', id) /\ (InQueue(wire', id) <=> InQueue(wire, id))
      /\ AtHand(id)' <=> AtHand(id)
  BY <1>3 DEF Once, AtHand
<1>9. CASE InSlot(i, id)
  <2>1. ~Kept(id)' /\ OneSlot(id)'
    BY <1>5, <1>9 DEF Kept, OneSlot, Once
  <2>2. QED
    BY <1>3, <1>4, <1>6, <1>7, <1>8, <1>9, <2>1 DEF Once, Somewhere, NowhereElse
<1>10. CASE ~InSlot(i, id)
  <2>1. Stays(id)
    BY <1>5, <1>8, <1>10 DEF Stays
  <2>2. QED
    BY <1>3, <1>4, <1>7, <1>8, <1>10, <2>1, OnceQuiet
<1>11. QED
  BY <1>9, <1>10

(* A manager neither loses nor changes the chunk it has.                   *)
LEMMA OnceManage ==
  ASSUME NEW id \in ChunkIds, Once(id), Typing, NEW m \in Managers, Manage(m)
  PROVE  Once(id)'
<1>0. UNCHANGED <<wire, iopc, cmd, out, dropped>>
  BY DEF Manage, Search, Lookup, LookupFails, Process, Astray, Advance, MGoto, ioVars
<1>1. CASE Search(m) \/ LookupFails(m)
  <2>1. PICK i \in Slots : Take(m, i) \/ Abandon(m, i)
    BY <1>1 DEF Search, LookupFails
  <2>2. UNCHANGED slot
    BY <1>1 DEF Search, LookupFails
  <2>3. \A j \in Slots : Occupied(j)' <=> Occupied(j)
    BY <2>1, Stations, TakeKeeps DEF Typing
  <2>4. Stays(id)
    BY <1>0, <2>2, <2>3 DEF Stays, AtHand, InSlot
  <2>5. QED
    BY <1>0, <2>4, OnceInside
<1>2. CASE Lookup(m)
  <2>1. Stays(id)
    BY <1>0, <1>2 DEF Lookup, slotVars, Stays, AtHand, InSlot, Occupied
  <2>2. QED
    BY <1>0, <2>1, OnceInside
<1>3. CASE Process(m) \/ Astray(m)
  <2>1. \A j \in Slots : slot'[j].id = slot[j].id
    BY <1>3, ProcessSlot, AstraySlot, TrailSetSlot DEF Typing
  <2>2. Stays(id)
    BY <1>0, <1>3, <2>1 DEF Process, Astray, slotVars, Stays, AtHand, InSlot, Occupied
  <2>3. QED
    BY <1>0, <2>2, OnceInside
<1>4. CASE Advance(m)
  <2>1. PICK i \in Slots : Pass(m, i) /\ slot' = [slot EXCEPT ![i] = Advanced(slot[i])]
    BY <1>4, AdvanceSlot DEF Typing
  <2>2. Advanced(slot[i]).id = slot[i].id
    BY AdvancedType DEF Typing, ChunkTypes
  <2>3. \A j \in Slots : slot'[j].id = slot[j].id
    BY <2>1, <2>2 DEF Typing, ChunkTypes
  <2>4. \A j \in Slots : Occupied(j)' <=> Occupied(j)
    BY <2>1, Stations, PassKeeps DEF Typing
  <2>5. Stays(id)
    BY <1>0, <2>3, <2>4 DEF Stays, AtHand, InSlot
  <2>6. QED
    BY <1>0, <2>5, OnceInside
<1>5. QED
  BY <1>1, <1>2, <1>3, <1>4 DEF Manage

(* No step makes two of a chunk, or none.                                  *)
LEMMA OnceStep ==
  ASSUME NEW id \in ChunkIds, Once(id), Typing, [ServerNext]_serverVars
  PROVE  Once(id)'
<1>1. ASSUME NEW c \in Senders, Status(c) PROVE Once(id)'
  <2>1. OnlyAt(out', id) /\ (InQueue(out', id) <=> InQueue(out, id))
    <3>1. ~IsChunk([kind |-> "status"], id)
      BY DEF IsChunk
    <3>2. QED
      BY <1>1, <3>1, OutStep DEF Status, Once, Typing
  <2>2. QED
    BY <1>1, <2>1, OnceCommand, HandleTypes DEF Status, Done, Typing, CommandTypes
<1>2. ASSUME NEW c \in Senders,
             Load(c) \/ Run(c) \/ RunFails(c) \/ ParamFree(c) \/ SeqHeader(c)
      PROVE  Once(id)'
  <2>1. OnlyAt(out', id) /\ (InQueue(out', id) <=> InQueue(out, id))
    BY <1>2 DEF Load, Run, RunFails, ParamFree, SeqHeader, Once
  <2>2. QED
    BY <1>2, <2>1, OnceCommand
       DEF Load, Run, RunFails, ParamFree, SeqHeader, Handle, Done, GoOn, Typing
<1>3. CASE ParamErase \/ ParamAlloc \/ ParamAllocFails \/ ParamFill \/ SeqEntry
  <2>1. Stays(id)
    BY <1>3 DEF ParamErase, ParamAlloc, ParamAllocFails, ParamFill, SeqEntry, ioFrame,
       Return, slotVars, Stays, AtHand, InSlot, Occupied
  <2>2. UNCHANGED <<wire, out, dropped>>
    BY <1>3 DEF ParamErase, ParamAlloc, ParamAllocFails, ParamFill, SeqEntry, ioFrame
  <2>3. QED
    BY <2>1, <2>2, OnceInside
<1>4. ASSUME NEW c \in Senders, SendFind(c) PROVE Once(id)'
  <2>1. PICK i \in Slots : Take(c, i)
    BY <1>4 DEF SendFind
  <2>2. \A j \in Slots : Occupied(j)' <=> Occupied(j)
    BY <2>1, Stations, TakeKeeps DEF Typing
  <2>3. Stays(id)
    BY <1>4, <2>2 DEF SendFind, ioVars, Stays, AtHand, InSlot
  <2>4. QED
    BY <1>4, <2>3, OnceInside DEF SendFind, ioVars
<1>5. CASE UNCHANGED serverVars
  <2>1. Stays(id)
    BY <1>5 DEF serverVars, slotVars, Stays, AtHand, InSlot, Occupied
  <2>2. QED
    BY <1>5, <2>1, OnceInside DEF serverVars
<1>6. QED
  BY <1>1, <1>2, <1>3, <1>4, <1>5, OnceFind, OnceDrop, OnceFill, OnceWrite, OnceManage
     DEF ServerNext, Listen

(* At first every chunk is on one wire (ScriptsAssumption).                *)
LEMMA InitOnce == ASSUME NEW id \in ChunkIds, ServerInit PROVE Once(id)
<1>1. PICK c \in Senders : \E k \in At(wire, c, id) :
        \A d \in Senders : At(wire, d, id) = IF d = c THEN {k} ELSE {}
  BY ScriptsAssumption DEF ServerInit
<1>2. OnlyAt(wire, id) /\ InQueue(wire, id)
  BY <1>1 DEF OnlyAt, InQueue
<1>3. OnlyAt(out, id) /\ ~InQueue(out, id)
  BY DEF ServerInit, At, OnlyAt, InQueue
<1>4. ~Kept(id) /\ OneSlot(id)
  BY DEF ServerInit, Init, Kept, OneSlot, InSlot, Occupied
<1>5. ~AtHand(id) /\ id \notin dropped
  BY DEF ServerInit, AtHand
<1>6. QED
  BY <1>2, <1>3, <1>4, <1>5 DEF Once, Somewhere, NowhereElse

(* Whatever the clients send, and in whatever order the threads run: every *)
(* chunk is in exactly one place, none is lost, sent twice or overwritten  *)
(* (Server.cpp:101-115, 132-148).                                          *)
THEOREM NoneLost == ServerSpec => []Conservation
<1> DEFINE Inv == \A id \in ChunkIds : Once(id)
<1>1. ServerInit => Inv
  BY InitOnce
<1>2. Inv /\ Typing /\ [ServerNext]_serverVars => Inv'
  BY OnceStep
<1>3. Inv => Conservation
  BY OncePlace DEF Conservation
<1> HIDE DEF Inv
<1>4. QED
  BY <1>1, <1>2, <1>3, AlwaysTyping, PTL DEF ServerSpec
=============================================================================
