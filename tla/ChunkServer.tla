---------------------------- MODULE ChunkServer ----------------------------
(***************************************************************************)
(* The server as a whole: the commands the io thread takes from the        *)
(* connections (tcp_connection::handle_read), the tables of programs,      *)
(* sequences and parameters they fill (spu_controller), the manager        *)
(* threads that use these tables without a lock while the io thread        *)
(* changes them, and the send threads (tcp_connection::handle_write).      *)
(*                                                                         *)
(* The slots move as in SlotCycle, which Buffer implements; an SPU that    *)
(* has one manager processes a chunk in one step, as SpuLink does.  What   *)
(* an SPU with two managers computes, and into which slot, is unknown.     *)
(* Commands arrive whole and connections stay open: no SHUTDOWN, no        *)
(* disconnection, no parse error.                                          *)
(***************************************************************************)
EXTENDS SlotCycle, Sequences

CONSTANTS
  Scripts,   \* what the clients may send: functions from Senders to commands
  Spus,      \* the SPUs
  SpuNumbers,  \* the SPUs that a RUN may name
  NoSpu,     \* the SPU of a manager that has not been started
  ProgIds,   \* program ids
  SeqIds,    \* sequence ids
  ParamIds,  \* parameter ids
  ChunkIds,  \* the chunks the clients send, each once
  Masks,     \* the contents of parameters
  Blocks,    \* memory blocks for parameters
  Null,      \* no block
  Zero       \* the program id and the parameter id of a new chunk_t

ASSUME ServerFlagsAssumption == MultiStep /\ MayAbandon

ASSUME ServerNamesAssumption ==
  /\ NoThread \notin Threads
  /\ Zero \in ProgIds \cap ParamIds
  /\ Null \notin Blocks
  /\ {"free", "raw", "unknown"} \cap Masks = {}

Entries == [prog : ProgIds, param : ParamIds]

Commands ==
  [kind : {"status"}]
    \cup [kind : {"load"}, prog : ProgIds]
    \cup [kind : {"run"}, spu : SpuNumbers, prog : ProgIds]
    \cup [kind : {"param"}, param : ParamIds, mask : Masks]
    \cup [kind : {"seq"}, seq : SeqIds, entries : Seq(Entries)]
    \cup [kind : {"chunk"}, id : ChunkIds, seq : SeqIds]

(* The places of a chunk in the queues of all connections.                 *)
At(queue, c, id) ==
  {k \in DOMAIN queue[c] : queue[c][k].kind = "chunk" /\ queue[c][k].id = id}

ASSUME ScriptsAssumption ==
  /\ Scripts \subseteq [Senders -> Seq(Commands)]
  /\ \A w \in Scripts, id \in ChunkIds :
       \E c \in Senders : \E k \in At(w, c, id) :
         \A d \in Senders : At(w, d, id) = IF d = c THEN {k} ELSE {}

(* A send thread belongs to a connection, so Senders are the connections.  *)
VARIABLES
  wire,     \* wire[c]: the commands of connection c still to be handled
  iopc,     \* where the io thread is
  cmd,      \* the command it handles
  loaded,   \* the programs with an open SPU image: spu_program_
  spuProg,  \* spuProg[s]: the prog_id of the spu_data of SPU s
  mpc,      \* mpc[m]: where manager m is; off if not started
  spuOf,    \* spuOf[m]: the SPU m was started for
  ptr,      \* ptr[m]: the parameter block m hands to its SPU
  seqs,     \* seqs[q]: the entries of sequence q; <<>> if there is none
  params,   \* params[p]: the block of parameter p, or Null
  heap,     \* heap[b]: free, raw (allocated, not filled) or a mask
  slot,     \* slot[i]: the chunk in slot i
  out,      \* out[c]: what was written to connection c
  dropped   \* the chunks for which no slot was found

tables == <<loaded, spuProg, seqs, params, heap>>
managers == <<mpc, spuOf, ptr>>
serverVars == <<slotVars, wire, iopc, cmd, tables, managers, slot, out, dropped>>

NewChunk(id, q) ==
  [kind |-> "chunk", id |-> id, seq |-> q, index |-> 0,
   prog |-> Zero, param |-> Zero, trail |-> <<>>]

Listening == [kind |-> "none"]

ServerInit ==
  /\ Init
  /\ wire \in Scripts
  /\ iopc = "listen"
  /\ cmd = Listening
  /\ loaded = {}
  /\ spuProg = [s \in Spus |-> Zero]
  /\ mpc = [m \in Managers |-> "off"]
  /\ spuOf = [m \in Managers |-> NoSpu]
  /\ ptr = [m \in Managers |-> Null]
  /\ seqs = [q \in SeqIds |-> <<>>]
  /\ params = [p \in ParamIds |-> Null]
  /\ heap = [b \in Blocks |-> "free"]
  /\ slot = [i \in Slots |-> NewChunk(Null, Zero)]
  /\ out = [c \in Senders |-> <<>>]
  /\ dropped = {}
-----------------------------------------------------------------------------
(* The io thread.  It handles one command at a time, of any connection.    *)
Handle(c, kind) ==
  /\ iopc = "listen"
  /\ wire[c] # <<>>
  /\ Head(wire[c]).kind = kind
  /\ wire' = [wire EXCEPT ![c] = Tail(@)]

(* A handler that ends at once.                                            *)
Done == UNCHANGED <<iopc, cmd>>

(* A handler that goes on at label.                                        *)
GoOn(c, label) == iopc' = label /\ cmd' = Head(wire[c])

Return == iopc' = "listen" /\ cmd' = Listening

Status(c) ==
  /\ Handle(c, "status")
  /\ Done
  /\ out' = [out EXCEPT ![c] = Append(@, [kind |-> "status"])]
  /\ UNCHANGED <<slotVars, tables, managers, slot, dropped>>

(* An image of the same id is closed first; the new one may fail to open.  *)
Load(c) ==
  /\ Handle(c, "load")
  /\ Done
  /\ LET p == Head(wire[c]).prog IN
       loaded' \in {loaded \cup {p}, loaded \ {p}}
  /\ UNCHANGED <<slotVars, spuProg, seqs, params, heap, managers, slot, out,
                 dropped>>

(* A manager is started, even if the SPU has one.  A manager that runs     *)
(* goes on with the new program id.                                        *)
Run(c) ==
  /\ Handle(c, "run")
  /\ Done
  /\ LET r == Head(wire[c]) IN
       /\ r.spu \in Spus
       /\ r.prog \in loaded
       /\ spuProg' = [spuProg EXCEPT ![r.spu] = r.prog]
       /\ \E m \in Managers :
            /\ mpc[m] = "off"
            /\ mpc' = [mpc EXCEPT ![m] = "search"]
            /\ spuOf' = [spuOf EXCEPT ![m] = r.spu]
  /\ UNCHANGED <<slotVars, loaded, seqs, params, heap, ptr, slot, out, dropped>>

(* No such SPU, no such program, or spe_program_load fails.                *)
RunFails(c) ==
  /\ Handle(c, "run")
  /\ Done
  /\ UNCHANGED <<slotVars, tables, managers, slot, out, dropped>>

(* parameter_alloc: the old block of the id is freed, then no longer       *)
(* registered, then a new one is allocated and registered, before its      *)
(* content has arrived; the managers look parameters up meanwhile.         *)
(* Mutant: a block is freed whatever the id.                               *)
OldBlocksAny(p) == {params[r] : r \in ParamIds} \ {Null}
OldBlocks(p) == {params[p]} \ {Null}

ParamFree(c) ==
  /\ Handle(c, "param")
  /\ LET p == Head(wire[c]).param IN
       /\ GoOn(c, IF params[p] = Null THEN "alloc" ELSE "erase")
       /\ heap' = [b \in Blocks |-> IF b \in OldBlocks(p) THEN "free" ELSE heap[b]]
  /\ UNCHANGED <<slotVars, loaded, spuProg, seqs, params, managers, slot, out,
                 dropped>>

ioFrame == <<slotVars, wire, loaded, spuProg, seqs, managers, slot, out, dropped>>

ParamErase ==
  /\ iopc = "erase"
  /\ iopc' = "alloc"
  /\ params' = [params EXCEPT ![cmd.param] = Null]
  /\ UNCHANGED <<ioFrame, cmd, heap>>

ParamAlloc ==
  /\ iopc = "alloc"
  /\ iopc' = "fill"
  /\ \E b \in Blocks :
       /\ heap[b] = "free"
       /\ heap' = [heap EXCEPT ![b] = "raw"]
       /\ params' = [params EXCEPT ![cmd.param] = b]
  /\ UNCHANGED <<ioFrame, cmd>>

(* No memory: the id stays without a block.                                *)
ParamAllocFails ==
  /\ iopc = "alloc"
  /\ iopc' = "fill"
  /\ UNCHANGED <<ioFrame, cmd, heap, params>>

(* The content is read into the block.  Where there is none the io thread  *)
(* reads to NULL and the server ends: it gets no further here.             *)
ParamFill ==
  /\ iopc = "fill"
  /\ params[cmd.param] # Null
  /\ Return
  /\ heap' = [heap EXCEPT ![params[cmd.param]] = cmd.mask]
  /\ UNCHANGED <<ioFrame, params>>

SeqHeader(c) ==
  /\ Handle(c, "seq")
  /\ GoOn(c, "entries")
  /\ UNCHANGED <<slotVars, tables, managers, slot, out, dropped>>

(* sequence_add_entry appends: a sequence is never cleared.  Mutant: it    *)
(* adds nothing.                                                           *)
AddedNone(q, e) == seqs
Added(q, e) == [seqs EXCEPT ![q] = Append(@, e)]

SeqEntry ==
  /\ iopc = "entries"
  /\ IF cmd.entries = <<>>
     THEN Return /\ UNCHANGED seqs
     ELSE /\ seqs' = Added(cmd.seq, Head(cmd.entries))
          /\ cmd' = [cmd EXCEPT !.entries = Tail(@)]
          /\ UNCHANGED iopc
  /\ UNCHANGED <<slotVars, wire, loaded, spuProg, params, heap, managers, slot,
                 out, dropped>>

ChunkFind(c) ==
  /\ Handle(c, "chunk")
  /\ GoOn(c, "receive")
  /\ \E i \in Slots : Take(IO, i)
  /\ UNCHANGED <<tables, managers, slot, out, dropped>>

(* find_chunk overlooks at most one free slot (OverlooksAtMostOne).        *)
ChunkDrop(c) ==
  /\ Handle(c, "chunk")
  /\ Done
  /\ Cardinality({i \in Slots : place[i] = "FREE"}) <= 1
  /\ dropped' = dropped \cup {Head(wire[c]).id}
  /\ UNCHANGED <<slotVars, tables, managers, slot, out>>

(* chunk_cache_values.  The test of the size is the wrong way round: it    *)
(* returns when the entry exists.  Where it does not return the entry is   *)
(* outside the vector.                                                     *)
CacheValues(ch) ==
  LET s == seqs[ch.seq] IN
    IF s = <<>> \/ Len(s) >= ch.index THEN ch
    ELSE [ch EXCEPT !.prog = s[ch.index + 1].prog,
                    !.param = s[ch.index + 1].param]

ChunkFill ==
  /\ iopc = "receive"
  /\ Return
  /\ \E i \in Slots :
       /\ Pass(IO, i)
       /\ slot' = [slot EXCEPT ![i] = CacheValues(NewChunk(cmd.id, cmd.seq))]
  /\ UNCHANGED <<wire, tables, managers, out, dropped>>

Listen ==
  \/ \E c \in Senders : \/ Status(c) \/ Load(c) \/ Run(c) \/ RunFails(c)
                        \/ ParamFree(c) \/ SeqHeader(c)
                        \/ ChunkFind(c) \/ ChunkDrop(c)
  \/ ParamErase \/ ParamAlloc \/ ParamAllocFails \/ ParamFill
  \/ SeqEntry \/ ChunkFill
-----------------------------------------------------------------------------
(* The managers.  ioVars is what they leave alone.                         *)
ioVars == <<wire, iopc, cmd, tables, out, dropped>>

MGoto(m, from, to) ==
  /\ mpc[m] = from
  /\ mpc' = [mpc EXCEPT ![m] = to]
  /\ UNCHANGED <<ioVars, spuOf>>

Search(m) ==
  /\ MGoto(m, "search", "lookup")
  /\ \E i \in Slots : /\ Take(m, i)
                      /\ slot[i].prog = spuProg[spuOf[m]]
  /\ UNCHANGED <<ptr, slot>>

(* The sequence and the parameter of a chunk are known.                    *)
Known(ch) == seqs[ch.seq] # <<>> /\ params[ch.param] # Null

Lookup(m) ==
  /\ MGoto(m, "lookup", "process")
  /\ \E i \in Slots : /\ Owns(m, i)
                      /\ Known(slot[i])
                      /\ ptr' = [ptr EXCEPT ![m] = params[slot[i].param]]
  /\ UNCHANGED <<slotVars, slot>>

LookupFails(m) ==
  /\ MGoto(m, "lookup", "search")
  /\ \E i \in Slots : ~Known(slot[i]) /\ Abandon(m, i)
  /\ UNCHANGED <<ptr, slot>>

(* A RUN for an SPU that has a manager starts another one.  The two share  *)
(* one control block and take one another's answers.                       *)
Shared(m) == \E n \in Managers \ {m} : mpc[n] # "off" /\ spuOf[n] = spuOf[m]

Spoilt == <<"unknown">>

(* The SPU reads the parameter and the chunk and writes the chunk.         *)
Process(m) ==
  /\ MGoto(m, "process", "advance")
  /\ \E i \in Slots :
       /\ Owns(m, i)
       /\ slot' = [slot EXCEPT ![i].trail =
                     IF Shared(m) THEN Spoilt ELSE Append(@, heap[ptr[m]])]
  /\ UNCHANGED <<slotVars, ptr>>

(* A shared SPU writes to a slot that its manager may have passed on.      *)
Astray(m) ==
  /\ mpc[m] # "off"
  /\ Shared(m)
  /\ \E i \in Slots : slot' = [slot EXCEPT ![i].trail = Spoilt]
  /\ UNCHANGED <<ioVars, slotVars, managers>>

(* The chunk has another entry to go through.  Mutant: one too many.       *)
HasEntryOneMore(ch) == ch.index <= Len(seqs[ch.seq])
HasEntry(ch) == ch.index < Len(seqs[ch.seq])

Advance(m) ==
  /\ MGoto(m, "advance", "search")
  /\ \E i \in Slots :
       LET ch == [slot[i] EXCEPT !.index = (@ + 1) % 256] IN
         /\ Pass(m, i)
         /\ place'[i] = IF HasEntry(ch) THEN "WAIT" ELSE "READY"
         /\ slot' = [slot EXCEPT ![i] = IF HasEntry(ch) THEN CacheValues(ch) ELSE ch]
  /\ UNCHANGED ptr

Manage(m) ==
  Search(m) \/ Lookup(m) \/ LookupFails(m) \/ Process(m) \/ Astray(m) \/ Advance(m)

(* The send threads.  Any of them sends any chunk.  Mutant: it leaves the  *)
(* slot READY.                                                             *)
SendFind(c) ==
  /\ \E i \in Slots : Take(c, i)
  /\ UNCHANGED <<ioVars, managers, slot>>

SentAgain(c, i) ==
  /\ Owns(c, i)
  /\ place' = [place EXCEPT ![i] = "READY"]
  /\ owner' = [owner EXCEPT ![i] = NoThread]
Sent(c, i) == Pass(c, i)

SendWrite(c) ==
  /\ \E i \in Slots :
       /\ Sent(c, i)
       /\ out' = [out EXCEPT ![c] = Append(@, slot[i])]
  /\ UNCHANGED <<wire, iopc, cmd, tables, managers, slot, dropped>>

ServerNext ==
  \/ Listen
  \/ \E m \in Managers : Manage(m)
  \/ \E c \in Senders : SendFind(c) \/ SendWrite(c)

ServerSpec == ServerInit /\ [][ServerNext]_serverVars
-----------------------------------------------------------------------------
(* Types.  A registered parameter points to an allocated block, but for    *)
(* the one the io thread is about to erase.                                *)
Allocated == {b \in Blocks : heap[b] # "free"}

TypeOK ==
  /\ place \in [Slots -> States]
  /\ owner \in [Slots -> Threads \cup {NoThread}]
  /\ iopc \in {"listen", "erase", "alloc", "fill", "entries", "receive"}
  /\ iopc = "erase" => params[cmd.param] \in Blocks \ Allocated
  /\ iopc = "alloc" => params[cmd.param] = Null
  /\ iopc = "receive" => \E i \in Slots : Owns(IO, i)
  /\ loaded \subseteq ProgIds
  /\ spuProg \in [Spus -> ProgIds]
  /\ mpc \in [Managers -> {"off", "search", "lookup", "process", "advance"}]
  /\ spuOf \in [Managers -> Spus \cup {NoSpu}]
  /\ ptr \in [Managers -> Blocks \cup {Null}]
  /\ seqs \in [SeqIds -> Seq(Entries)]
  /\ heap \in [Blocks -> {"free", "raw"} \cup Masks]
  /\ params \in [ParamIds -> Blocks \cup {Null}]
  /\ \A p \in ParamIds :
       params[p] \in Allocated \cup {Null} \/ (iopc = "erase" /\ cmd.param = p)
  /\ \A i \in Slots : slot[i].index \in 0 .. 255
  /\ dropped \subseteq ChunkIds

(* Every chunk is in exactly one place: still to be handled, with the io   *)
(* thread, in one slot, delivered, or dropped.  No chunk is received into  *)
(* two slots, sent twice, overwritten before it is sent, or sent from a    *)
(* slot that has been refilled (Server.cpp:101-115, 132-148).              *)
Queued(tag, queue, id) ==
  UNION {{<<tag, c, k>> : k \in At(queue, c, id)} : c \in Senders}

Occupied(i) == place[i] \notin {"FREE", "RECEIVING"}

Places(id) ==
  Queued("wire", wire, id)
  \cup Queued("out", out, id)
  \cup {<<"slot", i>> : i \in {j \in Slots : Occupied(j) /\ slot[j].id = id}}
  \cup {p \in {<<"io">>} : iopc = "receive" /\ cmd.id = id}
  \cup {p \in {<<"dropped">>} : id \in dropped}

Conservation == \A id \in ChunkIds : Cardinality(Places(id)) = 1

(* What a client has to keep to, and the client program does when it is    *)
(* given prog1 once (CSApp.cpp:69-102): parameter 0 and the sequence of a  *)
(* chunk are sent before it on the same connection, and neither of them    *)
(* twice; a sequence names parameter 0 only, and is short enough for the   *)
(* index of a chunk; no SPU is started twice.                              *)
SetUpFirst(w) ==
  \A c \in Senders : \A k \in DOMAIN w[c] : w[c][k].kind = "chunk" =>
    /\ \E j \in 1 .. k-1 : w[c][j].kind = "param" /\ w[c][j].param = Zero
    /\ \E j \in 1 .. k-1 : /\ w[c][j].kind = "seq"
                           /\ w[c][j].seq = w[c][k].seq
                           /\ w[c][j].entries # <<>>

SetUpOnce(w) ==
  \A c, d \in Senders : \A j \in DOMAIN w[c], k \in DOMAIN w[d] :
    \/ /\ w[c][j].kind = "param" /\ w[c][j].param = Zero
       /\ w[d][k].kind = "param" /\ w[d][k].param = Zero
    \/ /\ w[c][j].kind = "seq"
       /\ w[d][k].kind = "seq" /\ w[d][k].seq = w[c][j].seq
    => c = d /\ j = k

PlainSequences(w) ==
  \A c \in Senders : \A k \in DOMAIN w[c] : w[c][k].kind = "seq" =>
    /\ Len(w[c][k].entries) <= 255
    /\ \A e \in DOMAIN w[c][k].entries : w[c][k].entries[e].param = Zero

RunOnce(w) ==
  \A c, d \in Senders : \A j \in DOMAIN w[c], k \in DOMAIN w[d] :
    w[c][j].kind = "run" /\ w[d][k].kind = "run" /\ w[d][k].spu = w[c][j].spu
    => c = d /\ j = k

OrderlyClients ==
  \A w \in Scripts :
    SetUpFirst(w) /\ SetUpOnce(w) /\ PlainSequences(w) /\ RunOnce(w)

(* A chunk that comes back has gone once through every entry of its        *)
(* sequence and in order, each time with the parameter of that entry       *)
(* (spu_controller.cpp:155-186).  It holds as long as no parameter or      *)
(* sequence of a chunk changes once chunks are sent, and all entries name  *)
(* program and parameter 0, as the client program's do.                    *)
DeliveredProcessed ==
  \A c \in Senders : \A k \in DOMAIN out[c] : out[c][k].kind = "chunk" =>
    LET ch == out[c][k]
        s  == seqs[ch.seq]
    IN ch.trail = [e \in DOMAIN s |-> heap[params[s[e].param]]]

(* The SPU never reads a parameter block that was freed, or one whose      *)
(* content has not arrived, although the block is freed by the io thread   *)
(* while managers hold pointers to blocks (spu_controller.cpp:51-53, 158): *)
(* the mask command replaces a parameter that no sequence uses.            *)
ParametersReady ==
  \A m \in Managers : mpc[m] = "process" => heap[ptr[m]] \notin {"free", "raw"}

(* No manager forgets a chunk in WORKING, where nobody looks for it        *)
(* (spu_controller.cpp:156, 159): the sequence and the parameter of a      *)
(* chunk are known because the client sends them first.  A server of such  *)
(* clients is a Buffer with MayAbandon = FALSE.                            *)
NeverForgotten ==
  \A i \in Slots : place[i] = "WORKING" => \E m \in Managers : Owns(m, i)

(* A waiting chunk carries the program and the parameter of the entry it   *)
(* waits for, as common.h:67-68 says of these fields.                      *)
CachedValues ==
  \A i \in Slots : place[i] = "WAIT" =>
    LET s == seqs[slot[i].seq]
        k == slot[i].index + 1
    IN k \in DOMAIN s => /\ slot[i].prog = s[k].prog
                         /\ slot[i].param = s[k].param
=============================================================================
