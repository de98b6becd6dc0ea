---------------------------- MODULE OrderlyProofs ----------------------------
(***************************************************************************)
(* Proofs about the server of clients that set it up before they send      *)
(* chunks (OrderlyClients): no chunk is forgotten, no SPU reads a block    *)
(* that is free or not filled, and what comes back has gone through every  *)
(* entry of its sequence.                                                  *)
(***************************************************************************)
EXTENDS ChunkServerProofs

(* Orderly clients.  The wires stay orderly: what a chunk needs has been   *)
(* set up, or comes before it on its own wire, or is being set up; and     *)
(* what has been set up does not come again.                               *)
IsMask(r) == r.kind = "param" /\ r.param = Zero
IsSequence(r, q) == r.kind = "seq" /\ r.seq = q

Filling == iopc \in Allocation /\ cmd.param = Zero
Adding(q) == iopc = "entries" /\ cmd.seq = q

MaskAhead(w, k) == \E j \in 1 .. k-1 : IsMask(w[j])
SequenceAhead(w, k, q) == \E j \in 1 .. k-1 : IsSequence(w[j], q) /\ w[j].entries # <<>>

Ahead(w, k) ==
  /\ params[Zero] # Null \/ Filling \/ MaskAhead(w, k)
  /\ \/ seqs[w[k].seq] # <<>>
     \/ Adding(w[k].seq) /\ cmd.entries # <<>>
     \/ SequenceAhead(w, k, w[k].seq)

WiresOrderly ==
  /\ SetUpOnce(wire) /\ PlainSequences(wire)
  /\ ~Erasing(Zero)
  /\ \A c \in Senders : \A k \in DOMAIN wire[c] :
       /\ wire[c][k].kind = "chunk" => Ahead(wire[c], k)
       /\ IsMask(wire[c][k]) => params[Zero] = Null /\ ~Filling
       /\ \A q \in SeqIds : IsSequence(wire[c][k], q) => seqs[q] = <<>> /\ ~Adding(q)

(* The sequences are plain ones, also the one that is being added.         *)
Plain(s) == Len(s) <= 255 /\ \A e \in DOMAIN s : s[e].param = Zero

SequencesPlain ==
  /\ \A q \in SeqIds : Plain(seqs[q])
  /\ iopc = "entries" => /\ Len(seqs[cmd.seq]) + Len(cmd.entries) <= 255
                         /\ \A e \in DOMAIN cmd.entries : cmd.entries[e].param = Zero

(* The mask is there, or being filled in.                                  *)
MaskFilled == params[Zero] # Null => heap[params[Zero]] \in Masks \/ Filling

(* A chunk of sequence q can be processed, and nothing it needs changes.   *)
Ready(q) == /\ params[Zero] # Null /\ seqs[q] # <<>>
            /\ ~Filling /\ ~Adding(q)

ChunksReady ==
  /\ iopc = "receive" => Ready(cmd.seq)
  /\ \A i \in Slots : Occupied(i) => slot[i].param = Zero /\ Ready(slot[i].seq)
  /\ \A c \in Senders : \A k \in DOMAIN out[c] : out[c][k].kind = "chunk" =>
       out[c][k].seq \in SeqIds /\ Ready(out[c][k].seq)

(* A thread has one slot; a manager that has one is at work on it, and has *)
(* the block of the mask while the SPU runs.                               *)
AtWork(m) == mpc[m] \in {"lookup", "process", "advance"}

ManagersAtWork ==
  /\ \A i, j \in Slots : owner[i] = owner[j] /\ owner[i] # NoThread => i = j
  /\ \A i \in Slots : owner[i] \in Managers => AtWork(owner[i])
  /\ \A i \in Slots : place[i] = "WORKING" => owner[i] \in Managers
  /\ \A m \in Managers : mpc[m] = "process" => ptr[m] = params[Zero]

(* How far the chunk in a slot has come: once through each entry before    *)
(* its index, and through that entry if its manager is to advance it.      *)
Trail(n) == [e \in 1 .. n |-> heap[params[Zero]]]

RoundsOf(ch, p, advancing) ==
  LET n == Len(seqs[ch.seq]) IN
    /\ p \in {"WAIT", "WORKING"} => ch.index < n
    /\ p = "WAIT" => ch.trail = Trail(ch.index)
    /\ p = "WORKING" => ch.trail = Trail(IF advancing THEN ch.index + 1 ELSE ch.index)
    /\ p \in {"READY", "SENDING"} => ch.trail = Trail(n)

ToAdvance(i) == mpc[owner[i]] = "advance"

Rounds(i) == Occupied(i) => RoundsOf(slot[i], place[i], ToAdvance(i))

TrailsRight ==
  /\ \A i \in Slots : Rounds(i)
  /\ \A c \in Senders : \A k \in DOMAIN out[c] :
       out[c][k].kind = "chunk" => out[c][k].trail = Trail(Len(seqs[out[c][k].seq]))

(* No two managers share an SPU, or will.                                  *)
Started(m) == mpc[m] # "off"

SpusApart ==
  /\ RunOnce(wire)
  /\ \A m, n \in Managers : Started(m) /\ Started(n) /\ spuOf[m] = spuOf[n] => m = n
  /\ \A c \in Senders : \A k \in DOMAIN wire[c] : wire[c][k].kind = "run" =>
       \A m \in Managers : Started(m) => spuOf[m] # wire[c][k].spu

Alone == \A m \in Managers : Started(m) => ~Shared(m)

Orderly ==
  /\ WiresOrderly /\ SequencesPlain /\ MaskFilled /\ ChunksReady /\ ManagersAtWork
  /\ SpusApart /\ TrailsRight
-----------------------------------------------------------------------------
(* A step of the io thread that takes a command of connection c.           *)
HandlerStep(c) ==
  \/ Status(c) \/ Load(c) \/ Run(c) \/ RunFails(c) \/ ParamFree(c) \/ SeqHeader(c)
  \/ ChunkFind(c) \/ ChunkDrop(c)

(* The steps, as the lemmas below tell them apart.                         *)
LEMMA StepKinds ==
  ASSUME [ServerNext]_serverVars
  PROVE  \/ \E c \in Senders : HandlerStep(c)
         \/ ParamErase \/ ParamAlloc \/ ParamAllocFails
         \/ ParamFill \/ SeqEntry \/ ChunkFill
         \/ OtherStep
BY DEF ServerNext, Listen, HandlerStep, OtherStep

(* The wires move up.                                                      *)
Shifted(c) ==
  \A d \in Senders : \A k \in DOMAIN wire'[d] :
    /\ k \in Nat \ {0}
    /\ d = c => k+1 \in DOMAIN wire[c] /\ wire'[c][k] = wire[c][k+1]
    /\ d # c => k \in DOMAIN wire[d] /\ wire'[d] = wire[d]

(* A handler takes the first command of a wire, which moves up.            *)
LEMMA Shift ==
  ASSUME CommandTypes, NEW c \in Senders, NEW kind, Handle(c, kind)
  PROVE  /\ Shifted(c)
         /\ 1 \in DOMAIN wire[c] /\ Head(wire[c]) = wire[c][1] /\ wire[c][1] \in Commands
         /\ wire[c][1].kind = kind /\ iopc = "listen"
         /\ \A k \in DOMAIN wire'[c] : \A j \in 1 .. k : j # 1 => wire'[c][j-1] = wire[c][j]
<1>1. wire[c] \in Seq(Commands) /\ wire[c] # <<>>
  BY DEF Handle, CommandTypes
<1>2. \A d \in Senders : wire'[d] = IF d = c THEN Tail(wire[c]) ELSE wire[d]
  BY DEF Handle, CommandTypes
<1>3. /\ 1 \in DOMAIN wire[c] /\ Head(wire[c]) = wire[c][1] /\ wire[c][1] \in Commands
      /\ \A k \in DOMAIN Tail(wire[c]) : /\ k \in Nat \ {0} /\ k+1 \in DOMAIN wire[c]
                                         /\ Tail(wire[c])[k] = wire[c][k+1]
      /\ \A k \in DOMAIN Tail(wire[c]) : \A j \in 1 .. k :
           j # 1 => Tail(wire[c])[j-1] = wire[c][j]
  BY <1>1
<1>4. \A d \in Senders : \A k \in DOMAIN wire[d] : k \in Nat \ {0}
  BY DEF CommandTypes
<1>5. QED
  BY <1>2, <1>3, <1>4 DEF Shifted, Handle

(* What a command does to the tables: a mask is being filled in then, a    *)
(* sequence being added.                                                   *)
LEMMA Taken ==
  ASSUME Typing, NEW c \in Senders, HandlerStep(c)
  PROVE  /\ \E kind : Handle(c, kind)
         /\ iopc = "listen" /\ seqs' = seqs /\ params' = params
         /\ Erasing(Zero)' => IsMask(wire[c][1]) /\ params[Zero] # Null
         /\ Filling' <=> IsMask(wire[c][1])
         /\ \A q \in SeqIds : Adding(q)' <=> IsSequence(wire[c][1], q)
         /\ iopc' # "listen" => cmd' = wire[c][1]
         /\ iopc' = "entries" => wire[c][1] \in SeqCommands
         /\ iopc' = "receive" => wire[c][1].kind = "chunk"
<1>0. PICK kind : Handle(c, kind)
  BY DEF HandlerStep, Status, Load, Run, RunFails, ParamFree, SeqHeader, ChunkFind, ChunkDrop
<1>1. /\ wire[c][1] = Head(wire[c]) /\ wire[c][1] \in Commands /\ iopc = "listen"
  BY <1>0, Shift DEF Typing
<1> USE DEF IsMask, IsSequence, Filling, Erasing, Allocation, Adding
<1>2. CASE ParamFree(c)
  <2>1. wire[c][1].kind = "param"
    BY <1>1, <1>2 DEF ParamFree, Handle
  <2>2. /\ UNCHANGED <<seqs, params>> /\ cmd' = wire[c][1]
        /\ iopc' = IF params[wire[c][1].param] = Null THEN "alloc" ELSE "erase"
    BY <1>1, <1>2 DEF ParamFree, GoOn
  <2>3. QED
    BY <1>0, <1>1, <2>1, <2>2
<1>3. CASE SeqHeader(c)
  <2>1. wire[c][1] \in SeqCommands /\ wire[c][1].kind = "seq"
    BY <1>1, <1>3, CommandFields DEF SeqHeader, Handle
  <2>2. UNCHANGED tables /\ iopc' = "entries" /\ cmd' = wire[c][1]
    BY <1>1, <1>3 DEF SeqHeader, GoOn
  <2>3. QED
    BY <1>0, <1>1, <2>1, <2>2 DEF tables
<1>4. CASE ChunkFind(c)
  <2>1. wire[c][1].kind = "chunk"
    BY <1>1, <1>4 DEF ChunkFind, Handle
  <2>2. UNCHANGED tables /\ iopc' = "receive" /\ cmd' = wire[c][1]
    BY <1>1, <1>4 DEF ChunkFind, GoOn
  <2>3. QED
    BY <1>0, <1>1, <2>1, <2>2 DEF tables
<1>5. CASE Status(c) \/ Load(c) \/ Run(c) \/ RunFails(c) \/ ChunkDrop(c)
  <2>1. wire[c][1].kind \notin {"param", "seq"}
    BY <1>1, <1>5 DEF Status, Load, Run, RunFails, ChunkDrop, Handle
  <2>2. UNCHANGED <<seqs, params, iopc, cmd>>
    BY <1>5 DEF Status, Load, Run, RunFails, ChunkDrop, Done, tables
  <2>3. QED
    BY <1>0, <1>1, <2>1, <2>2
<1>6. QED
  BY <1>2, <1>3, <1>4, <1>5 DEF HandlerStep
-----------------------------------------------------------------------------
(* What is there stays.  The mask and a sequence are not set up twice, and *)
(* another parameter does not share the block of the mask.                 *)
LEMMA MaskStays ==
  ASSUME Typing, WiresOrderly, [ServerNext]_serverVars, params[Zero] # Null
  PROVE  params'[Zero] = params[Zero] /\ (Filling' => Filling)
<1>1. ASSUME NEW c \in Senders, HandlerStep(c)
      PROVE  params'[Zero] = params[Zero] /\ (Filling' => Filling)
  <2>1. 1 \in DOMAIN wire[c]
    BY <1>1, Taken, Shift DEF Typing
  <2>2. ~IsMask(wire[c][1])
    BY <2>1 DEF WiresOrderly
  <2>3. QED
    BY <1>1, <2>2, Taken
<1>5. CASE ParamErase \/ ParamAlloc \/ ParamAllocFails
  <2>1. cmd' = cmd /\ iopc \in Allocation /\ cmd.param # Zero
    BY <1>5 DEF ParamErase, ParamAlloc, ParamAllocFails, WiresOrderly, Erasing, Allocation,
       Typing, TableTypes
  <2>2. params'[Zero] = params[Zero]
    BY <1>5, <2>1, ServerNamesAssumption
       DEF ParamErase, ParamAlloc, ParamAllocFails, Typing, TableTypes
  <2>3. QED
    BY <2>1, <2>2 DEF Filling
<1>2. CASE ParamFill \/ SeqEntry \/ ChunkFill
  BY <1>2 DEF ParamFill, SeqEntry, ChunkFill, Return, ioFrame, tables, Filling, Allocation
<1>3. CASE OtherStep
  BY <1>3, OtherFrame DEF tables, Filling
<1>4. QED
  BY <1>1, <1>2, <1>3, <1>5, StepKinds

(* Nor is the content of the mask overwritten once it is filled in.        *)
LEMMA ContentStays ==
  ASSUME Typing, WiresOrderly, MaskFilled, [ServerNext]_serverVars,
         params[Zero] # Null, ~Filling
  PROVE  heap'[params[Zero]] = heap[params[Zero]] /\ heap[params[Zero]] \in Masks
<1>0. /\ heap[params[Zero]] \in Masks /\ heap[params[Zero]] \notin {"free", "raw"}
      /\ Zero \in ParamIds /\ params[Zero] \in Blocks
  BY ServerNamesAssumption DEF MaskFilled, Typing, TableTypes
<1>1. ASSUME NEW c \in Senders, ParamFree(c) PROVE heap'[params[Zero]] = heap[params[Zero]]
  <2> DEFINE p == Head(wire[c]).param
  <2>1. heap' = [b \in Blocks |-> IF b \in OldBlocks(p) THEN "free" ELSE heap[b]]
    BY <1>1 DEF ParamFree
  <2>2. p \in ParamIds /\ p # Zero
    <3>1. Handle(c, "param")
      BY <1>1 DEF ParamFree
    <3>2. /\ wire[c][1] = Head(wire[c]) /\ 1 \in DOMAIN wire[c]
          /\ wire[c][1] \in Commands /\ wire[c][1].kind = "param"
      BY <3>1, Shift DEF Typing
    <3>3. ~IsMask(wire[c][1])
      BY <3>2 DEF WiresOrderly
    <3>4. QED
      BY <3>2, <3>3, CommandFields DEF IsMask
  <2>3. params[Zero] \notin OldBlocks(p)
    BY <1>0, <2>2 DEF OldBlocks, Typing, TableTypes
  <2>4. QED
    BY <1>0, <2>1, <2>3
<1>7. CASE ParamAlloc
  BY <1>0, <1>7 DEF ParamAlloc, Typing, TableTypes
<1>8. CASE ParamErase \/ ParamAllocFails
  BY <1>0, <1>8 DEF ParamErase, ParamAllocFails
<1>2. CASE ParamFill
  <2>1. cmd.param \in ParamIds /\ cmd.param # Zero
    BY <1>2 DEF ParamFill, Filling, Typing, CommandTypes, Allocation
  <2>2. params[cmd.param] # params[Zero]
    BY <1>0, <2>1 DEF Typing, TableTypes
  <2>3. QED
    BY <1>0, <1>2, <2>2 DEF ParamFill, Typing, TableTypes
<1>3. ASSUME NEW c \in Senders, HandlerStep(c), ~ParamFree(c) PROVE heap' = heap
  BY <1>3 DEF HandlerStep, Status, Load, Run, RunFails, SeqHeader, ChunkFind, ChunkDrop, tables
<1>4. CASE SeqEntry \/ ChunkFill
  BY <1>0, <1>4 DEF SeqEntry, ChunkFill, tables
<1>5. CASE OtherStep
  BY <1>0, <1>5, OtherFrame DEF tables
<1>6. QED
  BY <1>0, <1>1, <1>2, <1>3, <1>4, <1>5, <1>7, <1>8, StepKinds

(* An entry is added to the sequence whose command is being handled.       *)
LEMMA EntryAdded ==
  ASSUME Typing, SeqEntry
  PROVE  /\ iopc = "entries" /\ cmd.seq \in SeqIds /\ cmd.entries \in Seq(Entries)
         /\ cmd.entries = <<>> => seqs' = seqs /\ iopc' = "listen"
         /\ cmd.entries # <<>> =>
              /\ seqs'[cmd.seq] = Append(seqs[cmd.seq], Head(cmd.entries))
              /\ seqs'[cmd.seq] # <<>>
              /\ iopc' = "entries" /\ cmd'.seq = cmd.seq
              /\ cmd'.entries = Tail(cmd.entries)
         /\ \A q \in SeqIds : q # cmd.seq => seqs'[q] = seqs[q]
<1>1. /\ iopc = "entries" /\ cmd \in SeqCommands
      /\ cmd.seq \in SeqIds /\ cmd.entries \in Seq(Entries)
  BY DEF SeqEntry, Typing, CommandTypes, SeqCommands
<1>2. seqs \in [SeqIds -> Seq(Entries)] /\ seqs[cmd.seq] \in Seq(Entries)
  BY <1>1 DEF Typing, TableTypes
<1>3. CASE cmd.entries = <<>>
  BY <1>1, <1>3 DEF SeqEntry, Return
<1>4. CASE cmd.entries # <<>>
  <2>1. seqs' = [seqs EXCEPT ![cmd.seq] = Append(@, Head(cmd.entries))]
    BY <1>4 DEF SeqEntry, Added
  <2>2. Append(seqs[cmd.seq], Head(cmd.entries)) # <<>>
    BY <1>1, <1>2, <1>4
  <2>3. cmd'.seq = cmd.seq /\ cmd'.entries = Tail(cmd.entries) /\ iopc' = iopc
    BY <1>1, <1>4 DEF SeqEntry, SeqCommands
  <2>4. QED
    BY <1>1, <1>2, <1>4, <2>1, <2>2, <2>3
<1>5. QED
  BY <1>3, <1>4

(* A sequence that has been added is not added to.                         *)
LEMMA SequenceStays ==
  ASSUME Typing, WiresOrderly, [ServerNext]_serverVars,
         NEW q \in SeqIds, seqs[q] # <<>>, ~Adding(q)
  PROVE  seqs'[q] = seqs[q] /\ ~Adding(q)'
<1>1. ASSUME NEW c \in Senders, HandlerStep(c) PROVE seqs'[q] = seqs[q] /\ ~Adding(q)'
  <2>1. 1 \in DOMAIN wire[c]
    BY <1>1, Taken, Shift DEF Typing
  <2>2. ~IsSequence(wire[c][1], q)
    BY <2>1 DEF WiresOrderly
  <2>3. QED
    BY <1>1, <2>2, Taken
<1>2. CASE SeqEntry
  BY <1>2, EntryAdded DEF Adding
<1>3. CASE ParamErase \/ ParamAlloc \/ ParamAllocFails \/ ParamFill \/ ChunkFill
  BY <1>3 DEF ParamErase, ParamAlloc, ParamAllocFails, ParamFill, ChunkFill, Return,
     ioFrame, tables, Adding
<1>4. CASE OtherStep
  BY <1>4, OtherFrame DEF tables, Adding
<1>5. QED
  BY <1>1, <1>2, <1>3, <1>4, StepKinds

(* So a chunk that can be processed remains so, with the same sequence and *)
(* the same mask.                                                          *)
LEMMA ReadyStays ==
  ASSUME Typing, WiresOrderly, MaskFilled, [ServerNext]_serverVars,
         NEW q \in SeqIds, Ready(q)
  PROVE  /\ Ready(q)' /\ seqs'[q] = seqs[q]
         /\ params'[Zero] = params[Zero] /\ heap'[params'[Zero]] = heap[params[Zero]]
         /\ heap[params[Zero]] \in Masks
         /\ \A n \in Nat : Trail(n)' = Trail(n)
<1>1. params[Zero] # Null /\ seqs[q] # <<>> /\ ~Filling /\ ~Adding(q)
  BY DEF Ready
<1>2. params'[Zero] = params[Zero] /\ ~Filling'
  BY <1>1, MaskStays
<1>3. heap'[params[Zero]] = heap[params[Zero]] /\ heap[params[Zero]] \in Masks
  BY <1>1, ContentStays
<1>4. seqs'[q] = seqs[q] /\ ~Adding(q)'
  BY <1>1, SequenceStays
<1>5. \A n \in Nat : Trail(n)' = Trail(n)
  BY <1>2, <1>3 DEF Trail
<1>6. QED
  BY <1>1, <1>2, <1>3, <1>4, <1>5 DEF Ready
-----------------------------------------------------------------------------
(* The wires.                                                              *)
LEMMA OrderlyShift ==
  ASSUME SetUpOnce(wire), PlainSequences(wire), NEW c \in Senders, Shifted(c)
  PROVE  SetUpOnce(wire') /\ PlainSequences(wire')
<1>1. SetUpOnce(wire')
  <2> SUFFICES ASSUME NEW d \in Senders, NEW e \in Senders,
                      NEW j \in DOMAIN wire'[d], NEW k \in DOMAIN wire'[e],
                      \/ /\ wire'[d][j].kind = "param" /\ wire'[d][j].param = Zero
                         /\ wire'[e][k].kind = "param" /\ wire'[e][k].param = Zero
                      \/ /\ wire'[d][j].kind = "seq"
                         /\ wire'[e][k].kind = "seq" /\ wire'[e][k].seq = wire'[d][j].seq
               PROVE  d = e /\ j = k
    BY DEF SetUpOnce
  <2> DEFINE u == IF d = c THEN j+1 ELSE j
             v == IF e = c THEN k+1 ELSE k
  <2>1. u \in DOMAIN wire[d] /\ wire'[d][j] = wire[d][u] /\ j \in Nat
    BY DEF Shifted
  <2>2. v \in DOMAIN wire[e] /\ wire'[e][k] = wire[e][v] /\ k \in Nat
    BY DEF Shifted
  <2> HIDE DEF u, v
  <2>3. d = e /\ u = v
    BY <2>1, <2>2 DEF SetUpOnce
  <2>4. QED
    BY <2>1, <2>2, <2>3 DEF u, v
<1>2. PlainSequences(wire')
  BY DEF PlainSequences, Shifted
<1>3. QED
  BY <1>1, <1>2

(* What a chunk needs and has been taken from its wire is there, or is     *)
(* being set up.                                                           *)
LEMMA AheadShift ==
  ASSUME Typing, NEW c \in Senders, HandlerStep(c),
         NEW k, k \in DOMAIN wire'[c], Ahead(wire[c], k+1), wire[c][k+1].seq \in SeqIds
  PROVE  Ahead(wire[c], k)'
<1>0. PICK q \in SeqIds : q = wire[c][k+1].seq
  OBVIOUS
<1>1. PICK kind : Handle(c, kind)
  BY Taken
<1>2. /\ k \in Nat \ {0} /\ wire'[c][k] = wire[c][k+1]
      /\ \A j \in 1 .. k : j # 1 => wire'[c][j-1] = wire[c][j]
  BY <1>1, Shift DEF Typing, Shifted
<1>3. params'[Zero] # Null \/ Filling' \/ MaskAhead(wire'[c], k)
  <2>4. ~Filling
    BY Taken DEF Filling, Allocation
  <2>1. CASE params[Zero] # Null
    BY <2>1, Taken
  <2>2. CASE MaskAhead(wire[c], k+1)
    <3>1. PICK j \in 1 .. k : IsMask(wire[c][j])
      BY <1>2, <2>2 DEF MaskAhead
    <3>2. CASE j = 1
      BY <3>1, <3>2, Taken
    <3>3. CASE j # 1
      BY <1>2, <3>1, <3>3 DEF MaskAhead
    <3>4. QED
      BY <3>2, <3>3
  <2>3. QED
    BY <2>1, <2>2, <2>4 DEF Ahead
<1>4. \/ seqs'[q] # <<>>
      \/ Adding(q)' /\ cmd'.entries # <<>>
      \/ SequenceAhead(wire'[c], k, q)
  <2>1. CASE seqs[q] # <<>>
    BY <2>1, Taken
  <2>2. CASE SequenceAhead(wire[c], k+1, q)
    <3>1. PICK j \in 1 .. k : IsSequence(wire[c][j], q) /\ wire[c][j].entries # <<>>
      BY <1>2, <2>2 DEF SequenceAhead
    <3>2. CASE j = 1
      BY <3>1, <3>2, Taken DEF Adding
    <3>3. CASE j # 1
      BY <1>2, <3>1, <3>3 DEF SequenceAhead
    <3>4. QED
      BY <3>2, <3>3
  <2>3. ~Adding(q)
    BY Taken DEF Adding
  <2>4. QED
    BY <1>0, <2>1, <2>2, <2>3 DEF Ahead
<1>5. wire'[c][k].seq = q
  BY <1>0, <1>2
<1>6. QED
  BY <1>3, <1>4, <1>5 DEF Ahead

(* What is ahead of a chunk on a wire that does not move is there still.   *)
LEMMA AheadStays ==
  ASSUME Typing, WiresOrderly, [ServerNext]_serverVars,
         NEW d \in Senders, NEW k, wire'[d] = wire[d], Ahead(wire[d], k),
         wire[d][k].seq \in SeqIds
  PROVE  Ahead(wire[d], k)'
<1>0. PICK q \in SeqIds : q = wire[d][k].seq
  OBVIOUS
<1>1. params[Zero] # Null => params'[Zero] # Null
  BY MaskStays
<1>8. Filling => Filling' \/ params'[Zero] # Null
  <2>1. ASSUME NEW c \in Senders, HandlerStep(c) PROVE ~Filling
    BY <2>1, Taken DEF Filling, Allocation
  <2>2. CASE ParamErase \/ ParamAlloc \/ ParamAllocFails
    BY <2>2 DEF ParamErase, ParamAlloc, ParamAllocFails, ioFrame, Filling, Allocation
  <2>3. CASE ParamFill
    BY <2>3 DEF ParamFill, Filling
  <2>4. CASE SeqEntry \/ ChunkFill
    BY <2>4 DEF SeqEntry, ChunkFill, Filling, Allocation
  <2>5. CASE OtherStep
    BY <2>5, OtherFrame DEF Filling
  <2>6. QED
    BY <2>1, <2>2, <2>3, <2>4, <2>5, StepKinds
<1>2. seqs[q] # <<>> /\ ~Adding(q) => seqs'[q] # <<>>
  BY SequenceStays
<1>3. Adding(q) /\ (cmd.entries # <<>> \/ seqs[q] # <<>>) =>
        seqs'[q] # <<>> \/ (Adding(q)' /\ cmd'.entries # <<>>)
  <2> SUFFICES ASSUME Adding(q), cmd.entries # <<>> \/ seqs[q] # <<>>
               PROVE  seqs'[q] # <<>> \/ (Adding(q)' /\ cmd'.entries # <<>>)
    OBVIOUS
  <2>1. CASE SeqEntry
    <3>1. q = cmd.seq
      BY DEF Adding
    <3>2. CASE cmd.entries = <<>>
      BY <2>1, <3>1, <3>2, EntryAdded
    <3>3. CASE cmd.entries # <<>>
      BY <2>1, <3>1, <3>3, EntryAdded
    <3>4. QED
      BY <3>2, <3>3
  <2>2. ASSUME NEW c \in Senders, HandlerStep(c) PROVE FALSE
    BY <2>2, Taken DEF Adding
  <2>3. CASE ParamErase \/ ParamAlloc \/ ParamAllocFails \/ ParamFill \/ ChunkFill
    BY <2>3 DEF ParamErase, ParamAlloc, ParamAllocFails, ParamFill, ChunkFill, Adding
  <2>4. CASE OtherStep
    <3>1. UNCHANGED <<iopc, cmd, seqs>>
      BY <2>4, OtherFrame DEF tables
    <3>2. QED
      BY <3>1 DEF Adding
  <2>5. QED
    BY <2>1, <2>2, <2>3, <2>4, StepKinds
<1>4. MaskAhead(wire[d], k)' <=> MaskAhead(wire[d], k)
  BY DEF MaskAhead
<1>5. SequenceAhead(wire[d], k, q)' <=> SequenceAhead(wire[d], k, q)
  BY DEF SequenceAhead
<1>6. wire'[d][k].seq = q
  BY <1>0
<1>7. QED
  BY <1>0, <1>1, <1>2, <1>3, <1>4, <1>5, <1>6, <1>8 DEF Ahead

(* The fields of a command on a wire.                                      *)
LEMMA WireFields ==
  ASSUME CommandTypes, NEW d \in Senders, NEW k \in DOMAIN wire[d]
  PROVE  /\ k \in Nat \ {0}
         /\ wire[d][k].kind = "seq" => wire[d][k] \in SeqCommands
         /\ wire[d][k].kind = "chunk" => wire[d][k].seq \in SeqIds
<1>1. wire[d] \in Seq(Commands)
  BY DEF CommandTypes
<1>2. wire[d][k] \in Commands /\ k \in Nat \ {0}
  BY <1>1
<1>3. QED
  BY <1>2, CommandFields

(* No step makes the wires disorderly.                                     *)
LEMMA WiresOrderlyStep ==
  ASSUME Typing, WiresOrderly, [ServerNext]_serverVars
  PROVE  WiresOrderly'
<1>1. ASSUME NEW c \in Senders, HandlerStep(c) PROVE WiresOrderly'
  <2>0. PICK kind : Handle(c, kind)
    BY <1>1, Taken
  <2>1. /\ Shifted(c) /\ 1 \in DOMAIN wire[c]
    BY <2>0, Shift DEF Typing
  <2>2. SetUpOnce(wire') /\ PlainSequences(wire')
    BY <2>1, OrderlyShift DEF WiresOrderly
  <2>3. ASSUME NEW d \in Senders, NEW k \in DOMAIN wire'[d], wire'[d][k].kind = "chunk"
        PROVE  Ahead(wire[d], k)'
    <3>1. CASE d = c
      <4>1. k+1 \in DOMAIN wire[c] /\ wire'[c][k] = wire[c][k+1]
        BY <2>1, <3>1 DEF Shifted
      <4>2. Ahead(wire[c], k+1) /\ wire[c][k+1].seq \in SeqIds
        BY <2>3, <3>1, <4>1, WireFields DEF WiresOrderly, Typing
      <4>3. QED
        BY <1>1, <2>3, <3>1, <4>2, AheadShift
    <3>2. CASE d # c
      <4>1. k \in DOMAIN wire[d] /\ wire'[d] = wire[d]
        BY <2>1, <3>2 DEF Shifted
      <4>2. Ahead(wire[d], k) /\ wire[d][k].seq \in SeqIds
        BY <2>3, <4>1, WireFields DEF WiresOrderly, Typing
      <4>3. QED
        BY <4>1, <4>2, AheadStays
    <3>3. QED
      BY <3>1, <3>2
  <2>4. ASSUME NEW d \in Senders, NEW k \in DOMAIN wire'[d]
        PROVE  /\ IsMask(wire'[d][k]) => params'[Zero] = Null /\ ~Filling'
               /\ \A q \in SeqIds : IsSequence(wire'[d][k], q) => seqs'[q] = <<>> /\ ~Adding(q)'
    <3> DEFINE u == IF d = c THEN k+1 ELSE k
    <3>1. /\ u \in DOMAIN wire[d] /\ wire'[d][k] = wire[d][u] /\ k \in Nat \ {0}
      BY <2>1 DEF Shifted
    <3>2. ~(d = c /\ u = 1)
      BY <3>1
    <3> HIDE DEF u
    <3>3. ASSUME IsMask(wire[d][u]) PROVE params'[Zero] = Null /\ ~Filling'
      <4>1. ~IsMask(wire[c][1])
        BY <2>1, <3>1, <3>2, <3>3 DEF WiresOrderly, SetUpOnce, IsMask
      <4>2. QED
        BY <1>1, <3>1, <3>3, <4>1, Taken DEF WiresOrderly
    <3>4. ASSUME NEW q \in SeqIds, IsSequence(wire[d][u], q)
          PROVE  seqs'[q] = <<>> /\ ~Adding(q)'
      <4>1. ~IsSequence(wire[c][1], q)
        BY <2>1, <3>1, <3>2, <3>4 DEF WiresOrderly, SetUpOnce, IsSequence
      <4>2. QED
        BY <1>1, <3>1, <3>4, <4>1, Taken DEF WiresOrderly
    <3>5. QED
      BY <3>1, <3>3, <3>4
  <2>5. ~Erasing(Zero)'
    BY <1>1, <2>1, Taken DEF WiresOrderly
  <2>6. QED
    BY <2>2, <2>3, <2>4, <2>5 DEF WiresOrderly
<1>2. ASSUME wire' = wire, params'[Zero] = params[Zero] \/ Filling, Filling' => Filling,
             ~Erasing(Zero)',
             \A q \in SeqIds : ~Adding(q) => seqs'[q] = seqs[q] /\ ~Adding(q)'
      PROVE  WiresOrderly'
  <2>1. ASSUME NEW d \in Senders, NEW k \in DOMAIN wire'[d], wire'[d][k].kind = "chunk"
        PROVE  Ahead(wire[d], k)'
    <3>1. Ahead(wire[d], k) /\ wire[d][k].seq \in SeqIds
      BY <1>2, <2>1, WireFields DEF WiresOrderly, Typing
    <3>2. QED
      BY <1>2, <3>1, AheadStays
  <2>2. SetUpOnce(wire') /\ PlainSequences(wire')
    BY <1>2 DEF WiresOrderly
  <2>3. QED
    BY <1>2, <2>1, <2>2 DEF WiresOrderly
<1>3. CASE SeqEntry
  <2>1. \A q \in SeqIds : ~Adding(q) => seqs'[q] = seqs[q] /\ ~Adding(q)'
    BY <1>3, EntryAdded DEF Adding
  <2>2. UNCHANGED <<wire, params>> /\ ~Filling' /\ ~Erasing(Zero)'
    BY <1>3, EntryAdded DEF SeqEntry, Filling, Erasing, Allocation
  <2>3. QED
    BY <1>2, <2>1, <2>2
<1>4. CASE ParamFill \/ ChunkFill
  <2>1. /\ UNCHANGED <<wire, params>> /\ ~Filling' /\ ~Erasing(Zero)'
        /\ \A q \in SeqIds : seqs'[q] = seqs[q] /\ ~Adding(q)'
    BY <1>4 DEF ParamFill, ChunkFill, Return, ioFrame, tables, Filling, Erasing, Allocation,
       Adding
  <2>2. QED
    BY <1>2, <2>1
<1>7. CASE ParamErase \/ ParamAlloc \/ ParamAllocFails
  <2>1. /\ UNCHANGED <<wire, cmd, seqs>> /\ iopc \in Allocation
        /\ iopc' \in Allocation \ {"erase"}
    BY <1>7 DEF ParamErase, ParamAlloc, ParamAllocFails, ioFrame, Allocation
  <2>2. cmd.param # Zero => params'[Zero] = params[Zero]
    BY <1>7, ServerNamesAssumption
       DEF ParamErase, ParamAlloc, ParamAllocFails, Typing, TableTypes
  <2>3. (params'[Zero] = params[Zero] \/ Filling) /\ (Filling' => Filling)
    BY <2>1, <2>2 DEF Filling
  <2>4. ~Erasing(Zero)' /\ \A q \in SeqIds : ~Adding(q)'
    BY <2>1 DEF Erasing, Adding, Allocation
  <2>5. QED
    BY <1>2, <2>1, <2>3, <2>4
<1>5. CASE OtherStep
  BY <1>2, <1>5, OtherFrame DEF tables, Adding, Filling, Erasing, WiresOrderly
<1>6. QED
  BY <1>1, <1>3, <1>4, <1>5, <1>7, StepKinds
-----------------------------------------------------------------------------
(* A sequence stays plain when an entry is added to it.                    *)
LEMMA PlainAppend ==
  ASSUME NEW s \in Seq(Entries), NEW es \in Seq(Entries), es # <<>>,
         Plain(s), Len(s) + Len(es) <= 255, \A e \in DOMAIN es : es[e].param = Zero
  PROVE  /\ Plain(Append(s, Head(es)))
         /\ Len(Append(s, Head(es))) + Len(Tail(es)) <= 255
         /\ \A e \in DOMAIN Tail(es) : Tail(es)[e].param = Zero
<1>1. /\ Len(Append(s, Head(es))) = Len(s) + 1
      /\ Len(Tail(es)) = Len(es) - 1
      /\ Len(s) \in Nat /\ Len(es) \in Nat \ {0}
  OBVIOUS
<1>2. Head(es) = es[1] /\ 1 \in DOMAIN es
  OBVIOUS
<1>3. \A e \in DOMAIN Append(s, Head(es)) :
        Append(s, Head(es))[e] = IF e \in DOMAIN s THEN s[e] ELSE Head(es)
  OBVIOUS
<1>4. \A e \in DOMAIN Tail(es) : e+1 \in DOMAIN es /\ Tail(es)[e] = es[e+1]
  OBVIOUS
<1>5. QED
  BY <1>1, <1>2, <1>3, <1>4 DEF Plain

(* Every step leaves the sequences plain.                                  *)
LEMMA SequencesPlainStep ==
  ASSUME Typing, WiresOrderly, SequencesPlain, [ServerNext]_serverVars
  PROVE  SequencesPlain'
<1>1. ASSUME NEW c \in Senders, HandlerStep(c) PROVE SequencesPlain'
  <2>1. seqs' = seqs /\ (iopc' = "entries" => wire[c][1] \in SeqCommands /\ cmd' = wire[c][1])
    BY <1>1, Taken
  <2>2. ASSUME iopc' = "entries"
        PROVE  /\ Len(seqs'[cmd'.seq]) + Len(cmd'.entries) <= 255
               /\ \A e \in DOMAIN cmd'.entries : cmd'.entries[e].param = Zero
    <3>1. 1 \in DOMAIN wire[c]
      BY <1>1, Taken, Shift DEF Typing
    <3>2. PICK q \in SeqIds : IsSequence(wire[c][1], q)
      BY <2>1, <2>2 DEF SeqCommands, IsSequence
    <3>3. seqs[q] = <<>>
      BY <3>1, <3>2 DEF WiresOrderly
    <3>4. /\ Len(wire[c][1].entries) <= 255
          /\ \A e \in DOMAIN wire[c][1].entries : wire[c][1].entries[e].param = Zero
      BY <3>1, <3>2 DEF WiresOrderly, PlainSequences, IsSequence
    <3>5. wire[c][1].entries \in Seq(Entries) /\ cmd'.seq = q
      BY <2>1, <2>2, <3>2 DEF SeqCommands, IsSequence
    <3>6. Len(seqs'[cmd'.seq]) = 0
      BY <2>1, <3>3, <3>5
    <3>7. QED
      BY <2>1, <2>2, <3>4, <3>5, <3>6
  <2>3. QED
    BY <2>1, <2>2 DEF SequencesPlain
<1>2. CASE SeqEntry
  <2>1. /\ iopc = "entries" /\ cmd.seq \in SeqIds /\ cmd.entries \in Seq(Entries)
        /\ seqs[cmd.seq] \in Seq(Entries)
    BY <1>2, EntryAdded DEF Typing, TableTypes
  <2>2. CASE cmd.entries = <<>>
    BY <1>2, <2>2, EntryAdded DEF SequencesPlain
  <2>3. CASE cmd.entries # <<>>
    <3>1. /\ Plain(Append(seqs[cmd.seq], Head(cmd.entries)))
          /\ Len(Append(seqs[cmd.seq], Head(cmd.entries))) + Len(Tail(cmd.entries)) <= 255
          /\ \A e \in DOMAIN Tail(cmd.entries) : Tail(cmd.entries)[e].param = Zero
      BY <2>1, <2>3, PlainAppend DEF SequencesPlain
    <3>2. /\ seqs'[cmd.seq] = Append(seqs[cmd.seq], Head(cmd.entries))
          /\ cmd'.seq = cmd.seq /\ cmd'.entries = Tail(cmd.entries)
          /\ \A q \in SeqIds : q # cmd.seq => seqs'[q] = seqs[q]
      BY <1>2, <2>3, EntryAdded
    <3>3. QED
      BY <2>1, <3>1, <3>2 DEF SequencesPlain
  <2>4. QED
    BY <2>2, <2>3
<1>3. CASE ParamErase \/ ParamAlloc \/ ParamAllocFails \/ ParamFill \/ ChunkFill
  BY <1>3 DEF ParamErase, ParamAlloc, ParamAllocFails, ParamFill, ChunkFill, Return,
     ioFrame, tables, SequencesPlain
<1>4. CASE OtherStep
  BY <1>4, OtherFrame DEF tables, SequencesPlain
<1>5. QED
  BY <1>1, <1>2, <1>3, <1>4, StepKinds

(* The mask is there or being filled in after every step.                  *)
LEMMA MaskFilledStep ==
  ASSUME Typing, WiresOrderly, MaskFilled, [ServerNext]_serverVars
  PROVE  MaskFilled'
<1>1. CASE params[Zero] # Null /\ ~Filling
  BY <1>1, MaskStays, ContentStays DEF MaskFilled
<1>2. ASSUME NEW c \in Senders, HandlerStep(c), params[Zero] = Null PROVE MaskFilled'
  BY <1>2, Taken DEF MaskFilled
<1>3. ASSUME NEW c \in Senders, HandlerStep(c), Filling PROVE FALSE
  BY <1>3, Taken DEF Filling, Allocation
<1>8. CASE ParamErase \/ ParamAlloc \/ ParamAllocFails
  <2>1. Filling' <=> Filling
    BY <1>8 DEF ParamErase, ParamAlloc, ParamAllocFails, ioFrame, Filling, Allocation
  <2>2. CASE Filling
    BY <2>1, <2>2 DEF MaskFilled
  <2>3. CASE params[Zero] = Null /\ ~Filling
    <3>1. cmd.param # Zero
      BY <1>8, <2>3 DEF ParamErase, ParamAlloc, ParamAllocFails, Filling, Allocation
    <3>2. params'[Zero] = Null
      BY <1>8, <2>3, <3>1, ServerNamesAssumption
       DEF ParamErase, ParamAlloc, ParamAllocFails, Typing, TableTypes
    <3>3. QED
      BY <3>2 DEF MaskFilled
  <2>4. QED
    BY <1>1, <2>2, <2>3
<1>4. CASE ParamFill /\ Filling
  <2>1. heap' = [heap EXCEPT ![params[Zero]] = cmd.mask] /\ params' = params
    BY <1>4 DEF ParamFill, Filling
  <2>2. cmd.mask \in Masks
    BY <1>4 DEF Filling, Typing, CommandTypes
  <2>3. params[Zero] # Null => params[Zero] \in Blocks
    BY ServerNamesAssumption DEF Typing, TableTypes
  <2>4. QED
    BY <2>1, <2>2, <2>3 DEF MaskFilled, Typing, TableTypes
<1>5. CASE (ParamFill /\ ~Filling) \/ SeqEntry \/ ChunkFill
  BY <1>1, <1>5 DEF ParamFill, SeqEntry, ChunkFill, tables, Filling, Allocation, MaskFilled
<1>6. CASE OtherStep
  BY <1>6, OtherFrame DEF tables, Filling, MaskFilled
<1>7. QED
  BY <1>1, <1>2, <1>3, <1>4, <1>5, <1>6, <1>8, StepKinds
-----------------------------------------------------------------------------
(* What is on the way back was in a slot.                                  *)
LEMMA Written ==
  ASSUME Typing, [ServerNext]_serverVars,
         NEW c \in Senders, NEW k \in DOMAIN out'[c], out'[c][k].kind = "chunk"
  PROVE  \/ k \in DOMAIN out[c] /\ out'[c][k] = out[c][k]
         \/ \E i \in Slots : /\ SendWrite(c) /\ out'[c][k] = slot[i]
                             /\ Occupied(i) /\ place[i] = "SENDING"
<1>0. out[c] \in Seq(Chunks \cup [kind : {"status"}])
  BY DEF Typing, ChunkTypes
<1>1. ASSUME NEW d \in Senders, NEW r, out' = [out EXCEPT ![d] = Append(@, r)]
      PROVE  \/ k \in DOMAIN out[c] /\ out'[c][k] = out[c][k]
             \/ d = c /\ out'[c][k] = r
  <2>1. out'[c] = IF d = c THEN Append(out[c], r) ELSE out[c]
    BY <1>1 DEF Typing, ChunkTypes
  <2>2. \A j \in DOMAIN Append(out[c], r) :
          Append(out[c], r)[j] = IF j \in DOMAIN out[c] THEN out[c][j] ELSE r
    BY <1>0
  <2>3. QED
    BY <2>1, <2>2
<1>2. ASSUME NEW d \in Senders, Status(d) PROVE k \in DOMAIN out[c] /\ out'[c][k] = out[c][k]
  <2>1. out' = [out EXCEPT ![d] = Append(@, [kind |-> "status"])]
    BY <1>2 DEF Status
  <2>2. [kind |-> "status"].kind # "chunk"
    OBVIOUS
  <2>3. QED
    BY <1>1, <2>1, <2>2
<1>3. ASSUME NEW d \in Senders, SendWrite(d)
      PROVE  \/ k \in DOMAIN out[c] /\ out'[c][k] = out[c][k]
             \/ \E i \in Slots : /\ SendWrite(c) /\ out'[c][k] = slot[i]
                                 /\ Occupied(i) /\ place[i] = "SENDING"
  <2>1. PICK i \in Slots : Pass(d, i) /\ out' = [out EXCEPT ![d] = Append(@, slot[i])]
    BY <1>3 DEF SendWrite, Sent
  <2>2. place[i] = "SENDING" /\ Occupied(i)
    BY <2>1, Stations DEF Pass, Owns, Typing, SlotTypes, Occupied
  <2>3. QED
    BY <1>1, <1>3, <2>1, <2>2
<1>4. CASE out' = out
  BY <1>4
<1>5. QED
  BY <1>2, <1>3, <1>4 DEF ServerNext, Listen, Load, Run, RunFails, ParamFree, ParamErase,
     ParamAlloc, ParamAllocFails, ioFrame, SeqHeader, ChunkFind, ChunkDrop, ParamFill,
     SeqEntry, ChunkFill, Manage, Search, Lookup, LookupFails, Process, Astray, Advance,
     MGoto, ioVars, SendFind, serverVars

(* What is in a slot was in it before, or is the chunk at hand.            *)
LEMMA InSlots ==
  ASSUME Typing, [ServerNext]_serverVars, NEW i \in Slots, Occupied(i)'
  PROVE  /\ slot'[i].seq \in SeqIds
         /\ \/ /\ Occupied(i) /\ slot'[i].seq = slot[i].seq
               /\ slot'[i].param = slot[i].param
            \/ /\ ChunkFill /\ iopc = "receive"
               /\ slot'[i] = NewChunk(cmd.id, cmd.seq) /\ cmd.seq \in SeqIds
<1> DEFINE Kept1 == Occupied(i) /\ slot'[i].seq = slot[i].seq /\ slot'[i].param = slot[i].param
<1>0. slot[i] \in Chunks /\ (Occupied(i) => slot[i].seq \in SeqIds)
  BY DEF Typing, ChunkTypes
<1>1. ASSUME NEW t \in Threads, NEW j \in Slots, Take(t, j) \/ Abandon(t, j), UNCHANGED slot
      PROVE  Kept1
  BY <1>1, TakeKeeps DEF Typing
<1>2. ASSUME UNCHANGED <<slotVars, slot>> PROVE Kept1
  BY <1>2 DEF slotVars, Occupied
<1>3. CASE ChunkFill
  <2>1. PICK j \in Slots : /\ Pass(IO, j)
                           /\ slot' = [slot EXCEPT ![j] = CacheValues(NewChunk(cmd.id, cmd.seq))]
    BY <1>3 DEF ChunkFill
  <2>2. cmd.seq \in SeqIds /\ iopc = "receive"
    BY <1>3 DEF ChunkFill, Typing, CommandTypes
  <2>3. CacheValues(NewChunk(cmd.id, cmd.seq)) = NewChunk(cmd.id, cmd.seq)
    BY <2>2, CacheNew DEF Typing
  <2>4. CASE i = j
    <3>1. slot'[i] = NewChunk(cmd.id, cmd.seq)
      BY <2>1, <2>3, <2>4 DEF Typing, ChunkTypes
    <3>2. slot'[i].seq = cmd.seq
      BY <3>1 DEF NewChunk
    <3>3. QED
      BY <1>3, <2>2, <3>1, <3>2
  <2>5. CASE i # j
    <3>1. Occupied(i) /\ slot'[i] = slot[i]
      BY <2>1, <2>5, Stations, PassKeeps DEF Typing, ChunkTypes
    <3>2. QED
      BY <1>0, <3>1
  <2>6. QED
    BY <2>4, <2>5
<1>4. ASSUME NEW m \in Managers, Process(m) \/ Astray(m) PROVE Kept1
  <2>1. slot'[i].seq = slot[i].seq /\ slot'[i].param = slot[i].param
    BY <1>4, ProcessSlot, AstraySlot, TrailSetSlot DEF Typing
  <2>2. QED
    BY <1>4, <2>1 DEF Process, Astray, slotVars, Occupied
<1>5. ASSUME NEW m \in Managers, Advance(m) PROVE Kept1
  <2>1. PICK j \in Slots : Pass(m, j) /\ slot' = [slot EXCEPT ![j] = Advanced(slot[j])]
    BY <1>5, AdvanceSlot DEF Typing
  <2>2. Advanced(slot[j]).seq = slot[j].seq /\ Advanced(slot[j]).param = slot[j].param
    BY AdvancedType DEF Typing, ChunkTypes
  <2>3. slot'[i].seq = slot[i].seq /\ slot'[i].param = slot[i].param
    BY <2>1, <2>2 DEF Typing, ChunkTypes
  <2>4. Occupied(i)
    BY <2>1, Stations, PassKeeps DEF Typing
  <2>5. QED
    BY <2>3, <2>4
<1>6. ASSUME NEW c \in Senders, SendWrite(c) PROVE Kept1
  <2>1. PICK j \in Slots : Pass(c, j)
    BY <1>6 DEF SendWrite, Sent
  <2>2. Occupied(i)
    BY <2>1, Stations, PassKeeps DEF Typing
  <2>3. QED
    BY <1>6, <2>2 DEF SendWrite
<1>7. ASSUME \/ \E c \in Senders : ChunkFind(c) \/ SendFind(c)
             \/ \E m \in Managers : Search(m) \/ LookupFails(m)
      PROVE  Kept1
  BY <1>1, <1>7, Stations DEF ChunkFind, SendFind, Search, LookupFails
<1>8. ASSUME \/ \E c \in Senders : Status(c) \/ Load(c) \/ Run(c) \/ RunFails(c)
                                   \/ ParamFree(c) \/ SeqHeader(c) \/ ChunkDrop(c)
             \/ \E m \in Managers : Lookup(m)
             \/ ParamErase \/ ParamAlloc \/ ParamAllocFails \/ ParamFill
             \/ SeqEntry \/ UNCHANGED serverVars
      PROVE  Kept1
  BY <1>2, <1>8 DEF Status, Load, Run, RunFails, ParamFree, ParamErase, ParamAlloc,
     ParamAllocFails, ioFrame, SeqHeader, ChunkDrop, Lookup, ParamFill, SeqEntry, serverVars
<1>9. ChunkFill \/ Kept1
  BY <1>4, <1>5, <1>6, <1>7, <1>8 DEF ServerNext, Listen, Manage
<1>10. QED
  BY <1>0, <1>3, <1>9

(* What chunks need is there for them after every step.                    *)
LEMMA ChunksReadyStep ==
  ASSUME Typing, WiresOrderly, MaskFilled, ChunksReady, [ServerNext]_serverVars
  PROVE  ChunksReady'
<1>0. \A q \in SeqIds : Ready(q) => Ready(q)'
  BY ReadyStays
<1>1. ASSUME NEW i \in Slots, Occupied(i)'
      PROVE  slot'[i].param = Zero /\ Ready(slot[i].seq)'
  <2>1. CASE Occupied(i) /\ slot'[i].seq = slot[i].seq /\ slot'[i].param = slot[i].param
    <3>1. PICK q \in SeqIds : q = slot[i].seq /\ slot'[i].seq = q
      BY <1>1, <2>1, InSlots
    <3>2. Ready(q)'
      BY <1>0, <2>1, <3>1 DEF ChunksReady
    <3>3. QED
      BY <2>1, <3>1, <3>2 DEF ChunksReady
  <2>2. CASE iopc = "receive" /\ slot'[i] = NewChunk(cmd.id, cmd.seq) /\ cmd.seq \in SeqIds
    <3>1. PICK q \in SeqIds : q = cmd.seq
      BY <2>2
    <3>2. Ready(q)'
      BY <1>0, <2>2, <3>1 DEF ChunksReady
    <3>3. slot'[i].seq = q /\ slot'[i].param = Zero
      BY <2>2, <3>1 DEF NewChunk
    <3>4. QED
      BY <3>2, <3>3
  <2>3. QED
    BY <1>1, <2>1, <2>2, InSlots
<1>2. ASSUME NEW c \in Senders, NEW k \in DOMAIN out'[c], out'[c][k].kind = "chunk"
      PROVE  out'[c][k].seq \in SeqIds /\ Ready(out[c][k].seq)'
  <2>1. CASE k \in DOMAIN out[c] /\ out'[c][k] = out[c][k]
    <3>1. PICK q \in SeqIds : q = out[c][k].seq
      BY <1>2, <2>1 DEF ChunksReady
    <3>2. Ready(q)'
      BY <1>0, <1>2, <2>1, <3>1 DEF ChunksReady
    <3>3. QED
      BY <2>1, <3>1, <3>2
  <2>2. ASSUME NEW i \in Slots, out'[c][k] = slot[i], Occupied(i)
        PROVE  out'[c][k].seq \in SeqIds /\ Ready(out[c][k].seq)'
    <3>1. PICK q \in SeqIds : q = slot[i].seq
      BY <2>2 DEF Typing, ChunkTypes
    <3>2. Ready(q)'
      BY <1>0, <2>2, <3>1 DEF ChunksReady
    <3>3. QED
      BY <2>2, <3>1, <3>2
  <2>3. QED
    BY <1>2, <2>1, <2>2, Written
<1>3. ASSUME iopc' = "receive" PROVE Ready(cmd.seq)'
  <2>1. ASSUME NEW c \in Senders, HandlerStep(c) PROVE Ready(cmd.seq)'
    <3>1. 1 \in DOMAIN wire[c] /\ iopc = "listen"
      BY <2>1, Taken, Shift DEF Typing
    <3>2. wire[c][1].kind = "chunk" /\ cmd' = wire[c][1]
      BY <1>3, <2>1, Taken
    <3>3. PICK q \in SeqIds : q = wire[c][1].seq
      BY <3>1, <3>2, WireFields DEF Typing
    <3>4. Ahead(wire[c], 1)
      BY <3>1, <3>2 DEF WiresOrderly
    <3>5. Ready(q)
      BY <3>1, <3>3, <3>4
         DEF Ahead, MaskAhead, SequenceAhead, Ready, Filling, Allocation, Adding
    <3>6. QED
      BY <1>0, <3>2, <3>3, <3>5
  <2>2. CASE ParamErase \/ ParamAlloc \/ ParamAllocFails \/ ParamFill \/ SeqEntry \/ ChunkFill
    BY <1>3, <2>2 DEF ParamErase, ParamAlloc, ParamAllocFails, ParamFill, SeqEntry, ChunkFill,
       Return
  <2>3. CASE OtherStep
    <3>1. UNCHANGED <<iopc, cmd>>
      BY <2>3, OtherFrame
    <3>2. PICK q \in SeqIds : q = cmd.seq
      BY <1>3, <3>1 DEF Typing, CommandTypes
    <3>3. Ready(q)'
      BY <1>0, <1>3, <3>1, <3>2 DEF ChunksReady
    <3>4. QED
      BY <3>1, <3>2, <3>3
  <2>4. QED
    BY <2>1, <2>2, <2>3, StepKinds
<1>4. QED
  BY <1>1, <1>2, <1>3 DEF ChunksReady
-----------------------------------------------------------------------------
(* A manager finds the sequence and the parameter of its chunk.            *)
LEMMA AlwaysKnown ==
  ASSUME Typing, ChunksReady, NEW m \in Managers, LookupFails(m)
  PROVE  FALSE
<1>1. PICK i \in Slots : ~Known(slot[i]) /\ owner[i] = m
  BY DEF LookupFails, Abandon, Owns
<1>2. Occupied(i)
  BY <1>1, Stations DEF Typing, SlotTypes, Occupied
<1>3. QED
  BY <1>1, <1>2 DEF ChunksReady, Ready, Known

(* Who moves which slot in a step.                                         *)
LEMMA WhoMoves ==
  ASSUME Typing, ChunksReady, [ServerNext]_serverVars
  PROVE  \/ UNCHANGED slotVars
         \/ \E i \in Slots : Take(IO, i) /\ UNCHANGED <<mpc, slot>>
         \/ \E i \in Slots : Pass(IO, i) /\ UNCHANGED mpc
         \/ \E m \in Managers, i \in Slots : Search(m) /\ Take(m, i)
         \/ \E m \in Managers, i \in Slots : Advance(m) /\ Pass(m, i)
         \/ \E c \in Senders, i \in Slots : Take(c, i) /\ UNCHANGED <<mpc, slot>>
         \/ \E c \in Senders, i \in Slots : Pass(c, i) /\ UNCHANGED <<mpc, slot>>
<1>1. CASE Listen
  BY <1>1 DEF Listen, Status, Load, Run, RunFails, ParamFree, ParamErase, ParamAlloc,
     ParamAllocFails, ioFrame, SeqHeader, ChunkFind, ChunkDrop, ParamFill, SeqEntry,
     ChunkFill, managers
<1>2. ASSUME NEW m \in Managers, Search(m) \/ Lookup(m) \/ Process(m) \/ Astray(m)
      PROVE  \/ UNCHANGED slotVars
             \/ \E i \in Slots : Search(m) /\ Take(m, i)
  BY <1>2 DEF Search, Lookup, Process, Astray
<1>3. ASSUME NEW m \in Managers, Advance(m) PROVE \E i \in Slots : Advance(m) /\ Pass(m, i)
  BY <1>3 DEF Advance
<1>4. ASSUME NEW c \in Senders, SendFind(c) \/ SendWrite(c)
      PROVE  \/ \E i \in Slots : Take(c, i) /\ UNCHANGED <<mpc, slot>>
             \/ \E i \in Slots : Pass(c, i) /\ UNCHANGED <<mpc, slot>>
  BY <1>4 DEF SendFind, SendWrite, Sent, managers
<1>5. CASE UNCHANGED serverVars
  BY <1>5 DEF serverVars
<1>6. QED
  BY <1>1, <1>2, <1>3, <1>4, <1>5, AlwaysKnown DEF ServerNext, Manage

(* A manager at work has one slot.                                         *)
LEMMA ManagersStep ==
  ASSUME Typing, WiresOrderly, MaskFilled, ChunksReady, ManagersAtWork,
         [ServerNext]_serverVars
  PROVE  ManagersAtWork'
<1> USE Stations
<1> DEFINE Sole == \A i, j \in Slots : owner[i] = owner[j] /\ owner[i] # NoThread => i = j
           Busily == \A i \in Slots : owner[i] \in Managers => AtWork(owner[i])
           Worked == \A i \in Slots : place[i] = "WORKING" => owner[i] \in Managers
           Pointing == \A m \in Managers : mpc[m] = "process" => ptr[m] = params[Zero]
<1>0. ASSUME NEW m \in Managers, AtWork(m) PROVE AtWork(m)' \/ Advance(m)
  <2> USE DEF AtWork, Typing, ManagerTypes
  <2>1. CASE Listen
    BY <1>0, <2>1 DEF Listen, Status, Load, Run, RunFails, ParamFree, ParamErase, ParamAlloc,
       ParamAllocFails, ioFrame, SeqHeader, ChunkFind, ChunkDrop, ParamFill, SeqEntry,
       ChunkFill, managers
  <2>2. ASSUME NEW n \in Managers, Manage(n) PROVE AtWork(m)' \/ Advance(m)
    <3>1. CASE Advance(n)
      <4>1. CASE n = m
        BY <3>1, <4>1
      <4>2. CASE n # m
        BY <1>0, <3>1, <4>2 DEF Advance, MGoto
      <4>3. QED
        BY <4>1, <4>2
    <3>2. CASE Search(n) \/ Lookup(n) \/ Process(n) \/ Astray(n)
      BY <1>0, <3>2 DEF Search, Lookup, Process, Astray, MGoto, managers
    <3>3. QED
      BY <2>2, <3>1, <3>2, AlwaysKnown DEF Manage
  <2>3. ASSUME NEW c \in Senders, SendFind(c) \/ SendWrite(c) PROVE AtWork(m)'
    BY <1>0, <2>3 DEF SendFind, SendWrite, managers
  <2>4. CASE UNCHANGED serverVars
    BY <1>0, <2>4 DEF serverVars, managers
  <2>5. QED
    BY <2>1, <2>2, <2>3, <2>4 DEF ServerNext
<1>1. ASSUME NEW t \in Threads, NEW i \in Slots, Take(t, i)
      PROVE  /\ \A j \in Slots : owner[j] # t
             /\ \A j \in Slots : /\ owner'[j] = (IF j = i THEN t ELSE owner[j])
                                 /\ place'[j] = (IF j = i THEN Busy(t) ELSE place[j])
  BY <1>1 DEF Take, Owns, Typing, SlotTypes
<1>2. ASSUME NEW t \in Threads, NEW i \in Slots, Pass(t, i)
      PROVE  /\ owner[i] = t
             /\ \A j \in Slots : /\ owner'[j] = (IF j = i THEN NoThread ELSE owner[j])
                                 /\ j # i => place'[j] = place[j]
             /\ place'[i] # "WORKING"
  BY <1>2 DEF Pass, Owns, Typing, SlotTypes, Threads
<1>3. Sole'
  BY <1>1, <1>2, WhoMoves DEF ManagersAtWork, slotVars
<1>4. Worked'
  BY <1>1, <1>2, WhoMoves DEF ManagersAtWork, slotVars, Threads, Typing, SlotTypes
<1>5. Busily'
  <2> SUFFICES ASSUME NEW i \in Slots, NEW m \in Managers, owner'[i] = m PROVE AtWork(m)'
    OBVIOUS
  <2>1. CASE owner[i] = m
    <3>1. ASSUME Advance(m) PROVE FALSE
      <4>1. PICK j \in Slots : Pass(m, j)
        BY <3>1 DEF Advance
      <4>2. owner[j] = m /\ owner'[j] = NoThread
        BY <1>2, <4>1
      <4>3. j = i
        BY <2>1, <4>2 DEF ManagersAtWork
      <4>4. QED
        BY <4>2, <4>3
    <3>2. AtWork(m)
      BY <2>1 DEF ManagersAtWork
    <3>3. QED
      BY <1>0, <3>1, <3>2
  <2>2. CASE owner[i] # m
    <3>1. Search(m)
      BY <1>1, <1>2, <2>2, WhoMoves DEF slotVars
    <3>2. QED
      BY <3>1 DEF Search, MGoto, AtWork, Typing, ManagerTypes
  <2>3. QED
    BY <2>1, <2>2
<1>6. Pointing'
  <2> SUFFICES ASSUME NEW m \in Managers, mpc'[m] = "process" PROVE ptr'[m] = params'[Zero]
    OBVIOUS
  <2>1. CASE Lookup(m)
    <3>1. PICK i \in Slots : owner[i] = m /\ ptr' = [ptr EXCEPT ![m] = params[slot[i].param]]
      BY <2>1 DEF Lookup, Owns
    <3>2. Occupied(i)
      BY <3>1 DEF Typing, SlotTypes, Occupied
    <3>3. ptr'[m] = params[Zero]
      BY <3>1, <3>2 DEF ChunksReady, Typing, ManagerTypes
    <3>4. UNCHANGED params
      BY <2>1 DEF Lookup, MGoto, ioVars, tables
    <3>5. QED
      BY <3>3, <3>4
  <2>2. CASE ~Lookup(m)
    <3>1. mpc[m] = "process" /\ ptr'[m] = ptr[m]
      <4>1. CASE Listen
        BY <4>1 DEF Listen, Status, Load, Run, RunFails, ParamFree, ParamErase, ParamAlloc,
           ParamAllocFails, ioFrame, SeqHeader, ChunkFind, ChunkDrop, ParamFill, SeqEntry,
           ChunkFill, managers, Typing, ManagerTypes
      <4>2. ASSUME NEW n \in Managers, Search(n) \/ Lookup(n) \/ Process(n) \/ Advance(n)
            PROVE  mpc[m] = "process" /\ ptr'[m] = ptr[m]
        <5>1. mpc' = [mpc EXCEPT ![n] = mpc'[n]] /\ (mpc'[n] # "process" \/ Lookup(n))
          BY <4>2 DEF Search, Lookup, Process, Advance, MGoto, Typing, ManagerTypes
        <5>2. CASE Lookup(n)
          <6>1. n # m
            BY <2>2, <5>2
          <6>2. mpc'[m] = mpc[m]
            BY <5>2, <6>1 DEF Lookup, MGoto, Typing, ManagerTypes
          <6>3. ptr'[m] = ptr[m]
            BY <5>2, <6>1 DEF Lookup, Typing, ManagerTypes
          <6>4. QED
            BY <6>2, <6>3
        <5>3. CASE ~Lookup(n)
          <6>1. ptr' = ptr
            BY <4>2, <5>3 DEF Search, Process, Advance
          <6>2. mpc[m] = "process"
            BY <5>1, <5>3 DEF Typing, ManagerTypes
          <6>3. QED
            BY <6>1, <6>2
        <5>4. QED
          BY <5>2, <5>3
      <4>3. ASSUME NEW n \in Managers, Astray(n)
            PROVE  mpc[m] = "process" /\ ptr'[m] = ptr[m]
        BY <4>3 DEF Astray, managers
      <4>4. ASSUME NEW c \in Senders, SendFind(c) \/ SendWrite(c)
            PROVE  mpc[m] = "process" /\ ptr'[m] = ptr[m]
        BY <4>4 DEF SendFind, SendWrite, managers
      <4>5. CASE UNCHANGED serverVars
        BY <4>5 DEF serverVars, managers
      <4>6. QED
        BY <4>1, <4>2, <4>3, <4>4, <4>5, AlwaysKnown DEF ServerNext, Manage
    <3>2. PICK i \in Slots : owner[i] = m
      BY <3>1 DEF Typing, Holders, Holding, Owns
    <3>3. Occupied(i)
      BY <3>2 DEF Typing, SlotTypes, Occupied
    <3>4. params[Zero] # Null
      BY <3>3 DEF ChunksReady, Ready
    <3>5. QED
      BY <3>1, <3>4, MaskStays DEF ManagersAtWork
  <2>3. QED
    BY <2>1, <2>2
<1>7. QED
  BY <1>3, <1>4, <1>5, <1>6 DEF ManagersAtWork
-----------------------------------------------------------------------------
(* A slot that a step leaves alone.                                        *)
Unmoved(i) ==
  /\ slot'[i] = slot[i] /\ place'[i] = place[i] /\ owner'[i] = owner[i]
  /\ place[i] = "WORKING" => (ToAdvance(i)' <=> ToAdvance(i))

(* What a step does to a slot that is occupied then.                       *)
LEMMA SlotMoves ==
  ASSUME Typing, ChunksReady, ManagersAtWork, Alone, [ServerNext]_serverVars,
         NEW i \in Slots, Occupied(i)'
  PROVE  \/ Unmoved(i)
         \/ \E m \in Managers : Search(m) /\ Take(m, i) /\ slot'[i] = slot[i]
         \/ \E m \in Managers :
              /\ Process(m) /\ Owns(m, i)
              /\ slot'[i] = [slot[i] EXCEPT !.trail = Append(slot[i].trail, heap[ptr[m]])]
         \/ \E m \in Managers :
              /\ Advance(m) /\ Pass(m, i)
              /\ slot'[i] = Advanced(slot[i])
              /\ place'[i] = IF HasEntry(Advanced(slot[i])) THEN "WAIT" ELSE "READY"
         \/ \E c \in Senders : Take(c, i) /\ slot'[i] = slot[i]
         \/ /\ ChunkFill /\ iopc = "receive" /\ cmd.seq \in SeqIds
            /\ place'[i] = "WAIT" /\ slot'[i] = NewChunk(cmd.id, cmd.seq)
<1> USE Stations
<1>1. ASSUME NEW t \in Threads, NEW j \in Slots, Take(t, j) \/ Pass(t, j), j # i
      PROVE  place'[i] = place[i] /\ owner'[i] = owner[i]
  BY <1>1 DEF Take, Pass, Typing, SlotTypes
<1>2. ASSUME \A m \in Managers : mpc'[m] = "advance" <=> mpc[m] = "advance",
             place'[i] = place[i] /\ owner'[i] = owner[i] /\ slot'[i] = slot[i]
      PROVE  Unmoved(i)
  BY <1>2 DEF Unmoved, ToAdvance, ManagersAtWork
<1>3. ASSUME NEW t \in Threads, NEW j \in Slots, Take(t, j) \/ Pass(t, j), j # i,
             \A m \in Managers : m # t => mpc'[m] = mpc[m],
             slot'[i] = slot[i], owner[j] = t \/ \A m \in Managers : mpc'[m] = mpc[m]
      PROVE  Unmoved(i)
  <2>1. place'[i] = place[i] /\ owner'[i] = owner[i]
    BY <1>1, <1>3
  <2>2. owner[j] = t => owner[i] # t
    BY <1>3 DEF ManagersAtWork
  <2>3. QED
    BY <1>3, <2>1, <2>2 DEF Unmoved, ToAdvance, ManagersAtWork
<1>4. ASSUME UNCHANGED <<slotVars, slot, mpc>> PROVE Unmoved(i)
  BY <1>2, <1>4 DEF slotVars
<1>5. ASSUME NEW c \in Senders, HandlerStep(c) PROVE Unmoved(i)
  <2>1. CASE Run(c)
    <3>1. UNCHANGED <<slotVars, slot>>
      BY <2>1 DEF Run
    <3>2. \A m \in Managers : mpc'[m] = "advance" <=> mpc[m] = "advance"
      BY <2>1 DEF Run, Typing, ManagerTypes
    <3>3. QED
      BY <1>2, <3>1, <3>2 DEF slotVars
  <2>2. CASE ChunkFind(c)
    <3>1. PICK j \in Slots : Take(IO, j)
      BY <2>2 DEF ChunkFind
    <3>2. UNCHANGED <<slot, mpc>>
      BY <2>2 DEF ChunkFind, managers
    <3>3. j # i
      BY <3>1 DEF Take, Typing, SlotTypes, Occupied
    <3>4. QED
      BY <1>3, <3>1, <3>2, <3>3
  <2>3. CASE Status(c) \/ Load(c) \/ RunFails(c) \/ ParamFree(c) \/ SeqHeader(c) \/ ChunkDrop(c)
    BY <1>4, <2>3 DEF Status, Load, RunFails, ParamFree, SeqHeader, ChunkDrop, managers
  <2>4. QED
    BY <1>5, <2>1, <2>2, <2>3 DEF HandlerStep
<1>6. CASE ParamErase \/ ParamAlloc \/ ParamAllocFails \/ ParamFill \/ SeqEntry
  BY <1>4, <1>6 DEF ParamErase, ParamAlloc, ParamAllocFails, ParamFill, SeqEntry, ioFrame,
     managers
<1>7. CASE ChunkFill
  <2>1. PICK j \in Slots : /\ Pass(IO, j)
                           /\ slot' = [slot EXCEPT ![j] = CacheValues(NewChunk(cmd.id, cmd.seq))]
    BY <1>7 DEF ChunkFill
  <2>2. cmd.seq \in SeqIds /\ iopc = "receive" /\ UNCHANGED mpc
    BY <1>7 DEF ChunkFill, Typing, CommandTypes, managers
  <2>3. CacheValues(NewChunk(cmd.id, cmd.seq)) = NewChunk(cmd.id, cmd.seq)
    BY <2>2, CacheNew DEF Typing
  <2>4. CASE i = j
    <3>1. slot'[i] = NewChunk(cmd.id, cmd.seq)
      BY <2>1, <2>3, <2>4 DEF Typing, ChunkTypes
    <3>2. place'[i] = "WAIT"
      BY <2>1, <2>4 DEF Pass, Typing, SlotTypes
    <3>3. QED
      BY <1>7, <2>2, <3>1, <3>2
  <2>5. CASE i # j
    <3>1. slot'[i] = slot[i]
      BY <2>1, <2>5 DEF Typing, ChunkTypes
    <3>2. QED
      BY <1>3, <2>1, <2>2, <2>5, <3>1
  <2>6. QED
    BY <2>4, <2>5
<1>8. ASSUME NEW m \in Managers, Search(m)
      PROVE  Unmoved(i) \/ (Take(m, i) /\ slot'[i] = slot[i])
  <2>1. PICK j \in Slots : Take(m, j)
    BY <1>8 DEF Search
  <2>2. UNCHANGED slot /\ \A n \in Managers : mpc'[n] = "advance" <=> mpc[n] = "advance"
    BY <1>8 DEF Search, MGoto, Typing, ManagerTypes
  <2>3. QED
    BY <1>1, <1>2, <2>1, <2>2
<1>9. ASSUME NEW m \in Managers, Lookup(m) PROVE Unmoved(i)
  <2>1. UNCHANGED <<slotVars, slot>>
    BY <1>9 DEF Lookup
  <2>2. \A n \in Managers : mpc'[n] = "advance" <=> mpc[n] = "advance"
    BY <1>9 DEF Lookup, MGoto, Typing, ManagerTypes
  <2>3. QED
    BY <1>2, <2>1, <2>2 DEF slotVars
<1>10. ASSUME NEW m \in Managers, Process(m)
       PROVE  \/ Unmoved(i)
              \/ /\ Owns(m, i)
                 /\ slot'[i] = [slot[i] EXCEPT !.trail = Append(slot[i].trail, heap[ptr[m]])]
  <2>0. ~Shared(m)
    BY <1>10 DEF Process, MGoto, Alone, Started
  <2>1. PICK j \in Slots :
          /\ Owns(m, j)
          /\ slot' = [slot EXCEPT ![j] =
                       [slot[j] EXCEPT !.trail = Append(slot[j].trail, heap[ptr[m]])]]
    BY <1>10, <2>0, ProcessSlot DEF Typing, TrailSet
  <2>2. CASE i = j
    <3>1. slot'[i] = [slot[i] EXCEPT !.trail = Append(slot[i].trail, heap[ptr[m]])]
      BY <2>1, <2>2 DEF Typing, ChunkTypes
    <3>2. QED
      BY <2>1, <2>2, <3>1
  <2>3. CASE i # j
    <3>1. slot'[i] = slot[i] /\ UNCHANGED slotVars
      BY <1>10, <2>1, <2>3 DEF Process, Typing, ChunkTypes
    <3>2. owner[i] # m
      BY <2>1, <2>3 DEF Owns, ManagersAtWork
    <3>3. \A n \in Managers : n # m => mpc'[n] = mpc[n]
      BY <1>10 DEF Process, MGoto, Typing, ManagerTypes
    <3>4. QED
      BY <3>1, <3>2, <3>3 DEF Unmoved, ToAdvance, ManagersAtWork, slotVars
  <2>4. QED
    BY <2>2, <2>3
<1>11. ASSUME NEW m \in Managers, Advance(m)
       PROVE  \/ Unmoved(i)
              \/ /\ Pass(m, i) /\ slot'[i] = Advanced(slot[i])
                 /\ place'[i] = IF HasEntry(Advanced(slot[i])) THEN "WAIT" ELSE "READY"
  <2>1. PICK j \in Slots :
          /\ Pass(m, j)
          /\ slot' = [slot EXCEPT ![j] = Advanced(slot[j])]
          /\ place'[j] = IF HasEntry(Advanced(slot[j])) THEN "WAIT" ELSE "READY"
    BY <1>11, AdvanceSlot DEF Typing
  <2>2. CASE i = j
    BY <2>1, <2>2 DEF Typing, ChunkTypes
  <2>3. CASE i # j
    <3>1. slot'[i] = slot[i]
      BY <2>1, <2>3 DEF Typing, ChunkTypes
    <3>2. owner[j] = m
      BY <2>1 DEF Pass, Owns
    <3>3. \A n \in Managers : n # m => mpc'[n] = mpc[n]
      BY <1>11 DEF Advance, MGoto, Typing, ManagerTypes
    <3>4. QED
      BY <1>3, <2>1, <2>3, <3>1, <3>2, <3>3
  <2>4. QED
    BY <2>2, <2>3
<1>12. ASSUME NEW c \in Senders, SendFind(c)
       PROVE  Unmoved(i) \/ (Take(c, i) /\ slot'[i] = slot[i])
  <2>1. PICK j \in Slots : Take(c, j)
    BY <1>12 DEF SendFind
  <2>2. UNCHANGED <<slot, mpc>>
    BY <1>12 DEF SendFind, managers
  <2>3. QED
    BY <1>3, <2>1, <2>2
<1>13. ASSUME NEW c \in Senders, SendWrite(c) PROVE Unmoved(i)
  <2>1. PICK j \in Slots : Pass(c, j)
    BY <1>13 DEF SendWrite, Sent
  <2>2. UNCHANGED <<slot, mpc>>
    BY <1>13 DEF SendWrite, managers
  <2>3. j # i
    BY <2>1 DEF Pass, Typing, SlotTypes, Occupied
  <2>4. QED
    BY <1>3, <2>1, <2>2, <2>3
<1>14. CASE UNCHANGED serverVars
  BY <1>4, <1>14 DEF serverVars, managers
<1>16. ASSUME NEW m \in Managers, Astray(m) PROVE FALSE
  BY <1>16 DEF Astray, Alone, Started
<1>15. QED
  BY <1>5, <1>6, <1>7, <1>8, <1>9, <1>10, <1>11, <1>12, <1>13, <1>14, <1>16, StepKinds,
     AlwaysKnown
     DEF OtherStep, Manage
-----------------------------------------------------------------------------
(* One more round.                                                         *)
LEMMA TrailGrows ==
  ASSUME Typing, NEW k \in Nat, heap[params[Zero]] \in Masks
  PROVE  /\ Trail(k) \in Seq(Contents)
         /\ Append(Trail(k), heap[params[Zero]]) = Trail(k+1)
<1> DEFINE x == heap[params[Zero]]
<1>1. x \in Contents
  BY DEF Contents
<1> HIDE DEF x
<1>2. [e \in 1 .. k |-> x] \in Seq(Contents) /\ Len([e \in 1 .. k |-> x]) = k
  BY <1>1
<1>3. Append([e \in 1 .. k |-> x], x) = [e \in 1 .. k+1 |-> x]
  BY <1>1, <1>2
<1>4. QED
  BY <1>2, <1>3 DEF Trail, x

(* A slot is right after the step if its chunk then is right before it.    *)
LEMMA RoundsNext ==
  ASSUME Typing, WiresOrderly, MaskFilled, [ServerNext]_serverVars,
         NEW i \in Slots, NEW ch \in Chunks, slot'[i] = ch, NEW p, place'[i] = p,
         NEW b \in BOOLEAN, p = "WORKING" => (ToAdvance(i)' <=> b),
         ch.seq \in SeqIds, Ready(ch.seq), RoundsOf(ch, p, b)
  PROVE  Rounds(i)'
<1>1. ch.index \in Nat /\ Len(seqs[ch.seq]) \in Nat
  <2>1. ch.index \in 0 .. 255
    BY DEF Chunks
  <2>2. ch.index \in Nat
    BY <2>1
  <2>3. seqs[ch.seq] \in Seq(Entries)
    BY DEF Typing, TableTypes
  <2>4. Len(seqs[ch.seq]) \in Nat
    BY <2>3
  <2>5. QED
    BY <2>2, <2>4
<1>2. seqs'[ch.seq] = seqs[ch.seq] /\ \A n \in Nat : Trail(n)' = Trail(n)
  BY ReadyStays
<1>3. RoundsOf(ch, p, b)'
  BY <1>1, <1>2 DEF RoundsOf
<1>4. CASE p = "WORKING"
  BY <1>3, <1>4 DEF Rounds, RoundsOf
<1>5. CASE p # "WORKING"
  BY <1>3, <1>5 DEF Rounds, RoundsOf
<1>6. QED
  BY <1>4, <1>5

(* The slots.                                                              *)
LEMMA SlotRounds ==
  ASSUME Typing, WiresOrderly, SequencesPlain, MaskFilled, ChunksReady, ManagersAtWork,
         Alone, TrailsRight, [ServerNext]_serverVars, NEW i \in Slots, Occupied(i)'
  PROVE  Rounds(i)'
<1> USE Stations
<1>1. PICK ch \in Chunks : ch = slot[i]
  BY DEF Typing, ChunkTypes
<1>2. PICK b \in BOOLEAN : b = (ToAdvance(i))
  BY DEF ToAdvance
<1>3. ch.index \in Nat /\ ch.index <= 255
  <2>1. ch.index \in 0 .. 255
    BY DEF Chunks
  <2>2. QED
    BY <2>1
<1>4. ASSUME Occupied(i)
      PROVE  /\ ch.seq \in SeqIds /\ Ready(ch.seq) /\ RoundsOf(ch, place[i], b)
             /\ heap[params[Zero]] \in Masks
             /\ Len(seqs[ch.seq]) \in Nat /\ Len(seqs[ch.seq]) <= 255
  <2>1. ch.seq \in SeqIds /\ Ready(ch.seq)
    BY <1>1, <1>4 DEF Typing, ChunkTypes, ChunksReady
  <2>2. RoundsOf(ch, place[i], b)
    BY <1>1, <1>2, <1>4 DEF TrailsRight, Rounds
  <2>3. heap[params[Zero]] \in Masks
    BY <2>1 DEF Ready, MaskFilled
  <2>4. seqs[ch.seq] \in Seq(Entries) /\ Plain(seqs[ch.seq])
    BY <2>1 DEF Typing, TableTypes, SequencesPlain
  <2>5. QED
    BY <2>1, <2>2, <2>3, <2>4 DEF Plain
<1>5. CASE Unmoved(i)
  <2>1. Occupied(i)
    BY <1>5 DEF Unmoved, Occupied
  <2>2. QED
    BY <1>1, <1>2, <1>4, <1>5, <2>1, RoundsNext DEF Unmoved
<1>6. ASSUME NEW m \in Managers, Search(m), Take(m, i), slot'[i] = slot[i]
      PROVE  Rounds(i)'
  <2>1. place[i] = "WAIT" /\ place'[i] = "WORKING" /\ owner'[i] = m /\ mpc'[m] = "lookup"
    BY <1>6 DEF Take, Search, MGoto, Typing, SlotTypes, ManagerTypes
  <2>2. ToAdvance(i)' <=> FALSE
    BY <2>1 DEF ToAdvance
  <2>3. Occupied(i)
    BY <2>1 DEF Occupied
  <2>4. RoundsOf(ch, "WORKING", FALSE)
    BY <1>4, <2>1, <2>3 DEF RoundsOf
  <2>5. QED
    BY <1>1, <1>4, <1>6, <2>1, <2>2, <2>3, <2>4, RoundsNext
<1>7. ASSUME NEW m \in Managers, Process(m), Owns(m, i),
             slot'[i] = [slot[i] EXCEPT !.trail = Append(slot[i].trail, heap[ptr[m]])]
      PROVE  Rounds(i)'
  <2>1. /\ place[i] = "WORKING" /\ owner[i] = m
        /\ mpc[m] = "process" /\ mpc'[m] = "advance" /\ UNCHANGED slotVars
    BY <1>7 DEF Owns, Process, MGoto, Typing, SlotTypes, ManagerTypes
  <2>2. Occupied(i) /\ ~b
    BY <1>2, <2>1 DEF Occupied, ToAdvance
  <2>3. ptr[m] = params[Zero] /\ heap[params[Zero]] \in Contents
    BY <1>4, <2>1, <2>2 DEF ManagersAtWork, Contents
  <2>11. Append(ch.trail, heap[params[Zero]]) \in Seq(Contents)
    <3>1. ch.trail \in Seq(Contents)
      BY DEF Chunks
    <3>2. QED
      BY <2>3, <3>1
  <2>4. PICK new \in Chunks : new = [ch EXCEPT !.trail = Append(ch.trail, heap[params[Zero]])]
    BY <2>11, TrailType
  <2>5. /\ new.seq = ch.seq /\ new.index = ch.index
        /\ new.trail = Append(ch.trail, heap[params[Zero]])
    BY <2>4, <2>11, TrailType
  <2>6. ch.trail = Trail(ch.index) /\ ch.index < Len(seqs[ch.seq])
    BY <1>4, <2>1, <2>2 DEF RoundsOf
  <2>7. new.trail = Trail(ch.index + 1)
    BY <1>3, <1>4, <2>2, <2>5, <2>6, TrailGrows
  <2>8. RoundsOf(new, "WORKING", TRUE)
    BY <2>5, <2>6, <2>7 DEF RoundsOf
  <2>9. slot'[i] = new /\ place'[i] = "WORKING" /\ (ToAdvance(i)' <=> TRUE)
    BY <1>1, <1>7, <2>1, <2>3, <2>4 DEF slotVars, ToAdvance
  <2>10. QED
    BY <1>4, <2>2, <2>5, <2>8, <2>9, RoundsNext
<1>8. ASSUME NEW m \in Managers, Advance(m), Pass(m, i), slot'[i] = Advanced(slot[i]),
             place'[i] = IF HasEntry(Advanced(slot[i])) THEN "WAIT" ELSE "READY"
      PROVE  Rounds(i)'
  <2>1. place[i] = "WORKING" /\ owner[i] = m /\ mpc[m] = "advance"
    BY <1>8 DEF Pass, Owns, Advance, MGoto, Typing, SlotTypes
  <2>2. Occupied(i) /\ b
    BY <1>2, <2>1 DEF Occupied, ToAdvance
  <2>3. PICK new \in Chunks : new = Advanced(ch)
    BY AdvancedType
  <2>4. ch.trail = Trail(ch.index + 1) /\ ch.index < Len(seqs[ch.seq])
    BY <1>4, <2>1, <2>2 DEF RoundsOf
  <2>5. (ch.index + 1) % 256 = ch.index + 1
    BY <1>3, <1>4, <2>2, <2>4
  <2>6. /\ new.seq = ch.seq /\ new.index = ch.index + 1 /\ new.trail = Trail(ch.index + 1)
    BY <2>3, <2>4, <2>5, AdvancedType
  <2>7. HasEntry(new) <=> new.index < Len(seqs[ch.seq])
    BY <2>6 DEF HasEntry
  <2>8. RoundsOf(new, IF HasEntry(new) THEN "WAIT" ELSE "READY", FALSE)
    <3>1. CASE HasEntry(new)
      BY <2>6, <2>7, <3>1 DEF RoundsOf
    <3>2. CASE ~HasEntry(new)
      <4>1. ch.index + 1 = Len(seqs[ch.seq])
        BY <1>3, <1>4, <2>2, <2>4, <2>6, <2>7, <3>2
      <4>2. QED
        BY <2>6, <3>2, <4>1 DEF RoundsOf
    <3>3. QED
      BY <3>1, <3>2
  <2>9. slot'[i] = new /\ place'[i] = IF HasEntry(new) THEN "WAIT" ELSE "READY"
    BY <1>1, <1>8, <2>3
  <2>10. place'[i] # "WORKING"
    BY <2>9
  <2>11. QED
    BY <1>4, <2>2, <2>6, <2>8, <2>9, <2>10, RoundsNext
<1>9. ASSUME NEW c \in Senders, Take(c, i), slot'[i] = slot[i] PROVE Rounds(i)'
  <2>1. place[i] = "READY" /\ place'[i] = "SENDING"
    BY <1>9 DEF Take, Typing, SlotTypes
  <2>2. Occupied(i)
    BY <2>1 DEF Occupied
  <2>3. RoundsOf(ch, "SENDING", b)
    BY <1>4, <2>1, <2>2 DEF RoundsOf
  <2>4. QED
    BY <1>1, <1>4, <1>9, <2>1, <2>2, <2>3, RoundsNext
<1>10. ASSUME iopc = "receive", cmd.seq \in SeqIds, place'[i] = "WAIT",
              slot'[i] = NewChunk(cmd.id, cmd.seq)
       PROVE  Rounds(i)'
  <2>1. cmd.id \in ChunkIds
    BY <1>10 DEF Typing, CommandTypes
  <2>2. PICK new \in Chunks : new = NewChunk(cmd.id, cmd.seq)
    BY <1>10, <2>1, NewChunkType
  <2>3. new.seq = cmd.seq /\ new.index = 0 /\ new.trail = <<>>
    BY <2>2 DEF NewChunk
  <2>4. Ready(cmd.seq) /\ seqs[cmd.seq] \in Seq(Entries) /\ seqs[cmd.seq] # <<>>
    BY <1>10 DEF ChunksReady, Ready, Typing, TableTypes
  <2>5. Len(seqs[cmd.seq]) \in Nat /\ 0 < Len(seqs[cmd.seq])
    BY <2>4
  <2>6. Trail(0) = <<>>
    BY DEF Trail
  <2>7. RoundsOf(new, "WAIT", FALSE)
    BY <2>3, <2>5, <2>6 DEF RoundsOf
  <2>8. QED
    BY <1>10, <2>2, <2>3, <2>4, <2>7, RoundsNext
<1>11. QED
  BY <1>5, <1>6, <1>7, <1>8, <1>9, <1>10, SlotMoves

(* And so are those on the way back.                                       *)
LEMMA TrailsStep ==
  ASSUME Typing, WiresOrderly, SequencesPlain, MaskFilled, ChunksReady, ManagersAtWork,
         Alone, TrailsRight, [ServerNext]_serverVars
  PROVE  TrailsRight'
<1>1. ASSUME NEW i \in Slots PROVE Rounds(i)'
  <2>1. Occupied(i)' => Rounds(i)'
    BY SlotRounds
  <2>2. QED
    BY <2>1 DEF Rounds
<1>2. ASSUME NEW c \in Senders, NEW k \in DOMAIN out'[c], out'[c][k].kind = "chunk"
      PROVE  out'[c][k].trail = Trail(Len(seqs[out[c][k].seq]))'
  <2>1. PICK ch : ch = out'[c][k]
    OBVIOUS
  <2>2. ch.seq \in SeqIds /\ Ready(ch.seq) /\ ch.trail = Trail(Len(seqs[ch.seq]))
    <3>1. CASE k \in DOMAIN out[c] /\ out'[c][k] = out[c][k]
      BY <1>2, <2>1, <3>1 DEF ChunksReady, TrailsRight
    <3>2. ASSUME NEW i \in Slots, out'[c][k] = slot[i], Occupied(i), place[i] = "SENDING"
          PROVE  ch.seq \in SeqIds /\ Ready(ch.seq) /\ ch.trail = Trail(Len(seqs[ch.seq]))
      <4>1. ch.seq \in SeqIds /\ Ready(ch.seq)
        BY <2>1, <3>2 DEF Typing, ChunkTypes, ChunksReady
      <4>2. QED
        BY <2>1, <3>2, <4>1 DEF TrailsRight, Rounds, RoundsOf
    <3>3. QED
      BY <1>2, <3>1, <3>2, Written
  <2>3. Len(seqs[ch.seq]) \in Nat
    BY <2>2 DEF Typing, TableTypes
  <2>4. seqs'[ch.seq] = seqs[ch.seq] /\ \A n \in Nat : Trail(n)' = Trail(n)
    BY <2>2, ReadyStays
  <2>5. ch.trail = Trail(Len(seqs[ch.seq]))'
    BY <2>2, <2>3, <2>4
  <2>6. QED
    BY <2>1, <2>5
<1>3. QED
  BY <1>1, <1>2 DEF TrailsRight
-----------------------------------------------------------------------------
(* Managers have SPUs of their own.                                        *)
LEMMA ApartAlone == SpusApart => Alone
BY DEF SpusApart, Alone, Shared, Started

(* A RUN starts a manager for an SPU that has none, and that no other RUN  *)
(* names.                                                                  *)
LEMMA SpusApartStep ==
  ASSUME Typing, SpusApart, [ServerNext]_serverVars
  PROVE  SpusApart'
<1> USE DEF Started
<1>1. ASSUME UNCHANGED <<wire, spuOf>>, \A m \in Managers : Started(m)' => Started(m)
      PROVE  SpusApart'
  BY <1>1 DEF SpusApart
<1>2. ASSUME NEW c \in Senders, HandlerStep(c) PROVE SpusApart'
  <2>0. PICK kind : Handle(c, kind)
    BY <1>2, Taken
  <2>1. /\ Shifted(c) /\ 1 \in DOMAIN wire[c] /\ wire[c][1] = Head(wire[c])
    BY <2>0, Shift DEF Typing
  <2>2. ASSUME NEW d \in Senders, NEW k \in DOMAIN wire'[d]
        PROVE  \E u \in DOMAIN wire[d] : /\ wire'[d][k] = wire[d][u]
                                         /\ u = IF d = c THEN k+1 ELSE k
                                         /\ k \in Nat \ {0}
    BY <2>1 DEF Shifted
  <2>3. RunOnce(wire')
    <3> SUFFICES ASSUME NEW d \in Senders, NEW e \in Senders,
                        NEW j \in DOMAIN wire'[d], NEW k \in DOMAIN wire'[e],
                        wire'[d][j].kind = "run", wire'[e][k].kind = "run",
                        wire'[e][k].spu = wire'[d][j].spu
                 PROVE  d = e /\ j = k
      BY DEF RunOnce
    <3>1. PICK u \in DOMAIN wire[d] : /\ wire'[d][j] = wire[d][u]
                                      /\ u = (IF d = c THEN j+1 ELSE j) /\ j \in Nat
      BY <2>2
    <3>2. PICK v \in DOMAIN wire[e] : /\ wire'[e][k] = wire[e][v]
                                      /\ v = (IF e = c THEN k+1 ELSE k) /\ k \in Nat
      BY <2>2
    <3>3. d = e /\ u = v
      BY <3>1, <3>2 DEF SpusApart, RunOnce
    <3>4. QED
      BY <3>1, <3>2, <3>3
  <2>4. CASE Run(c)
    <3>1. PICK n \in Managers : /\ mpc[n] = "off"
                                /\ mpc' = [mpc EXCEPT ![n] = "search"]
                                /\ spuOf' = [spuOf EXCEPT ![n] = wire[c][1].spu]
      BY <2>1, <2>4 DEF Run
    <3>2. wire[c][1].kind = "run"
      BY <2>1, <2>4 DEF Run, Handle
    <3>3. \A m \in Managers : /\ mpc'[m] = (IF m = n THEN "search" ELSE mpc[m])
                               /\ spuOf'[m] = (IF m = n THEN wire[c][1].spu ELSE spuOf[m])
      BY <3>1 DEF Typing, ManagerTypes
    <3>4. \A m \in Managers : Started(m) => spuOf[m] # wire[c][1].spu
      BY <2>1, <3>2 DEF SpusApart
    <3>5. \A l, m \in Managers : Started(l)' /\ Started(m)' /\ spuOf'[l] = spuOf'[m] => l = m
      BY <3>3, <3>4 DEF SpusApart
    <3>6. ASSUME NEW d \in Senders, NEW k \in DOMAIN wire'[d], wire'[d][k].kind = "run",
                 NEW m \in Managers, Started(m)'
          PROVE  spuOf'[m] # wire'[d][k].spu
      <4>1. PICK u \in DOMAIN wire[d] : /\ wire'[d][k] = wire[d][u]
                                        /\ u = (IF d = c THEN k+1 ELSE k) /\ k \in Nat \ {0}
        BY <2>2
      <4>2. ~(d = c /\ u = 1)
        BY <4>1
      <4>3. wire[d][u].spu # wire[c][1].spu
        BY <2>1, <3>2, <3>6, <4>1, <4>2 DEF SpusApart, RunOnce
      <4>4. QED
        BY <3>3, <3>6, <4>1, <4>3 DEF SpusApart
    <3>7. QED
      BY <2>3, <3>5, <3>6 DEF SpusApart
  <2>5. CASE ~Run(c)
    <3>1. UNCHANGED managers
      BY <1>2, <2>5 DEF HandlerStep, Status, Load, RunFails, ParamFree, SeqHeader, ChunkFind,
         ChunkDrop
    <3>2. ASSUME NEW d \in Senders, NEW k \in DOMAIN wire'[d], wire'[d][k].kind = "run",
                 NEW m \in Managers, Started(m)
          PROVE  spuOf[m] # wire'[d][k].spu
      BY <2>2, <3>2 DEF SpusApart
    <3>3. QED
      BY <2>3, <3>1, <3>2 DEF SpusApart, managers
  <2>6. QED
    BY <2>4, <2>5
<1>3. CASE \/ ParamErase \/ ParamAlloc \/ ParamAllocFails \/ ParamFill
           \/ SeqEntry \/ ChunkFill
  BY <1>1, <1>3 DEF ParamErase, ParamAlloc, ParamAllocFails, ParamFill, ioFrame, SeqEntry,
     ChunkFill, managers
<1>4. ASSUME NEW m \in Managers, Manage(m) PROVE SpusApart'
  <2>1. UNCHANGED <<wire, spuOf>>
    BY <1>4 DEF Manage, Search, Lookup, LookupFails, Process, Astray, Advance, MGoto, ioVars,
       managers
  <2>2. \A n \in Managers : Started(n)' => Started(n)
    BY <1>4 DEF Manage, Search, Lookup, LookupFails, Process, Astray, Advance, MGoto, managers,
       Typing, ManagerTypes
  <2>3. QED
    BY <1>1, <2>1, <2>2
<1>5. CASE (\E c \in Senders : SendFind(c) \/ SendWrite(c)) \/ UNCHANGED serverVars
  BY <1>1, <1>5 DEF SendFind, SendWrite, ioVars, managers, serverVars
<1>6. QED
  BY <1>2, <1>3, <1>4, <1>5, StepKinds DEF OtherStep
-----------------------------------------------------------------------------
(* The wires of orderly clients are orderly at first.                      *)
LEMMA InitOrderly == ASSUME OrderlyClients, ServerInit PROVE Orderly
<1> USE ServerNamesAssumption DEF ServerInit
<1>1. /\ wire \in Scripts /\ SetUpFirst(wire) /\ SetUpOnce(wire)
      /\ PlainSequences(wire) /\ RunOnce(wire)
  BY DEF OrderlyClients
<1>2. \A q \in SeqIds : seqs[q] = <<>> /\ ~Adding(q)
  BY DEF Adding
<1>3. params[Zero] = Null /\ ~Filling /\ ~Erasing(Zero)
  BY DEF Filling, Erasing, Allocation
<1>4. WiresOrderly
  <2>1. ASSUME NEW c \in Senders, NEW k \in DOMAIN wire[c], wire[c][k].kind = "chunk"
        PROVE  Ahead(wire[c], k)
    BY <1>1, <2>1 DEF SetUpFirst, Ahead, MaskAhead, SequenceAhead, IsMask, IsSequence
  <2>2. QED
    BY <1>1, <1>2, <1>3, <2>1 DEF WiresOrderly
<1>5. SequencesPlain
  <2>1. Plain(<<>>)
    BY DEF Plain
  <2>2. QED
    BY <1>2, <2>1 DEF SequencesPlain
<1>6. MaskFilled
  BY <1>3 DEF MaskFilled
<1>7. \A i \in Slots : ~Occupied(i) /\ owner[i] = NoThread /\ place[i] # "WORKING"
  BY DEF Init, Occupied
<1>8. ChunksReady /\ ManagersAtWork /\ TrailsRight
  BY <1>7, Stations DEF ChunksReady, ManagersAtWork, TrailsRight, Rounds
<1>10. SpusApart
  BY <1>1 DEF SpusApart, Started
<1>9. QED
  BY <1>4, <1>5, <1>6, <1>8, <1>10 DEF Orderly

(* So they are always, and the chunks with them.                           *)
LEMMA AlwaysOrderly == OrderlyClients => (ServerSpec => [](Typing /\ Orderly))
<1> SUFFICES ASSUME OrderlyClients PROVE ServerSpec => [](Typing /\ Orderly)
  OBVIOUS
<1>1. ServerInit => Typing /\ Orderly
  BY InitTyping, InitOrderly
<1>2. (Typing /\ Orderly) /\ [ServerNext]_serverVars => (Typing /\ Orderly)'
  <2> SUFFICES ASSUME Typing, Orderly, [ServerNext]_serverVars PROVE (Typing /\ Orderly)'
    OBVIOUS
  <2>1. /\ WiresOrderly /\ SequencesPlain /\ MaskFilled /\ ChunksReady /\ ManagersAtWork
        /\ SpusApart /\ TrailsRight
    BY DEF Orderly
  <2>2. Typing'
    BY TypingStep
  <2>3. WiresOrderly' /\ SequencesPlain' /\ MaskFilled'
    BY <2>1, WiresOrderlyStep, SequencesPlainStep, MaskFilledStep
  <2>4. ChunksReady' /\ ManagersAtWork' /\ SpusApart' /\ TrailsRight'
    BY <2>1, ChunksReadyStep, ManagersStep, SpusApartStep, ApartAlone, TrailsStep
  <2>5. QED
    BY <2>2, <2>3, <2>4 DEF Orderly
<1>3. QED
  BY <1>1, <1>2, PTL DEF ServerSpec

(* The server of orderly clients forgets no chunk.                         *)
THEOREM Remembered == OrderlyClients => (ServerSpec => []NeverForgotten)
<1> SUFFICES ASSUME OrderlyClients PROVE ServerSpec => []NeverForgotten
  OBVIOUS
<1>1. Typing /\ Orderly => NeverForgotten
  BY DEF Orderly, ManagersAtWork, NeverForgotten, Owns
<1>2. QED
  BY <1>1, AlwaysOrderly, PTL

(* No SPU of it reads a parameter block that was freed or is not filled.   *)
THEOREM BlocksReady == OrderlyClients => (ServerSpec => []ParametersReady)
<1> SUFFICES ASSUME OrderlyClients PROVE ServerSpec => []ParametersReady
  OBVIOUS
<1>1. Typing /\ Orderly => ParametersReady
  <2> SUFFICES ASSUME Typing, Orderly, NEW m \in Managers, mpc[m] = "process"
               PROVE  heap[ptr[m]] \notin {"free", "raw"}
    BY DEF ParametersReady
  <2>1. PICK i \in Slots : owner[i] = m
    BY DEF Typing, Holders, Holding, Owns
  <2>2. Occupied(i)
    BY <2>1, Stations DEF Typing, SlotTypes, Occupied
  <2>3. params[Zero] # Null /\ ~Filling /\ ptr[m] = params[Zero]
    BY <2>2 DEF Orderly, ChunksReady, Ready, ManagersAtWork
  <2>4. heap[ptr[m]] \in Masks
    BY <2>3 DEF Orderly, MaskFilled
  <2>5. QED
    BY <2>4, ServerNamesAssumption
<1>2. QED
  BY <1>1, AlwaysOrderly, PTL

(* What it sends back has gone once through every entry of its sequence,   *)
(* in order.                                                               *)
THEOREM Processed == OrderlyClients => (ServerSpec => []DeliveredProcessed)
<1> SUFFICES ASSUME OrderlyClients PROVE ServerSpec => []DeliveredProcessed
  OBVIOUS
<1>1. Typing /\ Orderly => DeliveredProcessed
  <2> SUFFICES ASSUME Typing, Orderly, NEW c \in Senders, NEW k \in DOMAIN out[c],
                      out[c][k].kind = "chunk"
               PROVE  out[c][k].trail = [e \in DOMAIN seqs[out[c][k].seq] |->
                                           heap[params[seqs[out[c][k].seq][e].param]]]
    BY DEF DeliveredProcessed
  <2>1. PICK ch : ch = out[c][k]
    OBVIOUS
  <2>2. ch.seq \in SeqIds /\ ch.trail = Trail(Len(seqs[ch.seq]))
    BY <2>1 DEF Orderly, ChunksReady, TrailsRight
  <2>3. /\ DOMAIN seqs[ch.seq] = 1 .. Len(seqs[ch.seq])
        /\ \A e \in DOMAIN seqs[ch.seq] : seqs[ch.seq][e].param = Zero
    BY <2>2 DEF Typing, TableTypes, Orderly, SequencesPlain, Plain
  <2>4. ch.trail = [e \in DOMAIN seqs[ch.seq] |-> heap[params[seqs[ch.seq][e].param]]]
    BY <2>2, <2>3 DEF Trail
  <2>5. QED
    BY <2>1, <2>4
<1>2. QED
  BY <1>1, AlwaysOrderly, PTL
=============================================================================
