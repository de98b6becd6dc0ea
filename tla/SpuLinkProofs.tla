---------------------------- MODULE SpuLinkProofs ----------------------------
(***************************************************************************)
(* Proofs about SpuLink for every number of SPUs, managers, chunks and     *)
(* parameters, as long as no SPU has two managers.                         *)
(***************************************************************************)
EXTENDS SpuLink, TLAPS

(* The link of manager m, by the place of m: nothing is under way until m  *)
(* has posted its message, and then exactly one of the two mailboxes and   *)
(* the SPU program has the job.                                            *)
Quiet(s) == inbox[s] = 0 /\ outbox[s] = 0 /\ spc[s] \in {"boot", "mbox"}

Filled(m) ==
  /\ pc[m] \in {"param", "post", "wait"} => cb[SpuOf[m]].data = chunk[m]
  /\ pc[m] \in {"post", "wait"} => cb[SpuOf[m]].param0 = param[m]

Fetched(m) ==
  LET s == SpuOf[m] IN
    /\ spc[s] \in {"param", "get", "put", "answer"} => local[s] = cb[s]
    /\ spc[s] \in {"get", "put"} => mask[s] = param[m]
    /\ spc[s] = "put" => input[s] = <<>>

UnderWay(m) ==
  LET s == SpuOf[m] IN
    \/ /\ inbox[s] = 1 /\ outbox[s] = 0 /\ spc[s] \in {"boot", "mbox"}
       /\ work[chunk[m]] = <<>>
    \/ /\ inbox[s] = 0 /\ outbox[s] = 0
       /\ spc[s] \in {"block", "param", "get", "put"}
       /\ work[chunk[m]] = <<>>
    \/ /\ inbox[s] = 0 /\ outbox[s] = 0 /\ spc[s] = "answer"
       /\ work[chunk[m]] = <<param[m]>>
    \/ /\ inbox[s] = 0 /\ outbox[s] = 1 /\ spc[s] = "mbox"
       /\ work[chunk[m]] = <<param[m]>>

Link(m) ==
  /\ pc[m] = "search" <=> chunk[m] = NoChunk
  /\ pc[m] # "wait" => Quiet(SpuOf[m])
  /\ pc[m] \in {"data", "param", "post"} => work[chunk[m]] = <<>>
  /\ pc[m] = "wait" => UnderWay(m) /\ Fetched(m)
  /\ Filled(m)

(* The buffer gives a chunk to one manager.                                *)
Exclusive ==
  \A m, k \in Managers : m # k /\ chunk[m] \in Chunks => chunk[k] # chunk[m]

(* An SPU without a manager has nothing to do.                             *)
Unused == \A s \in Spus : (\A m \in Managers : SpuOf[m] # s) => Quiet(s)

IInv == TypeOK /\ (\A m \in Managers : Link(m)) /\ Exclusive /\ Unused
-----------------------------------------------------------------------------
(* The link of a manager is not disturbed by steps elsewhere.              *)
Untouched(m) ==
  LET s == SpuOf[m] IN
    /\ pc'[m] = pc[m] /\ chunk'[m] = chunk[m] /\ param'[m] = param[m]
    /\ cb'[s] = cb[s] /\ inbox'[s] = inbox[s] /\ outbox'[s] = outbox[s]
    /\ spc'[s] = spc[s] /\ local'[s] = local[s]
    /\ mask'[s] = mask[s] /\ input'[s] = input[s]
    /\ chunk[m] \in Chunks => work'[chunk[m]] = work[chunk[m]]

(* The link of a manager survives every step that leaves its parts alone.  *)
LEMMA Frame ==
  ASSUME IInv, NEW m \in Managers, Untouched(m)
  PROVE  Link(m)'
<1>1. chunk[m] \notin Chunks => pc[m] = "search"
  BY DEF IInv, TypeOK, Link
<1>2. Quiet(SpuOf[m])' <=> Quiet(SpuOf[m])
  BY DEF Untouched, Quiet
<1>3. Filled(m)' <=> Filled(m)
  BY DEF Untouched, Filled
<1>4. Fetched(m)' <=> Fetched(m)
  BY DEF Untouched, Fetched
<1>5. ASSUME chunk[m] \in Chunks PROVE UnderWay(m)' <=> UnderWay(m)
  BY <1>5 DEF Untouched, UnderWay
<1>6. QED
  BY <1>1, <1>2, <1>3, <1>4, <1>5 DEF IInv, Link, Untouched

(* The invariant holds when nothing has been started.                      *)
LEMMA InitIInv == Init => IInv
<1> SUFFICES ASSUME Init PROVE IInv
  OBVIOUS
<1>1. TypeOK
  BY DEF Init, TypeOK, InboxSize, OutboxSize
<1>2. \A m \in Managers : Link(m)
  BY SpuOfAssumption DEF Init, Link, Quiet, Filled
<1>3. Exclusive /\ Unused
  BY NoChunkAssumption DEF Init, Exclusive, Unused, Quiet
<1>4. QED
  BY <1>1, <1>2, <1>3 DEF IInv
-----------------------------------------------------------------------------
(* Steps of a manager.  Its own link changes, those of the others do not:  *)
(* they use another SPU and another chunk.                                 *)
LEMMA Others ==
  ASSUME OneManagerPerSpu, IInv, NEW m \in Managers, Manage(m)
  PROVE  \A k \in Managers \ {m} : Link(k)'
<1> SUFFICES ASSUME NEW k \in Managers, k # m PROVE Untouched(k)
  BY Frame
<1>1. SpuOf[k] # SpuOf[m] /\ SpuOf[k] \in Spus /\ SpuOf[m] \in Spus
  BY SpuOfAssumption DEF OneManagerPerSpu
<1>2. UNCHANGED spuVars
  BY DEF Manage, Find, SetData, SetParam, Post, Collect
<1>3. pc'[k] = pc[k] /\ chunk'[k] = chunk[k] /\ param'[k] = param[k]
  BY DEF Manage, Find, SetData, SetParam, Post, Collect, Goto, IInv, TypeOK
<1>4. /\ cb'[SpuOf[k]] = cb[SpuOf[k]]
      /\ inbox'[SpuOf[k]] = inbox[SpuOf[k]]
      /\ outbox'[SpuOf[k]] = outbox[SpuOf[k]]
  BY <1>1 DEF Manage, Find, SetData, SetParam, Post, Collect, IInv, TypeOK
<1>5. chunk[k] \in Chunks => work'[chunk[k]] = work[chunk[k]]
  BY DEF Manage, Find, SetData, SetParam, Post, Collect, IInv, TypeOK
<1>6. QED
  BY <1>2, <1>3, <1>4, <1>5 DEF Untouched, spuVars

(* Finding a chunk preserves the invariant.                                *)
LEMMA FindStep ==
  ASSUME OneManagerPerSpu, IInv,
         NEW m \in Managers, NEW c \in Chunks, NEW p \in Params, Find(m, c, p)
  PROVE  IInv'
<1> USE DEF IInv, Find, Goto
<1>1. TypeOK'
  BY DEF TypeOK, spuVars
<1>2. Link(m)'
  BY SpuOfAssumption, NoChunkAssumption
     DEF TypeOK, spuVars, Link, Quiet, Filled
<1>3. \A k \in Managers \ {m} : Link(k)'
  BY Others DEF Manage
<1>4. Exclusive' /\ Unused'
  BY NoChunkAssumption DEF TypeOK, spuVars, Exclusive, Unused, Quiet
<1>5. QED
  BY <1>1, <1>2, <1>3, <1>4

(* Writing the address of the chunk preserves the invariant.               *)
LEMMA SetDataStep ==
  ASSUME OneManagerPerSpu, IInv, NEW m \in Managers, SetData(m)
  PROVE  IInv'
<1> USE DEF IInv, SetData, Goto
<1>0. SpuOf[m] \in Spus /\ chunk[m] \in Chunks
  BY SpuOfAssumption DEF TypeOK, Link
<1>1. TypeOK'
  BY <1>0 DEF TypeOK, spuVars, ControlBlock
<1>2. Link(m)'
  BY <1>0 DEF TypeOK, spuVars, ControlBlock, Link, Quiet, Filled
<1>3. \A k \in Managers \ {m} : Link(k)'
  BY Others DEF Manage
<1>4. Exclusive' /\ Unused'
  BY DEF TypeOK, spuVars, Exclusive, Unused, Quiet
<1>5. QED
  BY <1>1, <1>2, <1>3, <1>4

(* Writing the address of the parameter preserves the invariant.           *)
LEMMA SetParamStep ==
  ASSUME OneManagerPerSpu, IInv, NEW m \in Managers, SetParam(m)
  PROVE  IInv'
<1> USE DEF IInv, SetParam, Goto
<1>0. SpuOf[m] \in Spus
  BY SpuOfAssumption
<1>1. TypeOK'
  BY <1>0 DEF TypeOK, spuVars, ControlBlock
<1>2. Link(m)'
  BY <1>0 DEF TypeOK, spuVars, ControlBlock, Link, Quiet, Filled
<1>3. \A k \in Managers \ {m} : Link(k)'
  BY Others DEF Manage
<1>4. Exclusive' /\ Unused'
  BY DEF TypeOK, spuVars, Exclusive, Unused, Quiet
<1>5. QED
  BY <1>1, <1>2, <1>3, <1>4

(* Posting the message preserves the invariant.                            *)
LEMMA PostStep ==
  ASSUME OneManagerPerSpu, IInv, NEW m \in Managers, Post(m)
  PROVE  IInv'
<1> USE DEF IInv, Post, Goto
<1>0. SpuOf[m] \in Spus
  BY SpuOfAssumption
<1>1. TypeOK'
  <2>0. inbox[SpuOf[m]] \in 0 .. InboxSize /\ inbox[SpuOf[m]] < InboxSize
    BY <1>0 DEF TypeOK
  <2>1. inbox[SpuOf[m]] + 1 \in 0 .. InboxSize
    BY <2>0 DEF InboxSize
  <2>2. inbox' \in [Spus -> 0 .. InboxSize]
    BY <2>1 DEF TypeOK
  <2>3. QED
    BY <2>2 DEF TypeOK, spuVars
<1>2. Link(m)'
  <2>1. Quiet(SpuOf[m]) /\ work[chunk[m]] = <<>> /\ Filled(m)
    BY DEF Link
  <2>2. UnderWay(m)' /\ Fetched(m)'
    BY <1>0, <2>1 DEF TypeOK, spuVars, Quiet, UnderWay, Fetched
  <2>3. QED
    BY <1>0, <2>1, <2>2 DEF TypeOK, Link, Filled
<1>3. \A k \in Managers \ {m} : Link(k)'
  BY Others DEF Manage
<1>4. Exclusive'
  BY DEF Exclusive
<1>5. Unused'
  BY <1>0 DEF TypeOK, spuVars, Unused, Quiet
<1>6. QED
  BY <1>1, <1>2, <1>3, <1>4, <1>5

(* Reading the answer and giving up the chunk preserves the invariant.     *)
LEMMA CollectStep ==
  ASSUME OneManagerPerSpu, IInv, NEW m \in Managers, Collect(m)
  PROVE  IInv'
<1> USE DEF IInv, Collect, Goto
<1>0. SpuOf[m] \in Spus
  BY SpuOfAssumption
<1>1. TypeOK'
  BY <1>0 DEF TypeOK, spuVars, OutboxSize
<1>2. Link(m)'
  <2>1. UnderWay(m)
    BY DEF Link
  <2>2. Quiet(SpuOf[m])'
    BY <1>0, <2>1 DEF TypeOK, spuVars, Quiet, UnderWay
  <2>3. QED
    BY <1>0, <2>2 DEF TypeOK, Link, Filled
<1>3. \A k \in Managers \ {m} : Link(k)'
  BY Others DEF Manage
<1>4. Exclusive'
  BY NoChunkAssumption DEF TypeOK, Exclusive
<1>5. Unused'
  BY <1>0 DEF TypeOK, spuVars, Unused, Quiet
<1>6. QED
  BY <1>1, <1>2, <1>3, <1>4, <1>5
-----------------------------------------------------------------------------
(* Steps of an SPU program.  When it is not idle, it has one manager, and  *)
(* that manager waits.                                                     *)
SpuStep(s) ==
  /\ UNCHANGED <<mgrVars, cb>>
  /\ \A r \in Spus \ {s} :
       /\ inbox'[r] = inbox[r] /\ outbox'[r] = outbox[r]
       /\ spc'[r] = spc[r] /\ local'[r] = local[r]
       /\ mask'[r] = mask[r] /\ input'[r] = input[r]
  /\ \A c \in Chunks : c # local[s].data => work'[c] = work[c]

(* A step of an SPU program disturbs nothing that belongs to another SPU.  *)
LEMMA RunIsSpuStep ==
  ASSUME IInv, NEW s \in Spus, Run(s)
  PROVE  SpuStep(s)
<1>1. UNCHANGED <<mgrVars, cb>>
  BY DEF Run, Boot, ReadMailbox, GetControlBlock, GetParam, GetChunk,
     PutChunk, Answer
<1>2. ASSUME NEW r \in Spus \ {s}
      PROVE  /\ inbox'[r] = inbox[r] /\ outbox'[r] = outbox[r]
             /\ spc'[r] = spc[r] /\ local'[r] = local[r]
             /\ mask'[r] = mask[r] /\ input'[r] = input[r]
  BY DEF Run, Boot, ReadMailbox, GetControlBlock, GetParam, GetChunk,
     PutChunk, Answer, SpuGoto, IInv, TypeOK
<1>3. \A c \in Chunks : c # local[s].data => work'[c] = work[c]
  BY DEF Run, Boot, ReadMailbox, GetControlBlock, GetParam, GetChunk,
     PutChunk, Answer, IInv, TypeOK
<1>4. QED
  BY <1>1, <1>2, <1>3 DEF SpuStep

(* The manager of a busy SPU.                                              *)
LEMMA Busy ==
  ASSUME OneManagerPerSpu, IInv, NEW s \in Spus, ~Quiet(s)
  PROVE  \E m \in Managers :
           /\ SpuOf[m] = s
           /\ pc[m] = "wait"
           /\ chunk[m] \in Chunks
           /\ UnderWay(m) /\ Fetched(m) /\ Filled(m)
<1>1. PICK m \in Managers : SpuOf[m] = s
  BY DEF IInv, Unused
<1>2. pc[m] = "wait"
  BY <1>1 DEF IInv, Link
<1>3. chunk[m] \in Chunks
  BY <1>2 DEF IInv, TypeOK, Link
<1>4. QED
  BY <1>1, <1>2, <1>3 DEF IInv, Link

(* A step of an SPU disturbs neither the links of the others nor the       *)
(* bookkeeping.                                                            *)
LEMMA SpuFrame ==
  ASSUME OneManagerPerSpu, IInv, NEW s \in Spus, SpuStep(s), TypeOK',
         NEW m \in Managers, SpuOf[m] = s, Link(m)',
         local[s].data = chunk[m] \/ UNCHANGED work
  PROVE  IInv'
<1>1. ASSUME NEW k \in Managers, k # m PROVE Link(k)'
  <2>1. SpuOf[k] \in Spus \ {s}
    BY <1>1, SpuOfAssumption DEF OneManagerPerSpu
  <2>2. chunk[k] \in Chunks => work'[chunk[k]] = work[chunk[k]]
    BY <1>1 DEF IInv, Exclusive, SpuStep
  <2>3. Untouched(k)
    BY <2>1, <2>2 DEF SpuStep, mgrVars, Untouched
  <2>4. QED
    BY <2>3, Frame
<1>2. Exclusive'
  BY DEF IInv, Exclusive, SpuStep, mgrVars
<1>3. Unused'
  BY DEF IInv, Unused, Quiet, SpuStep
<1>4. QED
  BY <1>1, <1>2, <1>3 DEF IInv

(* The first fetch of the control block preserves the invariant.           *)
LEMMA BootStep ==
  ASSUME OneManagerPerSpu, IInv, NEW s \in Spus, Boot(s)
  PROVE  IInv'
<1> USE DEF Boot, SpuGoto
<1>1. TypeOK'
  BY DEF IInv, TypeOK, mgrVars
<1>2. SpuStep(s)
  BY RunIsSpuStep DEF Run
<1>3. ASSUME NEW m \in Managers, SpuOf[m] = s PROVE Link(m)'
  <2>1. UNCHANGED <<pc, chunk, param, cb, inbox, outbox, mask, input, work>>
    BY DEF mgrVars
  <2>2. spc[s] = "boot" /\ spc'[s] = "mbox"
    BY DEF IInv, TypeOK
  <2>3. Link(m)
    BY DEF IInv
  <2>4. CASE pc[m] = "wait"
    BY <1>3, <2>1, <2>2, <2>3, <2>4 DEF Link, Filled, UnderWay, Fetched
  <2>5. CASE pc[m] # "wait"
    BY <1>3, <2>1, <2>2, <2>3, <2>5 DEF Link, Filled, Quiet
  <2>6. QED
    BY <2>4, <2>5
<1>4. CASE \E m \in Managers : SpuOf[m] = s
  BY <1>1, <1>2, <1>3, <1>4, SpuFrame
<1>5. CASE \A m \in Managers : SpuOf[m] # s
  <2>1. \A k \in Managers : Untouched(k)
    BY <1>2, <1>5, SpuOfAssumption DEF SpuStep, mgrVars, Untouched
  <2>2. Exclusive' /\ Unused'
    BY DEF IInv, TypeOK, Exclusive, Unused, Quiet, mgrVars
  <2>3. QED
    BY <1>1, <2>1, <2>2, Frame DEF IInv
<1>6. QED
  BY <1>4, <1>5

(* The message is taken from the inbound mailbox.                          *)
LEMMA ReadMailboxStep ==
  ASSUME OneManagerPerSpu, IInv, NEW s \in Spus, ReadMailbox(s)
  PROVE  IInv'
<1> USE DEF ReadMailbox, SpuGoto
<1>1. TypeOK'
  BY DEF IInv, TypeOK, mgrVars, InboxSize
<1>2. SpuStep(s)
  BY RunIsSpuStep DEF Run
<1>3. PICK m \in Managers : /\ SpuOf[m] = s
                            /\ pc[m] = "wait"
                            /\ chunk[m] \in Chunks
                            /\ UnderWay(m) /\ Fetched(m) /\ Filled(m)
  <2>1. ~Quiet(s)
    BY DEF Quiet
  <2>2. QED
    BY <2>1, Busy
<1>4. UNCHANGED <<pc, chunk, param, cb>>
  BY DEF mgrVars
<1>5. Filled(m)'
  BY <1>3, <1>4 DEF Filled
<1>6. Fetched(m)'
  BY <1>3, <1>4 DEF Fetched, Filled, UnderWay, IInv, TypeOK, ControlBlock
<1>7. UnderWay(m)'
  BY <1>3, <1>4 DEF UnderWay, Fetched, Filled, IInv, TypeOK
<1>8. Link(m)'
  BY <1>3, <1>4, <1>5, <1>6, <1>7, NoChunkAssumption DEF Link
<1>9. local[s].data = chunk[m] \/ UNCHANGED work
  BY <1>3 DEF Fetched, Filled
<1>10. QED
  BY <1>1, <1>2, <1>3, <1>8, <1>9, SpuFrame

(* The control block is that of the waiting manager.                       *)
LEMMA GetControlBlockStep ==
  ASSUME OneManagerPerSpu, IInv, NEW s \in Spus, GetControlBlock(s)
  PROVE  IInv'
<1> USE DEF GetControlBlock, SpuGoto
<1>1. TypeOK'
  BY DEF IInv, TypeOK, mgrVars
<1>2. SpuStep(s)
  BY RunIsSpuStep DEF Run
<1>3. PICK m \in Managers : /\ SpuOf[m] = s
                            /\ pc[m] = "wait"
                            /\ chunk[m] \in Chunks
                            /\ UnderWay(m) /\ Fetched(m) /\ Filled(m)
  <2>1. ~Quiet(s)
    BY DEF Quiet
  <2>2. QED
    BY <2>1, Busy
<1>4. UNCHANGED <<pc, chunk, param, cb>>
  BY DEF mgrVars
<1>5. Filled(m)'
  BY <1>3, <1>4 DEF Filled
<1>6. Fetched(m)'
  BY <1>3, <1>4 DEF Fetched, Filled, UnderWay, IInv, TypeOK, ControlBlock
<1>7. UnderWay(m)'
  BY <1>3, <1>4 DEF UnderWay, Fetched, Filled, IInv, TypeOK
<1>8. Link(m)'
  BY <1>3, <1>4, <1>5, <1>6, <1>7, NoChunkAssumption DEF Link
<1>9. local[s].data = chunk[m] \/ UNCHANGED work
  BY <1>3 DEF Fetched, Filled
<1>10. QED
  BY <1>1, <1>2, <1>3, <1>8, <1>9, SpuFrame

(* The parameter is that of the waiting manager.                           *)
LEMMA GetParamStep ==
  ASSUME OneManagerPerSpu, IInv, NEW s \in Spus, GetParam(s)
  PROVE  IInv'
<1> USE DEF GetParam, SpuGoto
<1>1. TypeOK'
  BY DEF IInv, TypeOK, mgrVars, ControlBlock
<1>2. SpuStep(s)
  BY RunIsSpuStep DEF Run
<1>3. PICK m \in Managers : /\ SpuOf[m] = s
                            /\ pc[m] = "wait"
                            /\ chunk[m] \in Chunks
                            /\ UnderWay(m) /\ Fetched(m) /\ Filled(m)
  <2>1. ~Quiet(s)
    BY DEF Quiet
  <2>2. QED
    BY <2>1, Busy
<1>4. UNCHANGED <<pc, chunk, param, cb>>
  BY DEF mgrVars
<1>5. Filled(m)'
  BY <1>3, <1>4 DEF Filled
<1>6. Fetched(m)'
  BY <1>3, <1>4 DEF Fetched, Filled, UnderWay, IInv, TypeOK, ControlBlock
<1>7. UnderWay(m)'
  BY <1>3, <1>4 DEF UnderWay, Fetched, Filled, IInv, TypeOK
<1>8. Link(m)'
  BY <1>3, <1>4, <1>5, <1>6, <1>7, NoChunkAssumption DEF Link
<1>9. local[s].data = chunk[m] \/ UNCHANGED work
  BY <1>3 DEF Fetched, Filled
<1>10. QED
  BY <1>1, <1>2, <1>3, <1>8, <1>9, SpuFrame

(* The chunk is that of the waiting manager, not yet processed.            *)
LEMMA GetChunkStep ==
  ASSUME OneManagerPerSpu, IInv, NEW s \in Spus, GetChunk(s)
  PROVE  IInv'
<1> USE DEF GetChunk, SpuGoto
<1>1. TypeOK'
  BY DEF IInv, TypeOK, mgrVars, ControlBlock
<1>2. SpuStep(s)
  BY RunIsSpuStep DEF Run
<1>3. PICK m \in Managers : /\ SpuOf[m] = s
                            /\ pc[m] = "wait"
                            /\ chunk[m] \in Chunks
                            /\ UnderWay(m) /\ Fetched(m) /\ Filled(m)
  <2>1. ~Quiet(s)
    BY DEF Quiet
  <2>2. QED
    BY <2>1, Busy
<1>4. UNCHANGED <<pc, chunk, param, cb>>
  BY DEF mgrVars
<1>5. Filled(m)'
  BY <1>3, <1>4 DEF Filled
<1>6. Fetched(m)'
  BY <1>3, <1>4 DEF Fetched, Filled, UnderWay, IInv, TypeOK, ControlBlock
<1>7. UnderWay(m)'
  BY <1>3, <1>4 DEF UnderWay, Fetched, Filled, IInv, TypeOK
<1>8. Link(m)'
  BY <1>3, <1>4, <1>5, <1>6, <1>7, NoChunkAssumption DEF Link
<1>9. local[s].data = chunk[m] \/ UNCHANGED work
  BY <1>3 DEF Fetched, Filled
<1>10. QED
  BY <1>1, <1>2, <1>3, <1>8, <1>9, SpuFrame

(* The result goes to the chunk of the waiting manager.                    *)
LEMMA PutChunkStep ==
  ASSUME OneManagerPerSpu, IInv, NEW s \in Spus, PutChunk(s)
  PROVE  IInv'
<1> USE DEF PutChunk, SpuGoto
<1>1. TypeOK'
  BY DEF IInv, TypeOK, mgrVars, ControlBlock
<1>2. SpuStep(s)
  BY RunIsSpuStep DEF Run
<1>3. PICK m \in Managers : /\ SpuOf[m] = s
                            /\ pc[m] = "wait"
                            /\ chunk[m] \in Chunks
                            /\ UnderWay(m) /\ Fetched(m) /\ Filled(m)
  <2>1. ~Quiet(s)
    BY DEF Quiet
  <2>2. QED
    BY <2>1, Busy
<1>4. UNCHANGED <<pc, chunk, param, cb>>
  BY DEF mgrVars
<1>5. Filled(m)'
  BY <1>3, <1>4 DEF Filled
<1>6. Fetched(m)'
  BY <1>3, <1>4 DEF Fetched, Filled, UnderWay, IInv, TypeOK, ControlBlock
<1>7. UnderWay(m)'
  BY <1>3, <1>4 DEF UnderWay, Fetched, Filled, IInv, TypeOK
<1>8. Link(m)'
  BY <1>3, <1>4, <1>5, <1>6, <1>7, NoChunkAssumption DEF Link
<1>9. local[s].data = chunk[m] \/ UNCHANGED work
  BY <1>3 DEF Fetched, Filled
<1>10. QED
  BY <1>1, <1>2, <1>3, <1>8, <1>9, SpuFrame

(* The answer is put in the empty outbound mailbox.                        *)
LEMMA AnswerStep ==
  ASSUME OneManagerPerSpu, IInv, NEW s \in Spus, Answer(s)
  PROVE  IInv'
<1> USE DEF Answer, SpuGoto
<1>1. TypeOK'
  <2>1. outbox[s] \in 0 .. OutboxSize /\ outbox[s] < OutboxSize
    BY DEF IInv, TypeOK
  <2>2. outbox[s] + 1 \in 0 .. OutboxSize
    BY <2>1 DEF OutboxSize
  <2>3. QED
    BY <2>2 DEF IInv, TypeOK, mgrVars
<1>2. SpuStep(s)
  BY RunIsSpuStep DEF Run
<1>3. PICK m \in Managers : /\ SpuOf[m] = s
                            /\ pc[m] = "wait"
                            /\ chunk[m] \in Chunks
                            /\ UnderWay(m) /\ Fetched(m) /\ Filled(m)
  <2>1. ~Quiet(s)
    BY DEF Quiet
  <2>2. QED
    BY <2>1, Busy
<1>4. UNCHANGED <<pc, chunk, param, cb>>
  BY DEF mgrVars
<1>5. Filled(m)'
  BY <1>3, <1>4 DEF Filled
<1>6. Fetched(m)'
  BY <1>3, <1>4 DEF Fetched, Filled, UnderWay, IInv, TypeOK, ControlBlock
<1>7. UnderWay(m)'
  BY <1>3, <1>4 DEF UnderWay, Fetched, Filled, IInv, TypeOK
<1>8. Link(m)'
  BY <1>3, <1>4, <1>5, <1>6, <1>7, NoChunkAssumption DEF Link
<1>9. local[s].data = chunk[m] \/ UNCHANGED work
  BY <1>3 DEF Fetched, Filled
<1>10. QED
  BY <1>1, <1>2, <1>3, <1>8, <1>9, SpuFrame
-----------------------------------------------------------------------------
(* Every step preserves the invariant: one case per action.                *)
LEMMA NextIInv == OneManagerPerSpu /\ IInv /\ [Next]_linkVars => IInv'
<1> SUFFICES ASSUME OneManagerPerSpu, IInv, [Next]_linkVars
             PROVE  IInv'
  OBVIOUS
<1>1. CASE UNCHANGED linkVars
  <2>1. \A m \in Managers : Link(m)'
    BY <1>1, Frame DEF linkVars, mgrVars, spuVars, Untouched
  <2>2. TypeOK' /\ Exclusive' /\ Unused'
    BY <1>1 DEF linkVars, mgrVars, spuVars, IInv, TypeOK, Exclusive, Unused,
       Quiet
  <2>3. QED
    BY <2>1, <2>2 DEF IInv
<1>2. ASSUME NEW m \in Managers, Manage(m) PROVE IInv'
  BY <1>2, FindStep, SetDataStep, SetParamStep, PostStep, CollectStep
     DEF Manage
<1>3. ASSUME NEW s \in Spus, Run(s) PROVE IInv'
  BY <1>3, BootStep, ReadMailboxStep, GetControlBlockStep, GetParamStep,
     GetChunkStep, PutChunkStep, AnswerStep DEF Run
<1>4. QED
  BY <1>1, <1>2, <1>3 DEF Next

(* With one manager per SPU the link invariant holds for ever.             *)
THEOREM Inductive ==
  ASSUME OneManagerPerSpu
  PROVE  Spec => []IInv
<1>1. IInv /\ [Next]_linkVars => IInv'
  BY NextIInv
<1>2. QED
  BY <1>1, InitIInv, PTL DEF Spec

(* The mailboxes never hold more than they have room for, and the control  *)
(* blocks always name a chunk and a parameter.                             *)
THEOREM Types ==
  ASSUME OneManagerPerSpu
  PROVE  Spec => []TypeOK
<1>1. IInv => TypeOK
  BY DEF IInv
<1>2. QED
  BY <1>1, Inductive, PTL

(* An SPU writes its result only into the chunk of a manager that waits.   *)
THEOREM Writes ==
  ASSUME OneManagerPerSpu
  PROVE  Spec => []WritesOnlyAwaited
<1>1. IInv => WritesOnlyAwaited
  <2> SUFFICES ASSUME IInv, NEW s \in Spus, spc[s] = "put"
               PROVE  \E m \in Managers : /\ SpuOf[m] = s
                                          /\ pc[m] = "wait"
                                          /\ chunk[m] = local[s].data
    BY DEF WritesOnlyAwaited
  <2>1. ~Quiet(s)
    BY DEF Quiet
  <2>2. QED
    BY <2>1, Busy DEF Fetched, Filled
<1>2. QED
  BY <1>1, Inductive, PTL

(* Nobody blocks on a mailbox.                                             *)
THEOREM Mailboxes ==
  ASSUME OneManagerPerSpu
  PROVE  Spec => []MailboxesSuffice
<1>1. IInv => MailboxesSuffice
  <2> SUFFICES ASSUME IInv PROVE MailboxesSuffice
    OBVIOUS
  <2>1. \A m \in Managers : pc[m] = "post" => inbox[SpuOf[m]] = 0
    BY DEF IInv, Link, Quiet
  <2>2. ASSUME NEW s \in Spus, spc[s] = "answer" PROVE outbox[s] = 0
    <3>1. ~Quiet(s)
      BY <2>2 DEF Quiet
    <3>2. QED
      BY <2>2, <3>1, Busy DEF UnderWay
  <2>3. QED
    BY <2>1, <2>2 DEF MailboxesSuffice
<1>2. QED
  BY <1>1, Inductive, PTL

(* A manager that goes on has had its chunk processed, once and with its   *)
(* parameter.                                                              *)
THEOREM Finished ==
  ASSUME OneManagerPerSpu
  PROVE  Spec => FinishedIsProcessed
<1> DEFINE A == \A m \in Managers : Collect(m) => work[chunk[m]] = <<param[m]>>
<1>1. IInv /\ [Next]_linkVars => [A]_linkVars
  BY DEF IInv, Link, UnderWay, Collect, Goto
<1>2. QED
  BY <1>1, Inductive, PTL DEF Spec, FinishedIsProcessed
-----------------------------------------------------------------------------
(* The refinement: what the steps of the link do to the phases.            *)
LEMMA PhaseFrame ==
  ASSUME NEW k \in Managers, Untouched(k)
  PROVE  Phase(k)' = Phase(k)
BY DEF Untouched, Phase

(* Every manager starts idle.                                              *)
LEMMA InitIsInit == Init => Service!Init
BY DEF Init, Service!Init, Phase

(* Finding a chunk is asking for it to be processed.                       *)
LEMMA FindIsAsk ==
  ASSUME OneManagerPerSpu, IInv,
         NEW m \in Managers, NEW c \in Chunks, NEW p \in Params, Find(m, c, p)
  PROVE  Service!Ask(m, c, p)
<1>1. Phase(m) = "idle" /\ Phase(m)' = "asked"
  BY DEF Find, Goto, Phase, IInv, TypeOK
<1>2. ASSUME NEW k \in Managers \ {m} PROVE Phase(k)' = Phase(k)
  BY DEF Find, Goto, Phase, IInv, TypeOK, spuVars
<1>3. QED
  BY <1>1, <1>2 DEF Find, Service!Ask

(* The manager's own preparations are not visible.                         *)
LEMMA PrepareIsStutter ==
  ASSUME OneManagerPerSpu, IInv,
         NEW m \in Managers, SetData(m) \/ SetParam(m) \/ Post(m)
  PROVE  UNCHANGED Service!serviceVars
<1>1. UNCHANGED <<chunk, param, work, outbox, spc>>
  BY DEF SetData, SetParam, Post, spuVars
<1>2. pc[m] \in {"data", "param", "post"} /\ pc'[m] \in {"param", "post", "wait"}
  BY DEF SetData, SetParam, Post, Goto, IInv, TypeOK
<1>3. Quiet(SpuOf[m])
  BY <1>2 DEF IInv, Link
<1>4. Phase(m)' = Phase(m)
  BY <1>1, <1>2, <1>3 DEF Phase, Quiet
<1>5. ASSUME NEW k \in Managers \ {m} PROVE Phase(k)' = Phase(k)
  <2>1. pc'[k] = pc[k]
    BY DEF SetData, SetParam, Post, Goto, IInv, TypeOK
  <2>2. QED
    BY <1>1, <2>1 DEF Phase
<1>6. QED
  BY <1>1, <1>4, <1>5 DEF Service!serviceVars

(* The manager hears of the answer and gives the chunk up.                 *)
LEMMA CollectIsFinish ==
  ASSUME OneManagerPerSpu, IInv, NEW m \in Managers, Collect(m)
  PROVE  Service!Finish(m)
<1>1. Phase(m) = "served" /\ Phase(m)' = "idle"
  BY DEF Collect, Goto, Phase, IInv, TypeOK
<1>2. ASSUME NEW k \in Managers \ {m} PROVE Phase(k)' = Phase(k)
  <2>1. SpuOf[k] # SpuOf[m] /\ SpuOf[k] \in Spus
    BY SpuOfAssumption DEF OneManagerPerSpu
  <2>2. pc'[k] = pc[k] /\ outbox'[SpuOf[k]] = outbox[SpuOf[k]] /\ UNCHANGED spc
    BY <2>1 DEF Collect, Goto, IInv, TypeOK, spuVars
  <2>3. QED
    BY <2>2 DEF Phase
<1>3. QED
  BY <1>1, <1>2 DEF Collect, Service!Finish

(* The SPU serves its manager when it writes the result back.              *)
LEMMA PutIsServe ==
  ASSUME OneManagerPerSpu, IInv, NEW s \in Spus, PutChunk(s)
  PROVE  \E m \in Managers : Service!Serve(m)
<1>1. PICK m \in Managers : /\ SpuOf[m] = s
                            /\ pc[m] = "wait"
                            /\ chunk[m] \in Chunks
                            /\ UnderWay(m) /\ Fetched(m) /\ Filled(m)
  <2>1. ~Quiet(s)
    BY DEF PutChunk, SpuGoto, Quiet
  <2>2. QED
    BY <2>1, Busy
<1>2. /\ UNCHANGED <<pc, chunk, param, outbox>>
      /\ spc[s] = "put" /\ spc' = [spc EXCEPT ![s] = "answer"]
  BY DEF PutChunk, SpuGoto, mgrVars
<1>3. Phase(m) = "asked" /\ Phase(m)' = "served"
  BY <1>1, <1>2 DEF Phase, UnderWay, IInv, TypeOK
<1>4. ASSUME NEW k \in Managers \ {m} PROVE Phase(k)' = Phase(k)
  <2>1. SpuOf[k] # s
    BY <1>1 DEF OneManagerPerSpu
  <2>2. spc'[SpuOf[k]] = spc[SpuOf[k]]
    BY <1>2, <2>1, SpuOfAssumption DEF IInv, TypeOK
  <2>3. QED
    BY <1>2, <2>2 DEF Phase
<1>5. work' = [work EXCEPT ![chunk[m]] = <<param[m]>>]
  <2>1. local[s].data = chunk[m] /\ input[s] = <<>> /\ mask[s] = param[m]
    BY <1>1, <1>2 DEF Fetched, Filled
  <2>2. Append(<<>>, param[m]) = <<param[m]>>
    OBVIOUS
  <2>3. QED
    BY <2>1, <2>2 DEF PutChunk
<1>6. QED
  BY <1>2, <1>3, <1>4, <1>5 DEF Service!Serve

(* The other steps of the SPU are not visible.                             *)
LEMMA RunIsStutter ==
  ASSUME OneManagerPerSpu, IInv, NEW s \in Spus, Run(s), ~PutChunk(s)
  PROVE  UNCHANGED Service!serviceVars
<1>1. UNCHANGED <<pc, chunk, param, work>>
  BY DEF Run, Boot, ReadMailbox, GetControlBlock, GetParam, GetChunk, Answer,
     mgrVars
<1>2. ASSUME NEW k \in Managers PROVE Phase(k)' = Phase(k)
  <2>1. CASE SpuOf[k] # s
    <3>1. /\ spc'[SpuOf[k]] = spc[SpuOf[k]]
          /\ outbox'[SpuOf[k]] = outbox[SpuOf[k]]
      BY <2>1, RunIsSpuStep, SpuOfAssumption DEF SpuStep
    <3>2. QED
      BY <1>1, <3>1 DEF Phase
  <2>2. CASE SpuOf[k] = s
    <3>1. (spc[s] = "answer" \/ outbox[s] > 0)'
            <=> (spc[s] = "answer" \/ outbox[s] > 0)
      <4>1. CASE Answer(s)
        <5>0. outbox[s] \in 0 .. OutboxSize
          BY DEF IInv, TypeOK
        <5>1. outbox[s] + 1 > 0 /\ outbox'[s] = outbox[s] + 1
          BY <4>1, <5>0 DEF Answer, IInv, TypeOK, OutboxSize
        <5>2. QED
          BY <4>1, <5>1 DEF Answer, SpuGoto
      <4>2. CASE ~Answer(s)
        <5>1. UNCHANGED outbox
          BY <4>2 DEF Run, Boot, ReadMailbox, GetControlBlock, GetParam,
             GetChunk
        <5>2. spc[s] # "answer" /\ spc'[s] # "answer"
          BY <4>2 DEF Run, Boot, ReadMailbox, GetControlBlock, GetParam,
             GetChunk, SpuGoto, IInv, TypeOK
        <5>3. QED
          BY <5>1, <5>2
      <4>3. QED
        BY <4>1, <4>2
    <3>2. QED
      BY <1>1, <2>2, <3>1 DEF Phase
  <2>3. QED
    BY <2>1, <2>2
<1>3. QED
  BY <1>1, <1>2 DEF Service!serviceVars

(* The link implements the service its managers expect.                    *)
THEOREM Refinement ==
  ASSUME OneManagerPerSpu
  PROVE  Spec => ImplementsService
<1>1. Init => Service!Init
  BY InitIsInit
<1>2. IInv /\ [Next]_linkVars => [Service!Next]_(Service!serviceVars)
  <2> SUFFICES ASSUME IInv, [Next]_linkVars
               PROVE  Service!Next \/ UNCHANGED Service!serviceVars
    OBVIOUS
  <2>1. CASE UNCHANGED linkVars
    BY <2>1 DEF linkVars, mgrVars, spuVars, Service!serviceVars, Phase
  <2>2. ASSUME NEW m \in Managers, Manage(m)
        PROVE  Service!Next \/ UNCHANGED Service!serviceVars
    BY <2>2, FindIsAsk, PrepareIsStutter, CollectIsFinish
       DEF Manage, Service!Next
  <2>3. ASSUME NEW s \in Spus, Run(s)
        PROVE  Service!Next \/ UNCHANGED Service!serviceVars
    BY <2>3, PutIsServe, RunIsStutter DEF Service!Next
  <2>4. QED
    BY <2>1, <2>2, <2>3 DEF Next
<1>3. QED
  BY <1>1, <1>2, Inductive, PTL DEF Spec, ImplementsService, Service!Spec
=============================================================================
