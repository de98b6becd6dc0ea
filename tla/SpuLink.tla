------------------------------- MODULE SpuLink -------------------------------
(***************************************************************************)
(* The link between the manager threads of the PPU (spu_manage) and the    *)
(* SPU programs (prog_run in program.c).  A manager writes the address of  *)
(* its chunk and of its parameter into the control block of its SPU, puts  *)
(* a message in the SPU's inbound mailbox and waits for one in the         *)
(* outbound mailbox.  The SPU copies control block, parameter and chunk    *)
(* into its local store by DMA, calls the chunk handler, copies the result *)
(* back and answers.                                                       *)
(*                                                                         *)
(* The control block and the two mailboxes belong to the SPU, but every    *)
(* RUN command starts a manager, also when the SPU has one already.        *)
(*                                                                         *)
(* The chunk buffer gives a chunk to one manager at a time (ExclusiveUse   *)
(* of Buffer), so finding a chunk and passing it on are one step each.     *)
(* `stop' is never set in the code, so no MSG_EXIT is ever sent and        *)
(* neither loop ends.                                                      *)
(***************************************************************************)
EXTENDS Integers, Sequences

CONSTANTS
  Managers,  \* the spu_manage threads
  Spus,      \* the SPUs
  SpuOf,     \* SpuOf[m]: the SPU that manager m was started for
  Chunks,    \* the slots of the chunk buffer
  Params,    \* the parameters a chunk may be processed with
  NoChunk    \* what a manager has between two chunks

ASSUME SpuOfAssumption == SpuOf \in [Managers -> Spus]

ASSUME NoChunkAssumption == NoChunk \notin Chunks

(* No SPU has two managers.                                                *)
OneManagerPerSpu == \A m, k \in Managers : SpuOf[m] = SpuOf[k] => m = k

VARIABLES
  pc,      \* pc[m]: where manager m is
  chunk,   \* chunk[m]: the chunk it has found
  param,   \* param[m]: its local variable param
  cb,      \* cb[s]: the control block of SPU s in main memory
  inbox,   \* inbox[s]: messages in its inbound mailbox, all MSG_CHUNK
  outbox,  \* outbox[s]: messages in its outbound mailbox, all MSG_DONE
  spc,     \* spc[s]: where the program of SPU s is
  local,   \* local[s]: its copy of the control block
  mask,    \* mask[s]: param0, its copy of the parameter
  input,   \* input[s]: its copy of the chunk
  work     \* work[c]: what chunk c was processed with since it was taken

mgrVars == <<pc, chunk, param>>
spuVars == <<spc, local, mask, input>>
linkVars == <<mgrVars, cb, inbox, outbox, spuVars, work>>

ControlBlock == [data : Chunks, param0 : Params]

(* The mailboxes have four and one entries; a write to a full one blocks.  *)
InboxSize  == 4
OutboxSize == 1

Init ==
  /\ pc = [m \in Managers |-> "search"]
  /\ chunk = [m \in Managers |-> NoChunk]
  /\ param \in [Managers -> Params]
  /\ cb \in [Spus -> ControlBlock]  \* allocated, not cleared
  /\ inbox = [s \in Spus |-> 0]
  /\ outbox = [s \in Spus |-> 0]
  /\ spc = [s \in Spus |-> "boot"]
  /\ local = cb
  /\ mask \in [Spus -> Params]
  /\ input = [s \in Spus |-> <<>>]
  /\ work = [c \in Chunks |-> <<>>]
-----------------------------------------------------------------------------
(* The manager thread.                                                     *)
Goto(m, from, to) ==
  /\ pc[m] = from
  /\ pc' = [pc EXCEPT ![m] = to]

(* find_wait_chunk, and the lookup of the sequence and the parameter.      *)
Find(m, c, p) ==
  /\ Goto(m, "search", "data")
  /\ \A k \in Managers : chunk[k] # c
  /\ chunk' = [chunk EXCEPT ![m] = c]
  /\ param' = [param EXCEPT ![m] = p]
  /\ work' = [work EXCEPT ![c] = <<>>]
  /\ UNCHANGED <<cb, inbox, outbox, spuVars>>

SetData(m) ==
  /\ Goto(m, "data", "param")
  /\ cb' = [cb EXCEPT ![SpuOf[m]].data = chunk[m]]
  /\ UNCHANGED <<chunk, param, inbox, outbox, spuVars, work>>

(* The address of the parameter and its size.  Mutant: the parameter of    *)
(* the chunk before is left in place.                                      *)
SetParamForgotten(m) ==
  /\ Goto(m, "param", "post")
  /\ UNCHANGED <<chunk, param, cb, inbox, outbox, spuVars, work>>
SetParam(m) ==
  /\ Goto(m, "param", "post")
  /\ cb' = [cb EXCEPT ![SpuOf[m]].param0 = param[m]]
  /\ UNCHANGED <<chunk, param, inbox, outbox, spuVars, work>>

(* spe_in_mbox_write                                                       *)
Post(m) ==
  /\ Goto(m, "post", "wait")
  /\ inbox[SpuOf[m]] < InboxSize
  /\ inbox' = [inbox EXCEPT ![SpuOf[m]] = @ + 1]
  /\ UNCHANGED <<chunk, param, cb, outbox, spuVars, work>>

(* spe_out_mbox_read returns a message, step_chunk gives the chunk away.   *)
(* While the mailbox is empty the manager polls.  Mutants: it does not; it  *)
(* looks at the message and leaves it in the mailbox.                      *)
CollectAtOnce(m) ==
  /\ Goto(m, "wait", "search")
  /\ outbox' = [outbox EXCEPT ![SpuOf[m]] = @ - 1]
  /\ chunk' = [chunk EXCEPT ![m] = NoChunk]
  /\ UNCHANGED <<param, cb, inbox, spuVars, work>>
CollectLook(m) ==
  /\ Goto(m, "wait", "search")
  /\ outbox[SpuOf[m]] > 0
  /\ chunk' = [chunk EXCEPT ![m] = NoChunk]
  /\ UNCHANGED <<param, cb, inbox, outbox, spuVars, work>>
Collect(m) ==
  /\ Goto(m, "wait", "search")
  /\ outbox[SpuOf[m]] > 0
  /\ outbox' = [outbox EXCEPT ![SpuOf[m]] = @ - 1]
  /\ chunk' = [chunk EXCEPT ![m] = NoChunk]
  /\ UNCHANGED <<param, cb, inbox, spuVars, work>>

Manage(m) ==
  \/ \E c \in Chunks, p \in Params : Find(m, c, p)
  \/ SetData(m)
  \/ SetParam(m)
  \/ Post(m)
  \/ Collect(m)
-----------------------------------------------------------------------------
(* The SPU program.                                                        *)
SpuGoto(s, from, to) ==
  /\ spc[s] = from
  /\ spc' = [spc EXCEPT ![s] = to]

(* The control block is fetched once before the loop, when nobody may have *)
(* filled it yet.                                                          *)
Boot(s) ==
  /\ SpuGoto(s, "boot", "mbox")
  /\ local' = [local EXCEPT ![s] = cb[s]]
  /\ UNCHANGED <<mgrVars, cb, inbox, outbox, mask, input, work>>

ReadMailbox(s) ==
  /\ SpuGoto(s, "mbox", "block")
  /\ inbox[s] > 0
  /\ inbox' = [inbox EXCEPT ![s] = @ - 1]
  /\ UNCHANGED <<mgrVars, cb, outbox, local, mask, input, work>>

(* Mutant: the copy made before the loop is used.                          *)
GetControlBlockOnce(s) ==
  /\ SpuGoto(s, "block", "param")
  /\ UNCHANGED <<mgrVars, cb, inbox, outbox, local, mask, input, work>>
GetControlBlock(s) ==
  /\ SpuGoto(s, "block", "param")
  /\ local' = [local EXCEPT ![s] = cb[s]]
  /\ UNCHANGED <<mgrVars, cb, inbox, outbox, mask, input, work>>

GetParam(s) ==
  /\ SpuGoto(s, "param", "get")
  /\ mask' = [mask EXCEPT ![s] = local[s].param0]
  /\ UNCHANGED <<mgrVars, cb, inbox, outbox, local, input, work>>

GetChunk(s) ==
  /\ SpuGoto(s, "get", "put")
  /\ input' = [input EXCEPT ![s] = work[local[s].data]]
  /\ UNCHANGED <<mgrVars, cb, inbox, outbox, local, mask, work>>

(* The chunk handler, and the DMA of its output.                           *)
PutChunk(s) ==
  /\ SpuGoto(s, "put", "answer")
  /\ work' = [work EXCEPT ![local[s].data] = Append(input[s], mask[s])]
  /\ UNCHANGED <<mgrVars, cb, inbox, outbox, local, mask, input>>

(* spu_write_out_mbox.  Mutant: the SPU does not answer.                   *)
AnswerForgotten(s) ==
  /\ SpuGoto(s, "answer", "mbox")
  /\ UNCHANGED <<mgrVars, cb, inbox, outbox, local, mask, input, work>>
Answer(s) ==
  /\ SpuGoto(s, "answer", "mbox")
  /\ outbox[s] < OutboxSize
  /\ outbox' = [outbox EXCEPT ![s] = @ + 1]
  /\ UNCHANGED <<mgrVars, cb, inbox, local, mask, input, work>>

Run(s) ==
  \/ Boot(s)
  \/ ReadMailbox(s)
  \/ GetControlBlock(s)
  \/ GetParam(s)
  \/ GetChunk(s)
  \/ PutChunk(s)
  \/ Answer(s)

Next == (\E m \in Managers : Manage(m)) \/ (\E s \in Spus : Run(s))

Spec == Init /\ [][Next]_linkVars

(* Managers and SPUs are threads and processors of their own that never    *)
(* stop; a manager need not find a chunk.                                  *)
Fairness ==
  /\ \A m \in Managers :
       WF_linkVars(SetData(m) \/ SetParam(m) \/ Post(m) \/ Collect(m))
  /\ \A s \in Spus : WF_linkVars(Run(s))

FairSpec == Spec /\ Fairness
-----------------------------------------------------------------------------
TypeOK ==
  /\ pc \in [Managers -> {"search", "data", "param", "post", "wait"}]
  /\ chunk \in [Managers -> Chunks \cup {NoChunk}]
  /\ param \in [Managers -> Params]
  /\ cb \in [Spus -> ControlBlock]
  /\ inbox \in [Spus -> 0 .. InboxSize]
  /\ outbox \in [Spus -> 0 .. OutboxSize]
  /\ spc \in [Spus -> {"boot", "mbox", "block", "param", "get", "put", "answer"}]
  /\ local \in [Spus -> ControlBlock]
  /\ mask \in [Spus -> Params]
  /\ input \in [Spus -> Seq(Params)]
  /\ work \in [Chunks -> Seq(Params)]

(* The chunk the SPU is about to write belongs to a manager that waits for *)
(* the SPU: no result lands in a chunk that has been passed on and that a  *)
(* sender is sending or the io thread is refilling.                        *)
WritesOnlyAwaited ==
  \A s \in Spus : spc[s] = "put" =>
    \E m \in Managers : /\ SpuOf[m] = s
                        /\ pc[m] = "wait"
                        /\ chunk[m] = local[s].data

(* Nobody ever blocks on a full mailbox, whatever its size.                *)
MailboxesSuffice ==
  /\ \A m \in Managers : pc[m] = "post" => inbox[SpuOf[m]] = 0
  /\ \A s \in Spus : spc[s] = "answer" => outbox[s] = 0

(* A manager goes on only when its own chunk has been processed, once, and *)
(* with the parameter of that chunk (spu_controller.cpp:173).              *)
FinishedIsProcessed ==
  [][\A m \in Managers : Collect(m) => work[chunk[m]] = <<param[m]>>]_linkVars

(* The link implements the service.                                        *)
Phase(m) ==
  IF pc[m] = "search" THEN "idle"
  ELSE IF pc[m] = "wait" /\ (spc[SpuOf[m]] = "answer" \/ outbox[SpuOf[m]] > 0)
  THEN "served"
  ELSE "asked"

Service == INSTANCE SpuService WITH phase <- [m \in Managers |-> Phase(m)]

ImplementsService == Service!Spec

(* Every manager gets an answer.                                           *)
Answered == \A m \in Managers : pc[m] = "wait" ~> pc[m] = "search"
=============================================================================
