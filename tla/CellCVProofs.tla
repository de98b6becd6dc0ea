---------------------------- MODULE CellCVProofs ----------------------------
(***************************************************************************)
(* Proofs about CellCV for every number of SPUs and images, every width    *)
(* and every size of the ring and the local buffers: the images come       *)
(* through the ring in their order; main frees the data of the slices only *)
(* when no SPU has a transfer left to do; and every image that the window  *)
(* gets is the elaboration of a whole one.                                 *)
(***************************************************************************)
EXTENDS SliceProofs, SequenceTheorems

(* Places in the ring, without the modulus.                                *)
Ring(i) == IF i < BUF_SIZE THEN i ELSE i - BUF_SIZE

(* The modulus of the next number.                                         *)
LEMMA NextModulo ==
  ASSUME NEW m \in Nat \ {0}, NEW i \in 0 .. m - 1
  PROVE  (i + 1) % m = IF i + 1 < m THEN i + 1 ELSE i + 1 - m
OBVIOUS

(* The counter of main's loops stays among the SPUs.                       *)
LEMMA NextSpuType ==
  ASSUME spei \in SliceIds
  PROVE  (spei + 1) % Threads \in SliceIds
<1>1. Threads \in Nat \ {0} /\ spei \in 0 .. Threads - 1
  BY SlicesAssumption DEF SliceIds
<1>2. (spei + 1) % Threads = IF spei + 1 < Threads THEN spei + 1 ELSE spei + 1 - Threads
  BY <1>1, NextModulo
<1>3. QED
  BY <1>1, <1>2 DEF SliceIds

(* An outgoing mailbox that is read is empty.                              *)
LEMMA EmptiedMailbox ==
  ASSUME NEW o \in 0 .. 1
  PROVE  Max({o - 1, 0}) = 0
<1>1. Max({o - 1, 0}) = CHOOSE x \in {o - 1, 0} : \A y \in {o - 1, 0} : x >= y
  BY DEF Max
<1>2. 0 \in {o - 1, 0} /\ \A y \in {o - 1, 0} : 0 >= y
  OBVIOUS
<1>3. \A x \in {o - 1, 0} : (\A y \in {o - 1, 0} : x >= y) => x = 0
  OBVIOUS
<1>4. QED
  BY <1>1, <1>2, <1>3
-----------------------------------------------------------------------------
(* The ring: between rem and add lie, in their order, the images that have *)
(* been inserted and not yet taken.                                        *)
QueueTyping ==
  /\ frame \in Nat
  /\ apc \in {"put", "wait"} => frame > 0
  /\ buffer \in [0 .. BUF_SIZE - 1 -> Nat]
  /\ used \in Seq(Nat)

InRing ==
  /\ Len(used) + num = Inserted
  /\ add = Ring(rem + num)
  /\ \A k \in 0 .. num - 1 : buffer[Ring(rem + k)] = Len(used) + k + 1

TakenInOrder == \A k \in 1 .. Len(used) : used[k] = k

Queue == QueueTyping /\ InRing /\ TakenInOrder
IInv == TypeOK /\ Queue

queueVars == <<frame, buffer, add, rem, num, used>>

(* The invariant holds at the start.                                       *)
LEMMA InitIInv == Init => IInv
<1> SUFFICES ASSUME Init PROVE IInv
  OBVIOUS
<1>1. BUF_SIZE \in Nat \ {0} /\ 0 \in SliceIds
  BY CellCVAssumption, SlicesAssumption DEF SliceIds
<1>2. TypeOK
  BY <1>1 DEF Init, AcquisitionInit, WindowInit, SpuInit, TypeOK
<1>3. Queue
  BY <1>1 DEF Init, AcquisitionInit, Queue, QueueTyping, InRing, TakenInOrder, Inserted, Ring
<1>4. QED
  BY <1>2, <1>3 DEF IInv

(* Steps that leave the ring alone preserve what is said about it.         *)
LEMMA QueueFrame ==
  ASSUME IInv, UNCHANGED queueVars,
         apc' \in {"put", "wait"} <=> apc \in {"put", "wait"}
  PROVE  Queue'
<1>1. Inserted' = Inserted
  BY DEF Inserted, queueVars
<1>2. QueueTyping' /\ TakenInOrder'
  BY DEF IInv, Queue, QueueTyping, TakenInOrder, queueVars
<1>3. InRing'
  BY <1>1 DEF IInv, Queue, InRing, Ring, queueVars
<1>4. QED
  BY <1>2, <1>3 DEF Queue

(* The acquisition preserves the invariant.                                *)
LEMMA AcquisitionStep ==
  ASSUME IInv, AcquisitionThread
  PROVE  IInv'
<1>0. BUF_SIZE \in Nat \ {0}
  BY CellCVAssumption
<1>1. CASE getTheImage
  <2>1. TypeOK'
    BY <1>1 DEF getTheImage, IInv, TypeOK, mailboxes, spus, window, mainData
  <2>2. QueueTyping' /\ TakenInOrder'
    BY <1>1 DEF getTheImage, IInv, Queue, QueueTyping, TakenInOrder, mainData
  <2>3. Inserted' = Inserted
    BY <1>1 DEF getTheImage, IInv, Queue, QueueTyping, Inserted
  <2>4. InRing'
    BY <1>1, <2>3 DEF getTheImage, IInv, Queue, InRing, Ring, mainData
  <2>5. QED
    BY <2>1, <2>2, <2>4 DEF IInv, Queue
<1>2. CASE PutImage /\ Full
  <2>1. UNCHANGED queueVars /\ apc = "put" /\ apc' = "wait"
    BY <1>2 DEF PutImage, queueVars, mainData
  <2>2. TypeOK'
    BY <1>2 DEF PutImage, IInv, TypeOK, mailboxes, spus, window, mainData
  <2>3. QED
    BY <2>1, <2>2, QueueFrame DEF IInv
<1>3. CASE PutImage /\ ~Full
  <2>0. num # BUF_SIZE /\ num \in 0 .. BUF_SIZE /\ {add, rem} \subseteq 0 .. BUF_SIZE - 1
    BY <1>3 DEF Full, IInv, TypeOK
  <2>1. /\ num \in 0 .. BUF_SIZE - 1 /\ num' = num + 1
        /\ add \in 0 .. BUF_SIZE - 1 /\ add' = Ring(add + 1)
        /\ rem \in 0 .. BUF_SIZE - 1 /\ rem' = rem
        /\ buffer' = [buffer EXCEPT ![add] = frame]
        /\ apc = "put" /\ apc' = "signal"
        /\ frame' = frame /\ used' = used
    <3>0. add \in 0 .. BUF_SIZE - 1
      BY <2>0
    <3>1. (add + 1) % BUF_SIZE = IF add + 1 < BUF_SIZE THEN add + 1 ELSE add + 1 - BUF_SIZE
      BY <1>0, <3>0, NextModulo
    <3>2. (add + 1) % BUF_SIZE = Ring(add + 1)
      BY <1>0, <3>0, <3>1 DEF Ring
    <3>3. num \in 0 .. BUF_SIZE - 1
      BY <1>0, <2>0
    <3>4. QED
      BY <1>3, <2>0, <3>2, <3>3 DEF PutImage, mainData
  <2>2. TypeOK'
    <3>1. num' \in 0 .. BUF_SIZE /\ {add', rem'} \subseteq 0 .. BUF_SIZE - 1
      BY <1>0, <2>1 DEF Ring
    <3>2. UNCHANGED <<mpc, spei, spc, outbox, gpc>>
      BY <1>3 DEF PutImage, mailboxes, spus, window, mainData
    <3>3. QED
      BY <2>1, <3>1, <3>2 DEF IInv, TypeOK
  <2>3. QueueTyping' /\ TakenInOrder'
    BY <2>1 DEF IInv, Queue, QueueTyping, TakenInOrder
  <2>4. Inserted' = Inserted + 1 /\ Inserted + 1 = frame
    BY <2>1 DEF IInv, Queue, QueueTyping, Inserted
  <2>5. InRing'
    <3>1. Len(used) \in Nat
      BY DEF IInv, Queue, QueueTyping
    <3>2. Len(used') + num' = Inserted'
      BY <2>1, <2>4, <3>1 DEF IInv, Queue, InRing, QueueTyping
    <3>3. add = Ring(rem + num) /\ add' = Ring(rem' + num')
      BY <1>0, <2>1 DEF IInv, Queue, InRing, Ring
    <3>4. ASSUME NEW k \in 0 .. num - 1
          PROVE  buffer'[Ring(rem + k)] = Len(used) + k + 1
      <4>1. Ring(rem + k) # add /\ Ring(rem + k) \in 0 .. BUF_SIZE - 1
        BY <1>0, <2>1, <3>3 DEF Ring
      <4>2. QED
        BY <2>1, <4>1 DEF IInv, Queue, InRing, QueueTyping
    <3>5. buffer'[Ring(rem + num)] = Len(used) + num + 1
      BY <2>1, <2>4, <3>1, <3>3 DEF IInv, Queue, InRing, QueueTyping
    <3>6. ASSUME NEW k \in 0 .. num' - 1
          PROVE  buffer'[Ring(rem' + k)] = Len(used') + k + 1
      <4>1. k \in 0 .. num - 1 \/ k = num
        BY <2>1
      <4>2. QED
        BY <2>1, <3>4, <3>5, <4>1
    <3>7. QED
      BY <3>2, <3>3, <3>6 DEF InRing, Ring
  <2>6. QED
    BY <2>2, <2>3, <2>5 DEF IInv, Queue
<1>4. CASE SignalConsumer
  <2>1. UNCHANGED queueVars /\ apc = "signal" /\ apc' = "read"
    BY <1>4 DEF SignalConsumer, queueVars, acquisition, mainData
  <2>2. TypeOK'
    BY <1>4 DEF SignalConsumer, Woken, IInv, TypeOK,
       acquisition, mailboxes, spus, window, mainData
  <2>3. QED
    BY <2>1, <2>2, QueueFrame DEF IInv
<1>5. QED
  BY <1>1, <1>2, <1>3, <1>4 DEF AcquisitionThread, PutImage

(* Taking an image preserves the invariant.                                *)
LEMMA GetImageStep ==
  ASSUME IInv, GetImage
  PROVE  IInv'
<1>0. BUF_SIZE \in Nat \ {0}
  BY CellCVAssumption
<1>1. CASE num = 0
  <2>1. UNCHANGED queueVars /\ apc' = apc
    BY <1>1 DEF GetImage, queueVars
  <2>2. TypeOK'
    BY <1>1 DEF GetImage, IInv, TypeOK, mailboxes, spus, window
  <2>3. QED
    BY <2>1, <2>2, QueueFrame DEF IInv
<1>2. CASE num # 0
  <2>0. /\ num \in 1 .. BUF_SIZE /\ {add, rem} \subseteq 0 .. BUF_SIZE - 1
        /\ Len(used) \in Nat /\ used \in Seq(Nat)
    <3>1. num \in 0 .. BUF_SIZE /\ {add, rem} \subseteq 0 .. BUF_SIZE - 1
      BY DEF IInv, TypeOK
    <3>2. num \in 1 .. BUF_SIZE
      BY <1>0, <1>2, <3>1
    <3>3. used \in Seq(Nat)
      BY DEF IInv, Queue, QueueTyping
    <3>4. QED
      BY <3>1, <3>2, <3>3
  <2>1. rem' = Ring(rem + 1)
    <3>0. rem \in 0 .. BUF_SIZE - 1
      BY <2>0
    <3>1. (rem + 1) % BUF_SIZE = IF rem + 1 < BUF_SIZE THEN rem + 1 ELSE rem + 1 - BUF_SIZE
      BY <1>0, <3>0, NextModulo
    <3>2. (rem + 1) % BUF_SIZE = Ring(rem + 1)
      BY <1>0, <3>0, <3>1 DEF Ring
    <3>3. QED
      BY <1>2, <3>2 DEF GetImage
  <2>2. /\ num' = num - 1
        /\ UNCHANGED <<frame, buffer, add, apc>>
        /\ used' = Append(used, buffer[rem])
    BY <1>2 DEF GetImage
  <2>3. TypeOK'
    <3>1. num' \in 0 .. BUF_SIZE /\ {add', rem'} \subseteq 0 .. BUF_SIZE - 1
      BY <1>0, <2>0, <2>1, <2>2 DEF Ring
    <3>2. mpc' = "signal" /\ UNCHANGED <<apc, spei, spc, outbox, gpc>>
      BY <1>2 DEF GetImage, mailboxes, spus, window
    <3>3. QED
      BY <3>1, <3>2 DEF IInv, TypeOK
  <2>4. buffer[rem] = Len(used) + 1
    BY <1>0, <2>0 DEF IInv, Queue, InRing, Ring
  <2>5. /\ used' \in Seq(Nat) /\ Len(used') = Len(used) + 1
        /\ \A k \in 1 .. Len(used) : used'[k] = used[k]
        /\ used'[Len(used) + 1] = Len(used) + 1
    BY <2>0, <2>2, <2>4
  <2>6. QueueTyping' /\ TakenInOrder'
    BY <2>0, <2>2, <2>5 DEF IInv, Queue, QueueTyping, TakenInOrder
  <2>7. InRing'
    <3>1. Inserted' = Inserted
      BY <2>2 DEF Inserted
    <3>2. Len(used') + num' = Inserted'
      BY <2>0, <2>2, <2>5, <3>1 DEF IInv, Queue, InRing
    <3>3. add' = Ring(rem' + num')
      <4>1. add = Ring(rem + num)
        BY DEF IInv, Queue, InRing
      <4>2. QED
        BY <1>0, <2>0, <2>1, <2>2, <4>1 DEF Ring
    <3>4. ASSUME NEW k \in 0 .. num' - 1
          PROVE  buffer'[Ring(rem' + k)] = Len(used') + k + 1
      <4>1. k + 1 \in 0 .. num - 1
        BY <2>0, <2>2
      <4>2. Ring(rem' + k) = Ring(rem + (k + 1))
        BY <1>0, <2>0, <2>1, <2>2, <4>1 DEF Ring
      <4>3. buffer[Ring(rem + (k + 1))] = Len(used) + (k + 1) + 1
        BY <4>1 DEF IInv, Queue, InRing
      <4>4. QED
        BY <2>0, <2>2, <2>5, <4>2, <4>3
    <3>5. QED
      BY <3>2, <3>3, <3>4 DEF InRing
  <2>8. QED
    BY <2>3, <2>6, <2>7 DEF IInv, Queue
<1>3. QED
  BY <1>1, <1>2 DEF IInv, TypeOK

(* The other steps of main leave the ring alone.                           *)
LEMMA MainStep ==
  ASSUME IInv, MainThread
  PROVE  IInv'
<1> USE DEF IInv
<1>1. CASE GetImage
  BY <1>1, GetImageStep
<1>2. CASE SignalProducer
  <2>1. /\ UNCHANGED queueVars
        /\ apc' \in {"put", "wait"} <=> apc \in {"put", "wait"}
    BY <1>2 DEF SignalProducer, Woken, queueVars, acquisition, mainData
  <2>2. TypeOK'
    BY <1>2 DEF SignalProducer, Woken, TypeOK,
       acquisition, mailboxes, spus, window, mainData
  <2>3. QED
    BY <2>1, <2>2, QueueFrame
<1>3. CASE Split
  BY <1>3, QueueFrame
     DEF Split, TypeOK, queueVars, acquisition, mailboxes, spus, window, mainData
<1>4. CASE trigger_spe
  <2>1. UNCHANGED queueVars /\ apc' = apc
    BY <1>4 DEF trigger_spe, queueVars, acquisition
  <2>2. TypeOK'
    BY <1>4, NextSpuType
       DEF trigger_spe, NextSpu, WriteInMbox, TypeOK, acquisition, spus, window
  <2>3. QED
    BY <2>1, <2>2, QueueFrame
<1>5. CASE sync_spe
  <2>1. UNCHANGED queueVars /\ apc' = apc
    BY <1>5 DEF sync_spe, queueVars, acquisition
  <2>2. outbox' \in [SliceIds -> 0 .. 1]
    <3>1. outbox \in [SliceIds -> 0 .. 1] /\ spei \in SliceIds
      BY DEF TypeOK
    <3>2. Max({outbox[spei] - 1, 0}) = 0
      BY <3>1, EmptiedMailbox
    <3>3. outbox' = [outbox EXCEPT ![spei] = 0]
      BY <1>5, <3>2 DEF sync_spe
    <3>4. QED
      BY <3>1, <3>3
  <2>3. TypeOK'
    BY <1>5, <2>2, NextSpuType DEF sync_spe, NextSpu, TypeOK, acquisition, spus, window
  <2>4. QED
    BY <2>1, <2>3, QueueFrame
<1>6. CASE JoinSubimages
  BY <1>6, QueueFrame
     DEF JoinSubimages, TypeOK, queueVars, acquisition, mailboxes, spus, window
<1>7. CASE ShowWaits
  BY <1>7, QueueFrame
     DEF ShowWaits, TypeOK, queueVars, acquisition, mailboxes, spus, window, mainData
<1>8. CASE ShowImage
  BY <1>8, QueueFrame
     DEF ShowImage, TypeOK, queueVars, acquisition, mailboxes, spus, mainData
<1>9. CASE exit_spe
  <2>1. UNCHANGED queueVars /\ apc' = apc
    BY <1>9 DEF exit_spe, queueVars, acquisition
  <2>2. TypeOK'
    BY <1>9, NextSpuType
       DEF exit_spe, NextSpu, WriteInMbox, TypeOK, acquisition, spus, window
  <2>3. QED
    BY <2>1, <2>2, QueueFrame
<1>10. CASE WaitSpus
  BY <1>10, QueueFrame
     DEF WaitSpus, TypeOK, queueVars, acquisition, mailboxes, spus, window, mainData
<1>11. QED
  BY <1>1, <1>2, <1>3, <1>4, <1>5, <1>6, <1>7, <1>8, <1>9, <1>10 DEF MainThread

(* So do the SPUs.                                                         *)
LEMMA SpuStep ==
  ASSUME IInv, NEW n \in SliceIds, SpuProgram(n)
  PROVE  IInv'
<1> USE DEF IInv
<1>1. UNCHANGED hostVars
  BY DEF SpuProgram, ReadInMbox, GetStruct, TooMuch, sidata_toLS,
     ElaborateAndPutStruct, sidata_toMM, WriteOutMbox, Transferred, SpuGoto
<1>2. UNCHANGED queueVars /\ UNCHANGED <<apc, mpc, spei, gpc>>
  BY <1>1 DEF hostVars, queueVars, acquisition, mainData, window
<1>3. \E to \in {"idle", "get", "toLS", "elaborate", "toMM", "answer", "ended"} :
        spc' = [spc EXCEPT ![n] = to]
  <2>1. CASE ReadInMbox(n)
    BY <2>1 DEF ReadInMbox, SpuGoto
  <2>2. CASE GetStruct(n) \/ TooMuch(n) \/ ElaborateAndPutStruct(n) \/ WriteOutMbox(n)
    BY <2>2 DEF GetStruct, TooMuch, ElaborateAndPutStruct, WriteOutMbox, SpuGoto
  <2>3. CASE sidata_toLS(n) \/ sidata_toMM(n)
    BY <2>3 DEF sidata_toLS, sidata_toMM, Transferred, SpuGoto
  <2>4. QED
    BY <2>1, <2>2, <2>3 DEF SpuProgram
<1>4. outbox' = outbox \/ outbox' = [outbox EXCEPT ![n] = 1]
  BY DEF SpuProgram, ReadInMbox, GetStruct, TooMuch, sidata_toLS,
     ElaborateAndPutStruct, sidata_toMM, WriteOutMbox, mailboxes
<1>5. spc' \in [SliceIds -> {"idle", "get", "toLS", "elaborate", "toMM",
                             "answer", "ended"}]
  BY <1>3 DEF TypeOK
<1>6. outbox' \in [SliceIds -> 0 .. 1]
  <2>1. outbox \in [SliceIds -> 0 .. 1]
    BY DEF TypeOK
  <2>2. 1 \in 0 .. 1
    OBVIOUS
  <2>3. QED
    BY <1>4, <2>1, <2>2
<1>7. UNCHANGED <<add, rem, num>>
  BY <1>2 DEF queueVars
<1>8. TypeOK'
  BY <1>2, <1>5, <1>6, <1>7 DEF TypeOK
<1>9. QED
  BY <1>2, <1>8, QueueFrame

(* The window and spurious wake-ups change what main and the acquisition   *)
(* do next, but not the ring.                                              *)
LEMMA WindowStep ==
  ASSUME IInv, WindowThread \/ WakeForNoReason
  PROVE  IInv'
<1> USE DEF IInv
<1>1. /\ UNCHANGED queueVars
      /\ apc' \in {"put", "wait"} <=> apc \in {"put", "wait"}
  BY DEF WindowThread, main_idle, SignalListEmpty, DrawTexture, WakeForNoReason,
     queueVars, acquisition, mainData
<1>2. TypeOK'
  BY DEF WindowThread, main_idle, SignalListEmpty, DrawTexture, WakeForNoReason,
     Woken, TypeOK, acquisition, mainData, mailboxes, spus, window
<1>3. QED
  BY <1>1, <1>2, QueueFrame

(* Every step preserves the invariant.                                     *)
LEMMA StepIInv == IInv /\ [Next]_vars => IInv'
<1> SUFFICES ASSUME IInv, [Next]_vars PROVE IInv'
  OBVIOUS
<1>1. CASE UNCHANGED vars
  <2>1. UNCHANGED queueVars /\ apc' = apc
    BY <1>1 DEF vars, queueVars, acquisition, mainData
  <2>2. TypeOK'
    BY <1>1 DEF vars, IInv, TypeOK, acquisition, mainData, mailboxes, spus, window
  <2>3. QED
    BY <2>1, <2>2, QueueFrame DEF IInv
<1>2. CASE Next
  BY <1>2, AcquisitionStep, MainStep, SpuStep, WindowStep DEF Next
<1>3. QED
  BY <1>1, <1>2

(* So it always holds.                                                     *)
LEMMA Invariance == Spec => []IInv
BY InitIInv, StepIInv, PTL DEF Spec
-----------------------------------------------------------------------------
(* Indexes stay inside the ring, the mailboxes hold one answer at most.    *)
THEOREM Types == Spec => []TypeOK
<1>1. IInv => TypeOK
  BY DEF IInv
<1>2. QED
  BY <1>1, Invariance, PTL

(* Each step inserts an image, takes the next one out, or does neither.    *)
RingStep ==
  \/ Inserted' = Inserted /\ used' = used
  \/ Inserted' = Inserted + 1 /\ used' = used
  \/ /\ Inserted' = Inserted
     /\ Len(used) < Inserted
     /\ used' = Append(used, Len(used) + 1)

(* There are no other steps.                                               *)
LEMMA RingSteps ==
  ASSUME IInv, [Next]_vars
  PROVE  RingStep
<1>0. BUF_SIZE \in Nat \ {0} /\ frame \in Nat /\ used \in Seq(Nat)
  BY CellCVAssumption DEF IInv, Queue, QueueTyping
<1>1. CASE AcquisitionThread
  <2>1. used' = used
    BY <1>1 DEF AcquisitionThread, getTheImage, PutImage, SignalConsumer, mainData
  <2>2. Inserted' = Inserted \/ Inserted' = Inserted + 1
    BY <1>0, <1>1 DEF AcquisitionThread, getTheImage, PutImage, SignalConsumer,
       acquisition, Inserted
  <2>3. QED
    BY <2>1, <2>2 DEF RingStep
<1>2. CASE GetImage /\ num # 0
  <2>1. /\ num \in 0 .. BUF_SIZE /\ rem \in 0 .. BUF_SIZE - 1
    BY DEF IInv, TypeOK
  <2>0. Len(used) \in Nat /\ Len(used) + num = Inserted
    BY <1>0 DEF IInv, Queue, InRing
  <2>2. num \in 1 .. BUF_SIZE
    BY <1>0, <1>2, <2>1
  <2>3. buffer[rem] = Len(used) + 1
    BY <1>0, <2>0, <2>1, <2>2 DEF IInv, Queue, InRing, Ring
  <2>4. Inserted' = Inserted /\ used' = Append(used, Len(used) + 1)
    BY <1>2, <2>3 DEF GetImage, Inserted
  <2>5. Len(used) < Inserted
    BY <1>0, <2>0, <2>2
  <2>6. QED
    BY <2>4, <2>5 DEF RingStep
<1>3. CASE /\ UNCHANGED <<frame, used>>
           /\ apc' \in {"put", "wait"} <=> apc \in {"put", "wait"}
  BY <1>3 DEF RingStep, Inserted
<1>4. CASE MainThread /\ ~(GetImage /\ num # 0)
  BY <1>3, <1>4
     DEF MainThread, GetImage, SignalProducer, Woken, Split, trigger_spe,
         sync_spe, JoinSubimages, ShowWaits, ShowImage, exit_spe, WaitSpus,
         acquisition, mainData
<1>5. ASSUME NEW n \in SliceIds, SpuProgram(n) PROVE RingStep
  <2>1. UNCHANGED hostVars
    BY <1>5 DEF SpuProgram, ReadInMbox, GetStruct, TooMuch, sidata_toLS,
       ElaborateAndPutStruct, sidata_toMM, WriteOutMbox, Transferred, SpuGoto
  <2>2. QED
    BY <1>3, <2>1 DEF hostVars, acquisition, mainData
<1>6. CASE WindowThread \/ WakeForNoReason
  BY <1>3, <1>6
     DEF WindowThread, main_idle, SignalListEmpty, DrawTexture, WakeForNoReason,
         acquisition, mainData
<1>7. CASE UNCHANGED vars
  BY <1>3, <1>7 DEF vars, acquisition, mainData
<1>8. QED
  BY <1>1, <1>2, <1>4, <1>5, <1>6, <1>7 DEF Next

(* What has been inserted is a prefix of what has been inserted later.     *)
LEMMA InsertedGrows ==
  ASSUME NEW i \in Nat,
         NEW s, s = [k \in 1 .. i |-> k],
         NEW t, t = [k \in 1 .. i + 1 |-> k]
  PROVE  Len(t) = Len(s) + 1 /\ Acquired!IsPrefix(s, t)
<1>1. s \in Seq(Nat) /\ t \in Seq(Nat) /\ Len(s) = i /\ Len(t) = i + 1
  OBVIOUS
<1>2. SubSeq(s, 1, i) = SubSeq(t, 1, i)
  BY <1>1
<1>3. QED
  BY <1>1, <1>2 DEF Acquired!IsPrefix

(* The images reach main in their order, none lost and none taken twice.   *)
THEOREM Frames == Spec => FramesArrive
<1> DEFINE sentBy == [c \in {1} |-> [k \in 1 .. Inserted |-> k]]
           takenBy == [c \in {1} |-> used]
<1>1. Init => Acquired!Init
  <2> SUFFICES ASSUME Init PROVE Acquired!Init
    OBVIOUS
  <2>1. Inserted = 0 /\ used = <<>>
    BY DEF Init, AcquisitionInit, Inserted
  <2>2. [k \in 1 .. 0 |-> k] = <<>>
    OBVIOUS
  <2>3. QED
    BY <2>1, <2>2 DEF Acquired!Init
<1>2. IInv /\ [Next]_vars => [Acquired!Next]_<<sentBy, takenBy>>
  <2> SUFFICES ASSUME IInv, [Next]_vars
               PROVE  [Acquired!Next]_<<sentBy, takenBy>>
    OBVIOUS
  <2>0. Inserted \in Nat /\ used \in Seq(Nat)
    BY DEF IInv, Queue, QueueTyping, Inserted
  <2>1. CASE Inserted' = Inserted /\ used' = used
    BY <2>1
  <2>2. CASE Inserted' = Inserted + 1 /\ used' = used
    <3>1. Len(sentBy'[1]) = Len(sentBy[1]) + 1 /\ Acquired!IsPrefix(sentBy[1], sentBy'[1])
      BY <2>0, <2>2, InsertedGrows
    <3>2. Acquired!Send(1)
      BY <2>2, <3>1 DEF Acquired!Send
    <3>3. QED
      BY <3>2 DEF Acquired!Next
  <2>3. CASE /\ Inserted' = Inserted
             /\ Len(used) < Inserted
             /\ used' = Append(used, Len(used) + 1)
    <3>1. /\ sentBy[1] \in Seq(Nat) /\ Len(sentBy[1]) = Inserted
          /\ Len(used) + 1 \in 1 .. Inserted
      BY <2>0, <2>3
    <3>2. sentBy[1][Len(used) + 1] = Len(used) + 1
      BY <3>1
    <3>3. takenBy' = [takenBy EXCEPT ![1] = Append(@, sentBy[1][Len(@) + 1])]
      BY <2>3, <3>2
    <3>4. Acquired!Deliver(1)
      BY <2>3, <3>1, <3>3 DEF Acquired!Deliver
    <3>5. QED
      BY <3>4 DEF Acquired!Next
  <2>4. QED
    BY <2>1, <2>2, <2>3, RingSteps DEF RingStep
<1>3. QED
  BY <1>1, <1>2, Invariance, PTL DEF Spec, FramesArrive, Acquired!Spec, Acquired!wireVars
-----------------------------------------------------------------------------
(* What main and the SPUs share.                                           *)
Struct == [data : Blocks, w : Nat, bytesAllocated : Nat]

(* Main has triggered SPU n and not yet seen its answer.                   *)
Triggered(n) == (mpc = "trigger" /\ n < spei) \/ (mpc = "sync" /\ n >= spei)
Closing == mpc \in {"exit", "wait", "join_acquisition"}

StructTyping ==
  /\ {siarray, sioutarray, mysubimage} \subseteq [SliceIds -> Struct]
  /\ inbox \in [SliceIds -> Seq({"ELAB_IMAGE", "EXIT_SPE_OP"})]
  /\ DOMAIN heap = Blocks
  /\ width \in Widths
  /\ mpc \notin {"trigger", "sync", "exit"} => spei = 0

(* The job of a triggered SPU is in its mailbox, in its hands, or answered *)
(* with the struct of the result in place.  The others have nothing to do. *)
Turn(n) ==
  IF Triggered(n)
  THEN \/ inbox[n] = <<"ELAB_IMAGE">> /\ outbox[n] = 0 /\ spc[n] = "idle"
       \/ inbox[n] = <<>> /\ outbox[n] = 0 /\ spc[n] # "idle"
       \/ /\ inbox[n] = <<>> /\ outbox[n] = 1 /\ spc[n] = "idle"
          /\ sioutarray[n] = siarray[n]
  ELSE /\ outbox[n] = 0
       /\ IF Closing
          THEN inbox[n] \in Seq({"EXIT_SPE_OP"}) /\ spc[n] \in {"idle", "ended"}
          ELSE inbox[n] = <<>> /\ spc[n] = "idle"

Answering(n) == mpc = "join" \/ (mpc = "sync" /\ n < spei)

Copies(n) ==
  /\ spc[n] \in {"toLS", "elaborate", "toMM", "answer"} => mysubimage[n] = siarray[n]
  /\ spc[n] \in {"toMM", "answer"} \/ Answering(n) => sioutarray[n] = siarray[n]

Allocated ==
  mpc \in {"trigger", "sync", "join"} =>
    \A n \in SliceIds : DOMAIN heap[siarray[n].data] # {}

HandOver ==
  /\ StructTyping
  /\ \A n \in SliceIds : Turn(n) /\ Copies(n)
  /\ Allocated
-----------------------------------------------------------------------------
(* A slice has at least one byte.                                          *)
LEMMA SliceStructType ==
  ASSUME NEW wd \in Widths, NEW n \in SliceIds, NEW b \in Blocks
  PROVE  /\ SliceStruct(wd, n, b) \in Struct
         /\ SliceStruct(wd, n, b).data = b
         /\ SliceStruct(wd, n, b).bytesAllocated >= 1
<1> DEFINE w == Columns(wd, n) + Borders(n)
           q == (w + Alignment - 1) \div Alignment
<1>0. /\ Threads \in Nat \ {0} /\ Alignment \in Nat \ {0} /\ Border \in Nat
      /\ wd \in Nat /\ wd >= Threads
  BY SlicesAssumption, CellCVAssumption
<1>1. wd \div Threads \in Nat /\ wd \div Threads >= 1
  BY <1>0
<1>2. Columns(wd, n) \in Nat /\ Columns(wd, n) >= 1
  BY <1>1 DEF Columns
<1>3. Borders(n) \in Nat
  BY <1>0 DEF Borders
<1>4. w \in Nat /\ w >= 1
  BY <1>2, <1>3
<1> HIDE DEF w
<1>5. q \in Nat /\ q >= 1
  <2>1. w + Alignment - 1 \in Nat /\ w + Alignment - 1 >= Alignment
    BY <1>0, <1>4
  <2>2. QED
    BY <1>0, <2>1
<1> HIDE DEF q
<1>6. q * Alignment \in Nat /\ q * Alignment >= 1
  BY <1>0, <1>5
<1>7. NextMultiple(w) = q * Alignment
  BY DEF NextMultiple, q
<1>8. SliceStruct(wd, n, b) = [data |-> b, w |-> w, bytesAllocated |-> NextMultiple(w)]
  BY DEF SliceStruct, w
<1>9. QED
  BY <1>4, <1>6, <1>7, <1>8 DEF Struct

(* There is some data for it.                                              *)
LEMMA SliceDataType ==
  ASSUME NEW img, NEW wd \in Widths, NEW n \in SliceIds
  PROVE  DOMAIN SliceData(img, wd, n) # {}
<1>0. 0 \in Blocks
  BY SlicesAssumption DEF Blocks
<1>1. DOMAIN SliceData(img, wd, n) = 0 .. SliceStruct(wd, n, 0).bytesAllocated - 1
  BY DEF SliceData
<1>2. /\ SliceStruct(wd, n, 0).bytesAllocated \in Nat
      /\ SliceStruct(wd, n, 0).bytesAllocated >= 1
  BY <1>0, SliceStructType DEF Struct
<1>3. QED
  BY <1>1, <1>2

(* At the start nothing has been triggered.                                *)
LEMMA InitHandOver == Init => HandOver
<1> SUFFICES ASSUME Init PROVE HandOver
  OBVIOUS
<1>0. SliceIds \subseteq Blocks
  BY SlicesAssumption DEF SliceIds, Blocks
<1>1. sioutarray \in [SliceIds -> Struct]
  BY <1>0, SliceStructType DEF Init
<1>2. StructTyping
  BY <1>1 DEF Init, SpuInit, StructTyping
<1>3. \A n \in SliceIds : Turn(n) /\ Copies(n)
  BY DEF Init, SpuInit, Turn, Copies, Triggered, Closing, Answering
<1>4. Allocated
  BY DEF Init, Allocated
<1>5. QED
  BY <1>2, <1>3, <1>4 DEF HandOver
-----------------------------------------------------------------------------
sharedVars == <<width, spei, structs, mailboxes, spus>>
Elsewhere == {"get", "waitimage", "signal", "split", "show", "waitlist", "insert"}

(* Nothing changes for the SPUs while main is elsewhere.                   *)
LEMMA HandOverFrame ==
  ASSUME HandOver, UNCHANGED sharedVars,
         mpc' = mpc \/ {mpc, mpc'} \subseteq Elsewhere
  PROVE  HandOver'
<1> USE DEF sharedVars, structs, mailboxes, spus, Elsewhere
<1>1. StructTyping' /\ Allocated'
  BY DEF HandOver, StructTyping, Allocated
<1>2. ASSUME NEW n \in SliceIds PROVE Turn(n)' /\ Copies(n)'
  BY DEF HandOver, Turn, Copies, Triggered, Closing, Answering
<1>3. QED
  BY <1>1, <1>2 DEF HandOver

(* The other threads leave the shared data alone, and main before it       *)
(* splits an image.                                                        *)
LEMMA ElsewhereStep ==
  ASSUME HandOver,
         \/ AcquisitionThread \/ WindowThread \/ WakeForNoReason
         \/ GetImage \/ SignalProducer \/ ShowWaits \/ UNCHANGED vars
  PROVE  HandOver'
<1>1. UNCHANGED sharedVars
  BY DEF AcquisitionThread, getTheImage, PutImage, SignalConsumer, WindowThread,
     main_idle, SignalListEmpty, DrawTexture, WakeForNoReason, GetImage,
     SignalProducer, ShowWaits, vars, sharedVars, mainData
<1>2. mpc' = mpc \/ {mpc, mpc'} \subseteq Elsewhere
  BY DEF AcquisitionThread, getTheImage, PutImage, SignalConsumer, WindowThread,
     main_idle, SignalListEmpty, DrawTexture, WakeForNoReason, GetImage,
     SignalProducer, ShowWaits, vars, Woken, Elsewhere
<1>3. QED
  BY <1>1, <1>2, HandOverFrame

(* New slices are made when all SPUs are idle.                             *)
LEMMA SplitStep ==
  ASSUME HandOver, Split
  PROVE  HandOver'
<1>1. PICK block \in [SliceIds -> {b \in Blocks : heap[b] = Free}] :
        /\ siarray' = [n \in SliceIds |-> SliceStruct(width, n, block[n])]
        /\ heap' = [b \in Blocks |->
                      IF b \in Range(block)
                      THEN SliceData(Frame(pInputImg), width,
                                     Inverse(block, SliceIds, Blocks)[b])
                      ELSE heap[b]]
  BY DEF Split
<1>2. /\ mpc = "split" /\ mpc' = "trigger"
      /\ UNCHANGED <<width, spei, sioutarray, inbox, outbox, spc, mysubimage>>
  BY DEF Split, mainData, mailboxes, spus
<1>3. width \in Widths /\ spei = 0
  BY <1>2 DEF HandOver, StructTyping
<1>4. \A n \in SliceIds : block[n] \in Blocks
  OBVIOUS
<1>5. StructTyping'
  <2>1. siarray' \in [SliceIds -> Struct]
    BY <1>1, <1>3, <1>4, SliceStructType
  <2>2. DOMAIN heap' = Blocks
    BY <1>1
  <2>3. QED
    BY <1>2, <1>3, <2>1, <2>2 DEF HandOver, StructTyping
<1>6. ASSUME NEW n \in SliceIds PROVE Turn(n)' /\ Copies(n)'
  <2>1. ~Triggered(n) /\ ~Triggered(n)' /\ ~Closing /\ ~Closing' /\ ~Answering(n)'
    BY <1>2, <1>3 DEF Triggered, Closing, Answering, SliceIds
  <2>2. spc[n] = "idle" /\ outbox[n] = 0 /\ inbox[n] = <<>>
    BY <2>1 DEF HandOver, Turn
  <2>3. QED
    BY <1>2, <2>1, <2>2 DEF Turn, Copies
<1>7. Allocated'
  <2>1. ASSUME NEW n \in SliceIds PROVE DOMAIN heap'[siarray'[n].data] # {}
    <3>1. siarray'[n].data = block[n] /\ block[n] \in Blocks
      BY <1>1, <1>3, <1>4, SliceStructType
    <3>2. block[n] \in Range(block)
      BY DEF Range
    <3>3. Inverse(block, SliceIds, Blocks)[block[n]] \in SliceIds
      <4>1. Inverse(block, SliceIds, Blocks)[block[n]]
              = CHOOSE k \in SliceIds : block[n] \in Range(block) => block[k] = block[n]
        BY <3>1 DEF Inverse
      <4>2. QED
        BY <4>1
    <3>4. heap'[block[n]] = SliceData(Frame(pInputImg), width,
                                      Inverse(block, SliceIds, Blocks)[block[n]])
      BY <1>1, <3>1, <3>2
    <3>5. QED
      BY <1>3, <3>1, <3>3, <3>4, SliceDataType
  <2>2. QED
    BY <2>1 DEF Allocated
<1>8. QED
  BY <1>5, <1>6, <1>7 DEF HandOver

(* The counter of a loop over the SPUs.                                    *)
LEMMA Counter ==
  ASSUME spei \in SliceIds
  PROVE  /\ spei = Threads - 1 => (spei + 1) % Threads = 0
         /\ spei # Threads - 1 =>
              (spei + 1) % Threads = spei + 1 /\ spei + 1 \in SliceIds
<1>1. spei \in 0 .. Threads - 1 /\ Threads \in Nat \ {0} /\ Threads > 1
  BY SlicesAssumption DEF SliceIds
<1>2. (spei + 1) % Threads = IF spei + 1 < Threads THEN spei + 1 ELSE spei + 1 - Threads
  BY <1>1, NextModulo
<1>3. QED
  BY <1>1, <1>2 DEF SliceIds

(* A message is put into an empty mailbox.                                 *)
LEMMA TriggerStep ==
  ASSUME TypeOK, HandOver, trigger_spe
  PROVE  HandOver'
<1>0. /\ spei \in SliceIds /\ SliceIds \subseteq Nat /\ Threads \in Nat
      /\ \A n \in SliceIds : n <= Threads - 1
  BY Ids DEF TypeOK
<1>1. /\ UNCHANGED <<width, structs, spus, outbox>>
      /\ inbox' = [inbox EXCEPT ![spei] = Append(@, "ELAB_IMAGE")]
      /\ mpc = "trigger"
      /\ mpc' = IF spei = Threads - 1 THEN "sync" ELSE "trigger"
      /\ spei' = (spei + 1) % Threads
  BY DEF trigger_spe, NextSpu, WriteInMbox
<1> USE DEF structs, spus
<1>2. ASSUME NEW n \in SliceIds
      PROVE  Triggered(n)' <=> Triggered(n) \/ n = spei
  BY <1>0, <1>1, Counter DEF Triggered
<1>3. StructTyping'
  BY <1>0, <1>1 DEF HandOver, StructTyping
<1>4. ~Triggered(spei) /\ inbox[spei] = <<>> /\ outbox[spei] = 0 /\ spc[spei] = "idle"
  BY <1>0, <1>1 DEF HandOver, Turn, Triggered, Closing
<1>5. inbox'[spei] = <<"ELAB_IMAGE">> /\ \A n \in SliceIds \ {spei} : inbox'[n] = inbox[n]
  BY <1>0, <1>1, <1>4 DEF HandOver, StructTyping
<1>6. ASSUME NEW n \in SliceIds PROVE Turn(n)'
  <2>1. CASE n = spei
    BY <1>1, <1>2, <1>4, <1>5, <2>1 DEF Turn
  <2>2. CASE n # spei
    <3>1. ~Closing /\ ~Closing'
      BY <1>1 DEF Closing
    <3>2. QED
      BY <1>1, <1>2, <1>5, <2>2, <3>1 DEF HandOver, Turn
  <2>3. QED
    BY <2>1, <2>2
<1>7. ASSUME NEW n \in SliceIds PROVE Copies(n)'
  <2>1. ~Answering(n)'
    BY <1>0, <1>1, Counter DEF Answering
  <2>2. QED
    BY <1>1, <2>1 DEF HandOver, Copies
<1>8. Allocated'
  BY <1>1 DEF HandOver, Allocated
<1>9. QED
  BY <1>3, <1>6, <1>7, <1>8 DEF HandOver

(* An answer that is read stands for a result that is in place.            *)
LEMMA SyncStep ==
  ASSUME TypeOK, HandOver, sync_spe
  PROVE  HandOver'
<1>0. /\ spei \in SliceIds /\ SliceIds \subseteq Nat /\ Threads \in Nat
      /\ outbox \in [SliceIds -> 0 .. 1]
      /\ \A n \in SliceIds : n <= Threads - 1
  BY Ids DEF TypeOK
<1>1. /\ UNCHANGED <<width, structs, spus, inbox>>
      /\ mpc = "sync"
      /\ mpc' = IF spei = Threads - 1 THEN "join" ELSE "sync"
      /\ spei' = (spei + 1) % Threads
      /\ outbox[spei] > 0
  BY DEF sync_spe, NextSpu, Answered
<1> USE DEF structs, spus
<1>2. outbox' = [outbox EXCEPT ![spei] = 0]
  <2>1. Max({outbox[spei] - 1, 0}) = 0
    BY <1>0, EmptiedMailbox
  <2>2. QED
    BY <2>1 DEF sync_spe
<1>3. ASSUME NEW n \in SliceIds
      PROVE  Triggered(n)' <=> Triggered(n) /\ n # spei
  BY <1>0, <1>1, Counter DEF Triggered
<1>4. Triggered(spei)
  BY <1>0, <1>1 DEF Triggered
<1>5. inbox[spei] = <<>> /\ spc[spei] = "idle" /\ sioutarray[spei] = siarray[spei]
  BY <1>0, <1>1, <1>4 DEF HandOver, Turn
<1>6. ~Closing /\ ~Closing'
  BY <1>1 DEF Closing
<1>7. StructTyping'
  BY <1>0, <1>1, Counter DEF HandOver, StructTyping
<1>8. ASSUME NEW n \in SliceIds PROVE Turn(n)'
  <2>1. CASE n = spei
    BY <1>0, <1>1, <1>2, <1>3, <1>5, <1>6, <2>1 DEF Turn
  <2>2. CASE n # spei
    BY <1>0, <1>1, <1>2, <1>3, <1>6, <2>2 DEF HandOver, Turn
  <2>3. QED
    BY <2>1, <2>2
<1>9. ASSUME NEW n \in SliceIds PROVE Copies(n)'
  <2>1. Answering(n)' => Answering(n) \/ n = spei
    BY <1>0, <1>1, Counter DEF Answering
  <2>2. QED
    BY <1>1, <1>5, <2>1 DEF HandOver, Copies
<1>10. Allocated'
  BY <1>1 DEF HandOver, Allocated
<1>11. QED
  BY <1>7, <1>8, <1>9, <1>10 DEF HandOver

(* Joining frees the data when all answers have been read.                 *)
LEMMA JoinStep ==
  ASSUME HandOver, JoinSubimages
  PROVE  HandOver'
<1>1. /\ UNCHANGED <<width, spei, siarray, sioutarray, mailboxes, spus>>
      /\ mpc = "join" /\ mpc' = "show"
      /\ DOMAIN heap' = Blocks
  BY DEF JoinSubimages
<1>2. StructTyping' /\ Allocated'
  BY <1>1 DEF HandOver, StructTyping, Allocated, mailboxes, spus
<1>3. ASSUME NEW n \in SliceIds PROVE Turn(n)' /\ Copies(n)'
  BY <1>1 DEF HandOver, Turn, Copies, Triggered, Closing, Answering, mailboxes, spus
<1>4. QED
  BY <1>2, <1>3 DEF HandOver

(* From the last image on the SPUs get nothing but the message to end.     *)
LEMMA ClosingStep ==
  ASSUME TypeOK, HandOver, ShowImage \/ exit_spe \/ WaitSpus
  PROVE  HandOver'
<1>0. spei \in SliceIds
  BY DEF TypeOK
<1>1. CASE ShowImage
  <2>1. /\ UNCHANGED <<width, spei, structs, mailboxes, spus>>
        /\ mpc \in {"show", "insert"} /\ mpc' \in {"get", "exit"}
    BY <1>1 DEF ShowImage, mainData
  <2>2. StructTyping' /\ Allocated'
    BY <2>1 DEF HandOver, StructTyping, Allocated, structs, mailboxes, spus
  <2>3. ASSUME NEW n \in SliceIds PROVE Turn(n)' /\ Copies(n)'
    <3>1. /\ ~Triggered(n) /\ ~Triggered(n)' /\ ~Closing
          /\ ~Answering(n) /\ ~Answering(n)'
      BY <2>1 DEF Triggered, Closing, Answering
    <3>2. inbox[n] = <<>> /\ outbox[n] = 0 /\ spc[n] = "idle"
      BY <3>1 DEF HandOver, Turn
    <3>3. inbox'[n] = <<>> /\ outbox'[n] = 0 /\ spc'[n] = "idle"
      BY <2>1, <3>2 DEF mailboxes, spus
    <3>4. <<>> \in Seq({"EXIT_SPE_OP"})
      OBVIOUS
    <3>5. Turn(n)'
      BY <3>1, <3>3, <3>4 DEF Turn
    <3>6. QED
      BY <3>1, <3>3, <3>5 DEF Copies
  <2>4. QED
    BY <2>2, <2>3 DEF HandOver
<1>2. CASE exit_spe
  <2>1. /\ UNCHANGED <<width, structs, outbox, spus>>
        /\ inbox' = [inbox EXCEPT ![spei] = Append(@, "EXIT_SPE_OP")]
        /\ mpc = "exit"
        /\ mpc' = IF spei = Threads - 1 THEN "wait" ELSE "exit"
        /\ spei' = (spei + 1) % Threads
    BY <1>2 DEF exit_spe, NextSpu, WriteInMbox
  <2>2. StructTyping' /\ Allocated'
    BY <1>0, <2>1, Counter DEF HandOver, StructTyping, Allocated, structs, spus
  <2>3. ASSUME NEW n \in SliceIds PROVE Turn(n)'
    <3>1. ~Triggered(n) /\ ~Triggered(n)' /\ Closing /\ Closing'
      BY <2>1 DEF Triggered, Closing
    <3>2. inbox[n] \in Seq({"EXIT_SPE_OP"}) /\ n \in DOMAIN inbox
      BY <3>1 DEF HandOver, Turn, StructTyping
    <3>3. inbox'[n] \in Seq({"EXIT_SPE_OP"})
      BY <2>1, <3>2
    <3>4. QED
      BY <2>1, <3>1, <3>3 DEF HandOver, Turn, spus
  <2>4. ASSUME NEW n \in SliceIds PROVE Copies(n)'
    BY <2>1 DEF HandOver, Copies, Answering, structs, spus
  <2>5. QED
    BY <2>2, <2>3, <2>4 DEF HandOver
<1>3. CASE WaitSpus
  <2>1. /\ UNCHANGED <<width, spei, structs, mailboxes, spus>>
        /\ mpc = "wait" /\ mpc' = "join_acquisition"
    BY <1>3 DEF WaitSpus, mainData
  <2>2. StructTyping' /\ Allocated'
    BY <2>1 DEF HandOver, StructTyping, Allocated, structs, mailboxes, spus
  <2>3. ASSUME NEW n \in SliceIds PROVE Turn(n)' /\ Copies(n)'
    BY <2>1 DEF HandOver, Turn, Copies, Triggered, Closing, Answering,
       structs, mailboxes, spus
  <2>4. QED
    BY <2>2, <2>3 DEF HandOver
<1>4. QED
  BY <1>1, <1>2, <1>3
-----------------------------------------------------------------------------
(* Steps of an SPU.  A busy one has been triggered and not yet awaited.    *)
LEMMA Busy ==
  ASSUME TypeOK, HandOver, NEW n \in SliceIds, spc[n] \notin {"idle", "ended"}
  PROVE  /\ Triggered(n) /\ inbox[n] = <<>> /\ outbox[n] = 0
         /\ mpc \in {"trigger", "sync"} /\ ~Answering(n) /\ siarray[n] \in Struct
<1>1. Triggered(n)
  BY DEF HandOver, Turn
<1>2. inbox[n] = <<>> /\ outbox[n] = 0
  BY <1>1 DEF HandOver, Turn
<1>3. mpc \in {"trigger", "sync"} /\ siarray[n] \in Struct
  BY <1>1 DEF Triggered, HandOver, StructTyping
<1>4. ~Answering(n)
  <2>1. mpc = "sync" => n >= spei
    BY <1>1, <1>3 DEF Triggered
  <2>2. CASE mpc = "trigger"
    BY <2>2 DEF Answering
  <2>3. CASE mpc = "sync"
    <3>1. n \in Nat /\ spei \in Nat
      BY Ids DEF TypeOK
    <3>2. QED
      BY <2>1, <2>3, <3>1 DEF Answering
  <2>4. QED
    BY <1>3, <2>2, <2>3
<1>5. QED
  BY <1>1, <1>2, <1>3, <1>4

(* The step of one SPU touches nothing of the others, nor of main, and no  *)
(* block appears or disappears.                                            *)
Local(n) ==
  /\ UNCHANGED <<width, mpc, spei, siarray>>
  /\ DOMAIN heap' = DOMAIN heap
  /\ \A b \in Blocks : DOMAIN heap'[b] = DOMAIN heap[b]
  /\ \A m \in SliceIds \ {n} :
       /\ inbox'[m] = inbox[m] /\ outbox'[m] = outbox[m] /\ spc'[m] = spc[m]
       /\ mysubimage'[m] = mysubimage[m] /\ sioutarray'[m] = sioutarray[m]

(* Every step of an SPU program is local in this sense.                    *)
LEMMA SpuIsLocal ==
  ASSUME TypeOK, HandOver, NEW n \in SliceIds, SpuProgram(n)
  PROVE  Local(n)
<1>1. UNCHANGED <<width, mpc, spei, siarray>>
  BY DEF SpuProgram, ReadInMbox, GetStruct, TooMuch, sidata_toLS,
     ElaborateAndPutStruct, sidata_toMM, WriteOutMbox, Transferred, SpuGoto,
     hostVars, mainData
<1>2. heap' = heap \/ heap' = [heap EXCEPT ![mysubimage[n].data] =
                                 Copied(n, bigbuffer[n], @)]
  BY DEF SpuProgram, ReadInMbox, GetStruct, TooMuch, sidata_toLS,
     ElaborateAndPutStruct, sidata_toMM, WriteOutMbox
<1>3. \A from, to : DOMAIN Copied(n, from, to) = DOMAIN to
  BY DEF Copied
<1>4. DOMAIN heap' = DOMAIN heap /\ \A b \in Blocks : DOMAIN heap'[b] = DOMAIN heap[b]
  <2>1. DOMAIN heap = Blocks
    BY DEF HandOver, StructTyping
  <2>2. QED
    BY <1>2, <1>3, <2>1
<1>5. ASSUME NEW m \in SliceIds \ {n}
      PROVE  /\ inbox'[m] = inbox[m] /\ outbox'[m] = outbox[m] /\ spc'[m] = spc[m]
             /\ mysubimage'[m] = mysubimage[m] /\ sioutarray'[m] = sioutarray[m]
  BY DEF SpuProgram, ReadInMbox, GetStruct, TooMuch, sidata_toLS,
     ElaborateAndPutStruct, sidata_toMM, WriteOutMbox, Transferred, SpuGoto,
     mailboxes, TypeOK, HandOver, StructTyping
<1>6. QED
  BY <1>1, <1>4, <1>5 DEF Local

(* A local step preserves the invariant if it does for its own SPU.        *)
LEMMA LocalStep ==
  ASSUME HandOver, NEW n \in SliceIds, Local(n),
         {sioutarray', mysubimage'} \subseteq [SliceIds -> Struct],
         inbox' \in [SliceIds -> Seq({"ELAB_IMAGE", "EXIT_SPE_OP"})],
         Turn(n)', Copies(n)'
  PROVE  HandOver'
<1>1. StructTyping'
  BY DEF HandOver, StructTyping, Local
<1>2. ASSUME NEW m \in SliceIds \ {n} PROVE Turn(m)' /\ Copies(m)'
  BY DEF HandOver, Turn, Copies, Triggered, Closing, Answering, Local
<1>3. Allocated'
  <2>1. \A m \in SliceIds : siarray[m].data \in Blocks
    BY DEF HandOver, StructTyping, Struct
  <2>2. QED
    BY <2>1 DEF HandOver, Allocated, Local
<1>4. QED
  BY <1>1, <1>2, <1>3 DEF HandOver

(* A message is read when the SPU is idle.                                 *)
LEMMA ReadInMboxStep ==
  ASSUME TypeOK, HandOver, NEW n \in SliceIds, ReadInMbox(n)
  PROVE  HandOver'
<1>1. Local(n)
  BY SpuIsLocal DEF SpuProgram
<1>2. /\ inbox[n] # <<>> /\ spc[n] = "idle"
      /\ spc' = [spc EXCEPT ![n] = IF Head(inbox[n]) = "ELAB_IMAGE" THEN "get" ELSE "ended"]
      /\ inbox' = [inbox EXCEPT ![n] = Tail(@)]
      /\ UNCHANGED <<outbox, sioutarray, mysubimage>>
  BY DEF ReadInMbox, SpuGoto
<1>3. /\ inbox \in [SliceIds -> Seq({"ELAB_IMAGE", "EXIT_SPE_OP"})]
      /\ {sioutarray, mysubimage} \subseteq [SliceIds -> Struct]
  BY DEF HandOver, StructTyping
<1>4. inbox' \in [SliceIds -> Seq({"ELAB_IMAGE", "EXIT_SPE_OP"})]
  BY <1>2, <1>3
<1>5. /\ Triggered(n)' <=> Triggered(n)
      /\ Closing' <=> Closing
      /\ Answering(n)' <=> Answering(n)
  BY <1>1 DEF Local, Triggered, Closing, Answering
<1>6. Turn(n)'
  <2>1. CASE Triggered(n)
    <3>1. inbox[n] = <<"ELAB_IMAGE">> /\ outbox[n] = 0
      BY <1>2, <2>1 DEF HandOver, Turn
    <3>2. Head(<<"ELAB_IMAGE">>) = "ELAB_IMAGE" /\ Tail(<<"ELAB_IMAGE">>) = <<>>
      OBVIOUS
    <3>3. spc' = [spc EXCEPT ![n] = "get"] /\ inbox' = [inbox EXCEPT ![n] = <<>>]
      BY <1>2, <3>1, <3>2
    <3>4. inbox'[n] = <<>> /\ spc'[n] = "get"
      BY <1>3, <3>3 DEF TypeOK
    <3>5. QED
      BY <1>2, <1>5, <2>1, <3>1, <3>4 DEF Turn
  <2>2. CASE ~Triggered(n)
    <3>1. Closing /\ outbox[n] = 0 /\ inbox[n] \in Seq({"EXIT_SPE_OP"})
      BY <1>2, <2>2 DEF HandOver, Turn
    <3>2. Head(inbox[n]) = "EXIT_SPE_OP" /\ Tail(inbox[n]) \in Seq({"EXIT_SPE_OP"})
      BY <1>2, <3>1
    <3>3. spc'[n] = "ended" /\ inbox'[n] \in Seq({"EXIT_SPE_OP"})
      BY <1>2, <1>3, <3>2 DEF TypeOK
    <3>4. QED
      BY <1>2, <1>5, <2>2, <3>1, <3>3 DEF Turn
  <2>3. QED
    BY <2>1, <2>2
<1>7. Copies(n)'
  <2>1. spc'[n] \in {"get", "ended"}
    BY <1>2 DEF TypeOK
  <2>2. Answering(n) => sioutarray[n] = siarray[n]
    BY DEF HandOver, Copies
  <2>3. QED
    BY <1>1, <1>2, <1>5, <2>1, <2>2 DEF Copies, Local
<1>8. QED
  BY <1>1, <1>2, <1>3, <1>4, <1>6, <1>7, LocalStep

(* While the SPU works nothing is in its mailboxes.                        *)
LEMMA WorkingStep ==
  ASSUME TypeOK, HandOver, NEW n \in SliceIds,
         \/ GetStruct(n) \/ TooMuch(n) \/ sidata_toLS(n)
         \/ ElaborateAndPutStruct(n) \/ sidata_toMM(n)
  PROVE  HandOver'
<1>1. Local(n)
  BY SpuIsLocal DEF SpuProgram
<1>2. UNCHANGED mailboxes
  BY DEF GetStruct, TooMuch, sidata_toLS, ElaborateAndPutStruct, sidata_toMM
<1>3. /\ spc[n] \in {"get", "toLS", "elaborate", "toMM"}
      /\ spc'[n] \in {"toLS", "elaborate", "toMM", "answer", "ended"}
  BY DEF GetStruct, TooMuch, sidata_toLS, ElaborateAndPutStruct, sidata_toMM,
     Transferred, SpuGoto, TypeOK
<1>4. /\ Triggered(n) /\ inbox[n] = <<>> /\ outbox[n] = 0
      /\ ~Answering(n) /\ siarray[n] \in Struct
  BY <1>3, Busy
<1>5. /\ Triggered(n)' <=> Triggered(n)
      /\ Answering(n)' <=> Answering(n)
  BY <1>1 DEF Local, Triggered, Answering
<1>6. Turn(n)'
  BY <1>2, <1>3, <1>4, <1>5 DEF Turn, mailboxes
<1>7. inbox' \in [SliceIds -> Seq({"ELAB_IMAGE", "EXIT_SPE_OP"})]
  BY <1>2 DEF HandOver, StructTyping, mailboxes
<1>8. /\ {sioutarray', mysubimage'} \subseteq [SliceIds -> Struct]
      /\ Copies(n)'
  <2>0. /\ {siarray, sioutarray, mysubimage} \subseteq [SliceIds -> Struct]
        /\ siarray' = siarray
    BY <1>1 DEF HandOver, StructTyping, Local
  <2>1. CASE GetStruct(n) \/ TooMuch(n)
    <3>1. mysubimage' = [mysubimage EXCEPT ![n] = siarray[n]] /\ sioutarray' = sioutarray
      BY <2>1 DEF GetStruct, TooMuch
    <3>2. spc'[n] \notin {"toMM", "answer"}
      BY <2>1 DEF GetStruct, TooMuch, SpuGoto, TypeOK
    <3>3. QED
      BY <1>4, <1>5, <2>0, <3>1, <3>2 DEF Copies
  <2>2. CASE sidata_toLS(n) \/ sidata_toMM(n)
    <3>1. UNCHANGED <<mysubimage, sioutarray>>
      BY <2>2 DEF sidata_toLS, sidata_toMM
    <3>2. /\ spc[n] \in {"toLS", "toMM"}
          /\ spc'[n] \in {"toMM", "answer"} => spc[n] = "toMM"
      BY <2>2 DEF sidata_toLS, sidata_toMM, Transferred, SpuGoto, TypeOK
    <3>3. QED
      BY <1>4, <1>5, <2>0, <3>1, <3>2 DEF HandOver, Copies
  <2>3. CASE ElaborateAndPutStruct(n)
    <3>1. /\ sioutarray' = [sioutarray EXCEPT ![n] = mysubimage[n]]
          /\ mysubimage' = mysubimage /\ spc[n] = "elaborate"
      BY <2>3 DEF ElaborateAndPutStruct, SpuGoto
    <3>2. mysubimage[n] = siarray[n]
      BY <3>1 DEF HandOver, Copies
    <3>3. QED
      BY <1>4, <2>0, <3>1, <3>2 DEF Copies
  <2>4. QED
    BY <2>1, <2>2, <2>3
<1>9. QED
  BY <1>1, <1>6, <1>7, <1>8, LocalStep

(* The answer is given when the result is in place.                        *)
LEMMA WriteOutMboxStep ==
  ASSUME TypeOK, HandOver, NEW n \in SliceIds, WriteOutMbox(n)
  PROVE  HandOver'
<1>1. Local(n)
  BY SpuIsLocal DEF SpuProgram
<1>2. /\ UNCHANGED <<inbox, sioutarray, mysubimage>>
      /\ spc[n] = "answer" /\ spc'[n] = "idle" /\ outbox'[n] = 1
  BY DEF WriteOutMbox, SpuGoto, TypeOK
<1>3. /\ Triggered(n) /\ inbox[n] = <<>> /\ ~Answering(n)
  BY <1>2, Busy
<1>4. /\ Triggered(n)' <=> Triggered(n)
      /\ Answering(n)' <=> Answering(n)
  BY <1>1 DEF Local, Triggered, Answering
<1>5. sioutarray[n] = siarray[n]
  BY <1>2 DEF HandOver, Copies
<1>6. Turn(n)'
  BY <1>1, <1>2, <1>3, <1>4, <1>5 DEF Turn, Local
<1>7. Copies(n)'
  BY <1>2, <1>3, <1>4 DEF Copies
<1>8. QED
  BY <1>1, <1>2, <1>6, <1>7, LocalStep DEF HandOver, StructTyping
-----------------------------------------------------------------------------
(* Every step preserves the invariant.                                     *)
LEMMA StepHandOver == TypeOK /\ HandOver /\ [Next]_vars => HandOver'
<1> SUFFICES ASSUME TypeOK, HandOver, [Next]_vars PROVE HandOver'
  OBVIOUS
<1>1. CASE UNCHANGED vars
  BY <1>1, ElsewhereStep
<1>2. CASE AcquisitionThread \/ WindowThread \/ WakeForNoReason
  BY <1>2, ElsewhereStep
<1>3. CASE MainThread
  BY <1>3, ElsewhereStep, SplitStep, TriggerStep, SyncStep, JoinStep, ClosingStep
     DEF MainThread
<1>4. ASSUME NEW n \in SliceIds, SpuProgram(n) PROVE HandOver'
  BY <1>4, ReadInMboxStep, WorkingStep, WriteOutMboxStep DEF SpuProgram
<1>5. QED
  BY <1>1, <1>2, <1>3, <1>4 DEF Next
-----------------------------------------------------------------------------
(* The slices of the image that is worked on, each with data of its own.   *)
Working == mpc \in {"trigger", "sync", "join"}

Cut ==
  Working =>
    /\ \A n \in SliceIds : siarray[n] = SliceStruct(width, n, siarray[n].data)
    /\ \A m, n \in SliceIds : m # n => siarray[m].data # siarray[n].data

(* How the data of slice n is in main memory: as it was cut, as it was     *)
(* elaborated, or in between, while the result is transferred.             *)
Finished(n) == Answering(n) \/ spc[n] = "answer" \/ outbox[n] = 1

Mixed(wd, f, n, k) ==
  [j \in 0 .. Size(wd, n) - 1 |-> IF j < k THEN Made(wd, f, n)[j] ELSE Given(wd, f, n)[j]]

InMemory(n) ==
  Working =>
    heap[siarray[n].data] =
      IF Finished(n) THEN Made(width, pInputImg, n)
      ELSE IF spc[n] = "toMM" THEN Mixed(width, pInputImg, n, copied[n])
      ELSE Given(width, pInputImg, n)

(* How it is in the local store of the SPU.                                *)
InLocal(n) ==
  /\ spc[n] = "toLS" =>
       \A j \in 0 .. copied[n] - 1 : bigbuffer[n][j] = Given(width, pInputImg, n)[j]
  /\ spc[n] = "elaborate" =>
       \A j \in 0 .. Size(width, n) - 1 : bigbuffer[n][j] = Given(width, pInputImg, n)[j]
  /\ spc[n] = "toMM" =>
       \A j \in 0 .. Size(width, n) - 1 : bigbuffer[n][j] = Made(width, pInputImg, n)[j]

(* How far the transfers have come.                                        *)
Progress(n) ==
  /\ copied[n] \in Nat
  /\ spc[n] \in {"toLS", "elaborate", "toMM"} => Size(width, n) <= LocalBuffer
  /\ spc[n] \in {"toLS", "toMM"} => copied[n] < Size(width, n)
  /\ spc[n] \notin {"toLS", "toMM"} => copied[n] = 0
  /\ Aligned(copied[n])

DataTyping ==
  /\ DOMAIN bigbuffer = SliceIds /\ DOMAIN copied = SliceIds
  /\ \A n \in SliceIds : DOMAIN bigbuffer[n] = 0 .. LocalBuffer - 1

Data ==
  /\ DataTyping /\ Cut /\ InsideImage
  /\ \A n \in SliceIds : InMemory(n) /\ InLocal(n) /\ Progress(n)

(* A frame, and what it is to become.                                      *)
LEMMA FrameRow == \A f : Frame(f) = Row(width, f)
BY DEF Frame, Row

(* While main does not work on slices, the SPUs are not busy either.       *)
LEMMA QuietSpus ==
  ASSUME TypeOK, HandOver, ~Working, NEW n \in SliceIds
  PROVE  spc[n] \in {"idle", "ended"}
BY Busy DEF Working

(* Steps before and after main works on slices.                            *)
LEMMA QuietStep ==
  ASSUME TypeOK, HandOver, Data, ~Working, ~Working', UNCHANGED <<width, heap, spus>>
  PROVE  Data'
<1>1. DataTyping' /\ InsideImage'
  BY DEF Data, DataTyping, InsideImage, spus
<1>2. Cut'
  BY DEF Cut
<1>3. ASSUME NEW n \in SliceIds PROVE InMemory(n)' /\ InLocal(n)' /\ Progress(n)'
  <2>1. spc[n] \in {"idle", "ended"}
    BY QuietSpus
  <2>2. spc'[n] = spc[n] /\ copied'[n] = copied[n]
    BY DEF spus
  <2>3. InMemory(n)'
    BY DEF InMemory
  <2>4. InLocal(n)' /\ Progress(n)'
    BY <2>1, <2>2 DEF Data, InLocal, Progress
  <2>5. QED
    BY <2>3, <2>4
<1>4. QED
  BY <1>1, <1>2, <1>3 DEF Data

(* Steps of main and the other threads that leave the slices alone.        *)
LEMMA SameStep ==
  ASSUME Data, UNCHANGED <<width, pInputImg, structs, spus>>, Working <=> Working',
         \A n \in SliceIds : Working => (Finished(n)' <=> Finished(n))
  PROVE  Data'
<1>1. DataTyping' /\ InsideImage' /\ Cut'
  BY DEF Data, DataTyping, InsideImage, Cut, spus, structs
<1>2. ASSUME NEW n \in SliceIds PROVE InMemory(n)' /\ InLocal(n)' /\ Progress(n)'
  <2>1. InLocal(n)' /\ Progress(n)'
    BY DEF Data, InLocal, Progress, spus
  <2>2. InMemory(n)'
    BY DEF Data, InMemory, structs, spus
  <2>3. QED
    BY <2>1, <2>2
<1>3. QED
  BY <1>1, <1>2 DEF Data

(* At the start.                                                           *)
LEMMA InitData == Init => Data
<1> SUFFICES ASSUME Init PROVE Data
  OBVIOUS
<1>1. DataTyping
  BY DEF Init, SpuInit, DataTyping
<1>2. Cut /\ \A n \in SliceIds : InMemory(n)
  BY DEF Init, Cut, InMemory, Working
<1>3. \A n \in SliceIds : InLocal(n) /\ Progress(n)
  <2>1. Aligned(0)
    <3>1. 0 = 0 * Alignment
      BY SlicesAssumption
    <3>2. QED
      BY <3>1 DEF Aligned
  <2>2. QED
    BY <2>1 DEF Init, SpuInit, InLocal, Progress
<1>4. InsideImage
  <2>1. ASSUME NEW b \in Blocks, NEW j \in DOMAIN heap[b] PROVE heap[b][j] # Outside
    <3>1. CASE b \in SliceIds
      <4>1. heap[b] = Given(width, 0, b)
        BY <3>1, FrameRow DEF Init, Given
      <4>2. width \in Widths
        BY DEF Init
      <4>3. j \in 0 .. Size(width, b) - 1
        BY <3>1, <4>1, <4>2, GivenValues
      <4>4. QED
        BY <3>1, <4>1, <4>2, <4>3, SlicesInside
    <3>2. CASE b \notin SliceIds
      <4>1. heap[b] = Free
        BY <3>2 DEF Init
      <4>2. QED
        BY <4>1 DEF Free
    <3>3. QED
      BY <3>1, <3>2
  <2>2. QED
    BY <2>1 DEF InsideImage
<1>5. QED
  BY <1>1, <1>2, <1>3, <1>4 DEF Data

(* The threads of the acquisition and the window, and main elsewhere.      *)
LEMMA ElsewhereData ==
  ASSUME TypeOK, HandOver, Data,
         \/ AcquisitionThread \/ WindowThread \/ WakeForNoReason
         \/ GetImage \/ SignalProducer \/ ShowWaits \/ ShowImage
         \/ exit_spe \/ WaitSpus \/ UNCHANGED vars
  PROVE  Data'
<1>1. UNCHANGED <<width, structs, spus>>
  BY DEF AcquisitionThread, getTheImage, PutImage, SignalConsumer, WindowThread,
     main_idle, SignalListEmpty, DrawTexture, WakeForNoReason, GetImage,
     SignalProducer, ShowWaits, ShowImage, exit_spe, WaitSpus, vars
<1>2. \/ UNCHANGED <<mpc, spei, pInputImg, outbox>>
      \/ ~Working /\ ~Working'
  BY DEF AcquisitionThread, getTheImage, PutImage, SignalConsumer, WindowThread,
     main_idle, SignalListEmpty, DrawTexture, WakeForNoReason, GetImage, NextSpu,
     SignalProducer, ShowWaits, ShowImage, exit_spe, WaitSpus, vars, Woken, Working,
     mainData, mailboxes
<1>3. CASE UNCHANGED <<mpc, spei, pInputImg, outbox>>
  <2>1. Working <=> Working'
    BY <1>3 DEF Working
  <2>2. \A n \in SliceIds : Finished(n)' <=> Finished(n)
    BY <1>1, <1>3 DEF Finished, Answering, spus
  <2>3. QED
    BY <1>1, <1>3, <2>1, <2>2, SameStep
<1>4. CASE ~Working /\ ~Working'
  BY <1>1, <1>4, QuietStep DEF structs
<1>5. QED
  BY <1>2, <1>3, <1>4

(* Main triggers the SPUs and reads their answers.                         *)
LEMMA TriggerData ==
  ASSUME TypeOK, Data, trigger_spe
  PROVE  Data'
<1>0. spei \in SliceIds /\ SliceIds \subseteq Nat
  BY Ids DEF TypeOK
<1>1. /\ UNCHANGED <<width, pInputImg, structs, spus, outbox>>
      /\ mpc = "trigger"
      /\ mpc' = IF spei = Threads - 1 THEN "sync" ELSE "trigger"
      /\ spei' = (spei + 1) % Threads
  BY DEF trigger_spe, NextSpu, WriteInMbox
<1>2. Working /\ Working'
  BY <1>1 DEF Working
<1>3. \A n \in SliceIds : ~Answering(n) /\ ~Answering(n)'
  BY <1>0, <1>1, Counter DEF Answering
<1>4. \A n \in SliceIds : Finished(n)' <=> Finished(n)
  BY <1>1, <1>3 DEF Finished, spus
<1>5. QED
  BY <1>1, <1>2, <1>4, SameStep

(* An answer that is read stands for finished data.                        *)
LEMMA SyncData ==
  ASSUME TypeOK, Data, sync_spe
  PROVE  Data'
<1>0. /\ spei \in SliceIds /\ SliceIds \subseteq Nat /\ Threads \in Nat
      /\ outbox \in [SliceIds -> 0 .. 1]
      /\ \A n \in SliceIds : n <= Threads - 1
  BY Ids DEF TypeOK
<1>1. /\ UNCHANGED <<width, pInputImg, structs, spus>>
      /\ mpc = "sync"
      /\ mpc' = IF spei = Threads - 1 THEN "join" ELSE "sync"
      /\ spei' = (spei + 1) % Threads
      /\ outbox[spei] > 0
      /\ \A n \in SliceIds \ {spei} : outbox'[n] = outbox[n]
  BY <1>0 DEF sync_spe, NextSpu, Answered
<1>2. Working /\ Working'
  BY <1>1 DEF Working
<1>3. \A n \in SliceIds : Answering(n)' <=> Answering(n) \/ n = spei
  BY <1>0, <1>1, Counter DEF Answering
<1>4. outbox[spei] = 1
  BY <1>0, <1>1
<1>5. \A n \in SliceIds : Finished(n)' <=> Finished(n)
  BY <1>1, <1>3, <1>4 DEF Finished, spus
<1>6. QED
  BY <1>1, <1>2, <1>5, SameStep

(* The image is cut when no SPU is busy.                                   *)
LEMMA SplitData ==
  ASSUME TypeOK, HandOver, Data, Split
  PROVE  Data'
<1>1. PICK block \in [SliceIds -> {b \in Blocks : heap[b] = Free}] :
        /\ \A m, n \in SliceIds : m < n => block[m] < block[n]
        /\ siarray' = [n \in SliceIds |-> SliceStruct(width, n, block[n])]
        /\ heap' = [b \in Blocks |->
                      IF b \in Range(block)
                      THEN SliceData(Frame(pInputImg), width,
                                     Inverse(block, SliceIds, Blocks)[b])
                      ELSE heap[b]]
  BY DEF Split
<1>2. /\ mpc = "split" /\ mpc' = "trigger"
      /\ UNCHANGED <<width, pInputImg, outbox, spc, bigbuffer, copied>>
  BY DEF Split, mainData, mailboxes, spus
<1>3. width \in Widths
  BY DEF HandOver, StructTyping
<1>4. ASSUME NEW m \in SliceIds, NEW n \in SliceIds, m # n PROVE block[m] # block[n]
  <2>1. m \in Nat /\ n \in Nat
    BY Ids
  <2>2. block[m] \in Nat /\ block[n] \in Nat
    <3>1. Blocks \subseteq Nat
      BY SlicesAssumption DEF Blocks
    <3>2. QED
      BY <3>1
  <2>3. m < n \/ n < m
    BY <1>4, <2>1
  <2>4. QED
    BY <1>1, <2>2, <2>3
<1>5. Range(block) = {block[n] : n \in SliceIds}
  BY DEF Range
<1>6. ASSUME NEW n \in SliceIds PROVE heap'[block[n]] = Given(width, pInputImg, n)
  <2>1. block[n] \in Blocks /\ block[n] \in Range(block)
    BY <1>5
  <2>2. Inverse(block, SliceIds, Blocks)[block[n]]
          = CHOOSE k \in SliceIds : block[n] \in Range(block) => block[k] = block[n]
    BY <2>1 DEF Inverse
  <2>3. Inverse(block, SliceIds, Blocks)[block[n]] = n
    BY <1>4, <2>1, <2>2
  <2>4. heap'[block[n]] = SliceData(Frame(pInputImg), width, n)
    BY <1>1, <2>1, <2>3
  <2>5. QED
    BY <2>4, FrameRow DEF Given
<1>7. ASSUME NEW n \in SliceIds
      PROVE  siarray'[n] = SliceStruct(width, n, block[n]) /\ siarray'[n].data = block[n]
  BY <1>1, StructFields
<1>8. DataTyping'
  BY <1>2 DEF Data, DataTyping
<1>9. Cut'
  BY <1>2, <1>4, <1>7 DEF Cut
<1>10. InsideImage'
  <2>1. ASSUME NEW b \in Blocks, NEW j \in DOMAIN heap'[b] PROVE heap'[b][j] # Outside
    <3>1. CASE b \in Range(block)
      <4>1. PICK n \in SliceIds : b = block[n]
        BY <1>5, <3>1
      <4>2. heap'[b] = Given(width, pInputImg, n)
        BY <1>6, <4>1
      <4>3. j \in 0 .. Size(width, n) - 1
        BY <1>3, <4>2, GivenValues
      <4>4. QED
        BY <1>3, <4>2, <4>3, SlicesInside
    <3>2. CASE b \notin Range(block)
      <4>1. heap'[b] = heap[b]
        BY <1>1, <3>2
      <4>2. QED
        BY <4>1 DEF Data, InsideImage
    <3>3. QED
      BY <3>1, <3>2
  <2>2. QED
    BY <2>1 DEF InsideImage
<1>11. ASSUME NEW n \in SliceIds PROVE InMemory(n)' /\ InLocal(n)' /\ Progress(n)'
  <2>1. ~Triggered(n) /\ ~Closing /\ ~Answering(n)'
    BY <1>2 DEF Triggered, Closing, Answering
  <2>2. spc[n] = "idle" /\ outbox[n] = 0
    BY <2>1 DEF HandOver, Turn
  <2>3. ~Finished(n)'
    BY <1>2, <2>1, <2>2 DEF Finished
  <2>4. InMemory(n)'
    BY <1>2, <1>6, <1>7, <2>2, <2>3 DEF InMemory
  <2>5. InLocal(n)' /\ Progress(n)'
    BY <1>2, <2>2 DEF Data, InLocal, Progress
  <2>6. QED
    BY <2>4, <2>5
<1>12. QED
  BY <1>8, <1>9, <1>10, <1>11 DEF Data

(* Joining frees data and changes none.                                    *)
LEMMA JoinData ==
  ASSUME TypeOK, HandOver, Data, JoinSubimages
  PROVE  Data'
<1>1. /\ UNCHANGED <<width, bigbuffer, copied, spc>>
      /\ mpc = "join" /\ mpc' = "show"
      /\ \A b \in Blocks : heap'[b] = heap[b] \/ heap'[b] = Free
  BY DEF JoinSubimages, spus
<1>2. DataTyping' /\ Cut'
  BY <1>1 DEF Data, DataTyping, Cut, Working
<1>3. InsideImage'
  <2>1. DOMAIN Free = {}
    BY DEF Free
  <2>2. QED
    BY <1>1, <2>1 DEF Data, InsideImage
<1>4. ASSUME NEW n \in SliceIds PROVE InMemory(n)' /\ InLocal(n)' /\ Progress(n)'
  <2>1. ~Triggered(n) /\ ~Closing
    BY <1>1 DEF Triggered, Closing
  <2>2. spc[n] = "idle"
    BY <2>1 DEF HandOver, Turn
  <2>3. QED
    BY <1>1, <2>2 DEF Data, InMemory, InLocal, Progress, Working
<1>5. QED
  BY <1>2, <1>3, <1>4 DEF Data
-----------------------------------------------------------------------------
(* The step of one SPU touches no data but that of its slice.              *)
DataLocal(n) ==
  /\ pInputImg' = pInputImg
  /\ DOMAIN bigbuffer' = SliceIds /\ DOMAIN copied' = SliceIds
  /\ DOMAIN bigbuffer'[n] = DOMAIN bigbuffer[n]
  /\ \A m \in SliceIds \ {n} : bigbuffer'[m] = bigbuffer[m] /\ copied'[m] = copied[m]
  /\ \A b \in Blocks : heap'[b] = heap[b] \/ (Working /\ b = siarray[n].data)

(* Every step of an SPU program is local in this sense.                    *)
LEMMA SpuDataLocal ==
  ASSUME TypeOK, HandOver, Data, NEW n \in SliceIds, SpuProgram(n)
  PROVE  DataLocal(n)
<1>1. pInputImg' = pInputImg
  BY DEF SpuProgram, ReadInMbox, GetStruct, TooMuch, sidata_toLS,
     ElaborateAndPutStruct, sidata_toMM, WriteOutMbox, Transferred, SpuGoto,
     hostVars, mainData
<1>2. DOMAIN bigbuffer = SliceIds /\ DOMAIN copied = SliceIds
  BY DEF Data, DataTyping
<1>3. \A from, to : DOMAIN Copied(n, from, to) = DOMAIN to
  BY DEF Copied
<1>4. \A ls, w : DOMAIN Elaborate(ls, w) = DOMAIN ls
  BY DEF Elaborate
<1>5. /\ DOMAIN bigbuffer' = SliceIds /\ DOMAIN bigbuffer'[n] = DOMAIN bigbuffer[n]
      /\ \A m \in SliceIds \ {n} : bigbuffer'[m] = bigbuffer[m]
  <2>1. \/ bigbuffer' = bigbuffer
        \/ bigbuffer' = [bigbuffer EXCEPT ![n] = Copied(n, heap[mysubimage[n].data], @)]
        \/ bigbuffer' = [bigbuffer EXCEPT ![n] = Elaborate(@, mysubimage[n].w)]
    BY DEF SpuProgram, ReadInMbox, GetStruct, TooMuch, sidata_toLS,
       ElaborateAndPutStruct, sidata_toMM, WriteOutMbox
  <2>2. QED
    BY <1>2, <1>3, <1>4, <2>1
<1>6. DOMAIN copied' = SliceIds /\ \A m \in SliceIds \ {n} : copied'[m] = copied[m]
  <2>1. copied' = copied \/ \E e : copied' = [copied EXCEPT ![n] = e]
    BY DEF SpuProgram, ReadInMbox, GetStruct, TooMuch, sidata_toLS,
       ElaborateAndPutStruct, sidata_toMM, WriteOutMbox, Transferred
  <2>2. QED
    BY <1>2, <2>1
<1>7. ASSUME NEW b \in Blocks
      PROVE  heap'[b] = heap[b] \/ (Working /\ b = siarray[n].data)
  <2>1. CASE sidata_toMM(n)
    <3>1. spc[n] = "toMM" /\ heap' = [heap EXCEPT ![mysubimage[n].data] = Copied(n, bigbuffer[n], @)]
      BY <2>1 DEF sidata_toMM, Transferred, SpuGoto
    <3>2. mysubimage[n] = siarray[n]
      BY <3>1 DEF HandOver, Copies
    <3>3. Working
      BY <3>1, Busy DEF Working
    <3>4. DOMAIN heap = Blocks
      BY DEF HandOver, StructTyping
    <3>5. QED
      BY <3>1, <3>2, <3>3, <3>4
  <2>2. CASE ~sidata_toMM(n)
    BY <2>2 DEF SpuProgram, ReadInMbox, GetStruct, TooMuch, sidata_toLS,
       ElaborateAndPutStruct, sidata_toMM, WriteOutMbox
  <2>3. QED
    BY <2>1, <2>2
<1>8. QED
  BY <1>1, <1>2, <1>5, <1>6, <1>7 DEF DataLocal

(* A local step preserves what is said of the data if it does for its own  *)
(* slice.                                                                  *)
LEMMA LocalData ==
  ASSUME HandOver, Data, NEW n \in SliceIds, Local(n), DataLocal(n),
         InMemory(n)', InLocal(n)', Progress(n)',
         Working => \A j \in DOMAIN heap'[siarray[n].data] :
                      heap'[siarray[n].data][j] # Outside
  PROVE  Data'
<1>0. UNCHANGED <<width, mpc, spei, siarray, pInputImg>> /\ (Working <=> Working')
  BY DEF Local, DataLocal, Working
<1>1. DataTyping'
  BY DEF Data, DataTyping, DataLocal
<1>2. Cut'
  BY <1>0 DEF Data, Cut
<1>3. InsideImage'
  BY DEF Data, InsideImage, DataLocal
<1>4. ASSUME NEW m \in SliceIds \ {n} PROVE InMemory(m)' /\ InLocal(m)' /\ Progress(m)'
  <2>1. /\ bigbuffer'[m] = bigbuffer[m] /\ copied'[m] = copied[m]
        /\ spc'[m] = spc[m] /\ outbox'[m] = outbox[m]
    BY DEF Local, DataLocal
  <2>2. InMemory(m) /\ InLocal(m) /\ Progress(m)
    BY DEF Data
  <2>3. InLocal(m)' /\ Progress(m)'
    BY <1>0, <2>1, <2>2 DEF InLocal, Progress
  <2>4. Finished(m)' <=> Finished(m)
    BY <1>0, <2>1 DEF Finished, Answering
  <2>5. Working => heap'[siarray[m].data] = heap[siarray[m].data]
    <3>1. siarray[m].data \in Blocks
      BY DEF HandOver, StructTyping, Struct
    <3>2. Working => siarray[m].data # siarray[n].data
      BY DEF Data, Cut
    <3>3. QED
      BY <3>1, <3>2 DEF DataLocal
  <2>6. InMemory(m)'
    BY <1>0, <2>1, <2>2, <2>4, <2>5 DEF InMemory
  <2>7. QED
    BY <2>3, <2>6
<1>5. QED
  BY <1>1, <1>2, <1>3, <1>4 DEF Data

(* A busy SPU has a copy of the struct of its slice.                       *)
LEMMA BusyStruct ==
  ASSUME TypeOK, HandOver, Data, NEW n \in SliceIds,
         spc[n] \in {"get", "toLS", "elaborate", "toMM", "answer"}
  PROVE  /\ Working /\ width \in Widths /\ ~Answering(n) /\ outbox[n] = 0
         /\ siarray[n].data \in Blocks
         /\ siarray[n].w = Wide(width, n) /\ siarray[n].bytesAllocated = Size(width, n)
         /\ spc[n] # "get" => mysubimage[n] = siarray[n]
<1>1. mpc \in {"trigger", "sync"} /\ ~Answering(n) /\ outbox[n] = 0
  BY Busy
<1>2. width \in Widths /\ siarray[n].data \in Blocks
  BY DEF HandOver, StructTyping, Struct
<1>3. siarray[n] = SliceStruct(width, n, siarray[n].data)
  BY <1>1 DEF Data, Cut, Working
<1>4. siarray[n].w = Wide(width, n) /\ siarray[n].bytesAllocated = Size(width, n)
  <2> DEFINE b == siarray[n].data
  <2>1. /\ SliceStruct(width, n, b).w = Wide(width, n)
        /\ SliceStruct(width, n, b).bytesAllocated = Size(width, n)
    BY StructFields
  <2>2. siarray[n] = SliceStruct(width, n, b)
    BY <1>3
  <2> HIDE DEF b
  <2>3. QED
    BY <2>1, <2>2
<1>5. spc[n] # "get" => mysubimage[n] = siarray[n]
  BY DEF HandOver, Copies
<1>6. QED
  BY <1>1, <1>2, <1>4, <1>5 DEF Working

(* Sizes are aligned and positive.                                         *)
LEMMA SizeType ==
  ASSUME NEW wd \in Widths, NEW n \in SliceIds
  PROVE  Size(wd, n) \in Nat /\ Size(wd, n) >= 1 /\ Wide(wd, n) \in Nat
         /\ Size(wd, n) >= Wide(wd, n) /\ Wide(wd, n) >= 1 /\ Aligned(Size(wd, n))
         /\ Aligned(0)
<1>1. Wide(wd, n) \in Nat /\ Wide(wd, n) >= 1
  BY Origins
<1>2. Size(wd, n) \in Nat /\ Size(wd, n) >= Wide(wd, n) /\ Aligned(Size(wd, n))
  BY <1>1, Rounded DEF Size, Aligned
<1>3. 0 = 0 * Alignment
  BY SlicesAssumption
<1>4. QED
  BY <1>1, <1>2, <1>3 DEF Aligned

(* The steps that move no data.                                            *)
LEMMA MailData ==
  ASSUME TypeOK, HandOver, Data, NEW n \in SliceIds,
         ReadInMbox(n) \/ GetStruct(n) \/ TooMuch(n) \/ WriteOutMbox(n)
  PROVE  Data'
<1>1. Local(n) /\ DataLocal(n)
  BY SpuIsLocal, SpuDataLocal DEF SpuProgram
<1>2. UNCHANGED <<heap, bigbuffer, copied, width, pInputImg, siarray>>
  BY <1>1 DEF ReadInMbox, GetStruct, TooMuch, WriteOutMbox, Local, DataLocal
<1>3. \/ spc[n] = "idle" /\ spc'[n] \in {"get", "ended"} /\ outbox'[n] = outbox[n]
      \/ spc[n] = "get" /\ spc'[n] = "ended" /\ outbox'[n] = outbox[n]
      \/ spc[n] = "get" /\ spc'[n] = "toLS" /\ outbox'[n] = outbox[n] /\ Fits(siarray[n])
      \/ spc[n] = "answer" /\ spc'[n] = "idle" /\ outbox'[n] = 1
  BY DEF ReadInMbox, GetStruct, TooMuch, WriteOutMbox, SpuGoto, TypeOK, mailboxes
<1>4. (Answering(n)' <=> Answering(n)) /\ (Working' <=> Working)
  BY <1>1 DEF Local, Answering, Working
<1>5. InMemory(n)'
  BY <1>2, <1>3, <1>4 DEF Data, InMemory, Finished
<1>6. copied[n] = 0
  BY <1>3 DEF Data, Progress
<1>7. InLocal(n)'
  <2>1. spc'[n] \notin {"elaborate", "toMM"}
    BY <1>3
  <2>2. copied'[n] = 0 /\ 0 .. 0 - 1 = {}
    BY <1>2, <1>6
  <2>3. QED
    BY <2>1, <2>2 DEF InLocal
<1>8. Progress(n)'
  <2>1. CASE spc'[n] # "toLS"
    <3>1. spc'[n] \notin {"toLS", "elaborate", "toMM"} /\ copied'[n] = 0
      BY <1>2, <1>3, <1>6, <2>1
    <3>2. Aligned(copied'[n])
      BY <1>2 DEF Data, Progress
    <3>3. QED
      BY <3>1, <3>2 DEF Progress
  <2>2. CASE spc'[n] = "toLS"
    <3>1. spc[n] = "get" /\ Fits(siarray[n])
      BY <1>3, <2>2
    <3>2. width \in Widths /\ Size(width, n) <= LocalBuffer
      BY <3>1, BusyStruct DEF Fits
    <3>3. copied'[n] = 0 /\ width' = width
      BY <1>2, <1>6
    <3>4. Size(width, n) \in Nat /\ Size(width, n) >= 1 /\ Aligned(0)
      BY <3>2, SizeType
    <3>5. QED
      BY <2>2, <3>2, <3>3, <3>4 DEF Progress
  <2>3. QED
    BY <2>1, <2>2
<1>9. Working => \A j \in DOMAIN heap'[siarray[n].data] : heap'[siarray[n].data][j] # Outside
  BY <1>2 DEF Data, InsideImage, HandOver, StructTyping, Struct
<1>10. QED
  BY <1>1, <1>5, <1>7, <1>8, <1>9, LocalData

(* The elaboration of what the SPU has got.                                *)
LEMMA ElaborateData ==
  ASSUME TypeOK, HandOver, Data, NEW n \in SliceIds, ElaborateAndPutStruct(n)
  PROVE  Data'
<1> DEFINE D == Given(width, pInputImg, n)
           M == Made(width, pInputImg, n)
<1>1. Local(n) /\ DataLocal(n)
  BY SpuIsLocal, SpuDataLocal DEF SpuProgram
<1>2. /\ UNCHANGED <<heap, copied, width, pInputImg, siarray, outbox>>
      /\ spc[n] = "elaborate" /\ spc'[n] = "toMM"
      /\ bigbuffer' = [bigbuffer EXCEPT ![n] = Elaborate(@, mysubimage[n].w)]
  BY <1>1 DEF ElaborateAndPutStruct, SpuGoto, TypeOK, Local, DataLocal, mailboxes
<1>3. /\ Working /\ width \in Widths /\ ~Answering(n) /\ outbox[n] = 0
      /\ mysubimage[n].w = Wide(width, n) /\ siarray[n].data \in Blocks
  BY <1>2, BusyStruct
<1>4. copied[n] = 0 /\ Size(width, n) <= LocalBuffer
  BY <1>2 DEF Data, Progress
<1>5. (Answering(n)' <=> Answering(n)) /\ (Working' <=> Working)
  BY <1>1 DEF Local, Answering, Working
<1>6. /\ Size(width, n) \in Nat /\ Size(width, n) >= 1 /\ Wide(width, n) \in Nat
      /\ Size(width, n) >= Wide(width, n) /\ Wide(width, n) >= 1 /\ Aligned(0)
  BY <1>3, SizeType
<1>7. DOMAIN D = 0 .. Size(width, n) - 1 /\ DOMAIN M = 0 .. Size(width, n) - 1
  BY <1>3, GivenValues, MadeValues
<1>8. \A j \in 0 .. Size(width, n) - 1 :
        M[j] = IF j < Wide(width, n) - 1 THEN Differ(D[j], D[j + 1]) ELSE D[j]
  BY <1>7 DEF Made, Elaborate
<1>9. InMemory(n)'
  <2>0. InMemory(n) /\ ~Finished(n)
    <3>1. InMemory(n)
      BY DEF Data
    <3>2. outbox[n] # 1 /\ spc[n] # "answer"
      BY <1>2, <1>3
    <3>3. ~Finished(n)
      BY <1>3, <3>2 DEF Finished
    <3>4. QED
      BY <3>1, <3>3
  <2>1. heap[siarray[n].data] = D
    BY <1>2, <1>3, <2>0 DEF InMemory
  <2>2. D = [j \in 0 .. Size(width, n) - 1 |-> D[j]]
    BY <1>7 DEF Given, SliceData
  <2>3. Mixed(width, pInputImg, n, 0) = D
    <3>1. \A j \in 0 .. Size(width, n) - 1 : ~ (j < 0)
      BY <1>6
    <3>2. QED
      BY <2>2, <3>1 DEF Mixed
  <2>4. ~Finished(n)'
    <3>1. outbox'[n] = 0 /\ spc'[n] # "answer" /\ ~Answering(n)'
      BY <1>2, <1>3, <1>5
    <3>2. QED
      BY <3>1 DEF Finished
  <2>5. QED
    BY <1>2, <1>4, <2>1, <2>3, <2>4 DEF InMemory
<1>10. InLocal(n)'
  <2>1. \A j \in 0 .. Size(width, n) - 1 : bigbuffer[n][j] = D[j]
    BY <1>2 DEF Data, InLocal
  <2>2. DOMAIN bigbuffer = SliceIds /\ DOMAIN bigbuffer[n] = 0 .. LocalBuffer - 1
    BY DEF Data, DataTyping
  <2>3. LocalBuffer \in Nat
    BY CellCVAssumption
  <2>4. \A j \in 0 .. LocalBuffer - 1 :
          bigbuffer'[n][j] = IF j < Wide(width, n) - 1
                             THEN Differ(bigbuffer[n][j], bigbuffer[n][j + 1])
                             ELSE bigbuffer[n][j]
    BY <1>2, <1>3, <2>2 DEF Elaborate
  <2>5. ASSUME NEW j \in 0 .. Size(width, n) - 1 PROVE bigbuffer'[n][j] = M[j]
    <3>1. j \in 0 .. LocalBuffer - 1
          /\ (j < Wide(width, n) - 1 => j + 1 \in 0 .. Size(width, n) - 1)
      BY <1>4, <1>6, <2>3
    <3>2. QED
      BY <1>8, <2>1, <2>4, <3>1
  <2>6. QED
    BY <1>2, <2>5 DEF InLocal
<1>11. Progress(n)'
  <2>1. copied'[n] = 0 /\ width' = width /\ spc'[n] = "toMM"
    BY <1>2, <1>4
  <2>2. QED
    BY <1>4, <1>6, <2>1 DEF Progress
<1>12. Working => \A j \in DOMAIN heap'[siarray[n].data] : heap'[siarray[n].data][j] # Outside
  BY <1>2, <1>3 DEF Data, InsideImage
<1>13. QED
  BY <1>1, <1>9, <1>10, <1>11, <1>12, LocalData

(* What one transfer does: it moves what lies between two places.          *)
LEMMA TransferStep ==
  ASSUME TypeOK, HandOver, Data, NEW n \in SliceIds, NEW here, NEW next,
         here \in {"toLS", "toMM"}, spc[n] = here
  PROVE  LET c == copied[n]
             size == Size(width, n)
             e == End(c, size)
         IN /\ c \in Nat /\ c < e /\ e \in Nat /\ e <= size /\ size \in Nat
            /\ size <= LocalBuffer /\ LocalBuffer \in Nat /\ Aligned(e)
            /\ Piece(n) = c .. e - 1
            /\ Max(Piece(n)) = e - 1
            /\ Cardinality(Piece(n)) % Alignment = 0
            /\ Transferred(n, here, next) =>
                 /\ spc'[n] = IF e = size THEN next ELSE here
                 /\ copied'[n] = IF e = size THEN 0 ELSE e
<1> DEFINE c == copied[n]
           size == Size(width, n)
           e == End(c, size)
<1>1. width \in Widths /\ mysubimage[n].bytesAllocated = size
  BY BusyStruct
<1>2. size \in Nat /\ Aligned(size)
  BY <1>1, SizeType
<1>3. c \in Nat /\ c < size /\ Aligned(c) /\ size <= LocalBuffer
  BY DEF Data, Progress
<1>4. LocalBuffer \in Nat
  BY CellCVAssumption
<1> HIDE DEF c, size
<1>5. e \in Nat /\ c < e /\ e <= size
  BY <1>2, <1>3, OneTransfer
<1>6. Aligned(e)
  BY <1>2, <1>3, OneTransfer
<1>7. /\ Min({c + Transfer, size}) = e
      /\ Max(c .. e - 1) = e - 1
      /\ Cardinality(c .. e - 1) = e - c
  BY <1>2, <1>3, OneTransfer
<1> HIDE DEF e
<1>8. Piece(n) = c .. e - 1
  BY <1>1, <1>7 DEF Piece, c
<1>9. Max(Piece(n)) = e - 1
  BY <1>7, <1>8
<1>10. Cardinality(Piece(n)) % Alignment = 0
  <2>1. c <= e /\ (e - c) % Alignment = 0
    BY <1>3, <1>5, <1>6, AlignedRest
  <2>2. QED
    BY <1>7, <1>8, <2>1
<1>11. Transferred(n, here, next) => /\ spc'[n] = IF e = size THEN next ELSE here
                                     /\ copied'[n] = IF e = size THEN 0 ELSE e
  <2>1. Max(Piece(n)) + 1 = e
    BY <1>5, <1>9
  <2>2. Transferred(n, here, next) =>
          /\ SpuGoto(n, here, IF e = size THEN next ELSE here)
          /\ copied' = [copied EXCEPT ![n] = IF e = size THEN 0 ELSE e]
    BY <1>1, <2>1 DEF Transferred
  <2>3. DOMAIN copied = SliceIds
    BY DEF Data, DataTyping
  <2>4. QED
    BY <2>2, <2>3 DEF SpuGoto, TypeOK
<1>12. QED
  BY <1>2, <1>3, <1>4, <1>5, <1>6, <1>8, <1>9, <1>10, <1>11 DEF c, size, e

(* From main memory to the local store.                                    *)
LEMMA ToLocalData ==
  ASSUME TypeOK, HandOver, Data, NEW n \in SliceIds, sidata_toLS(n)
  PROVE  Data'
<1> DEFINE D == Given(width, pInputImg, n)
           c == copied[n]
           size == Size(width, n)
           e == End(c, size)
<1>1. Local(n) /\ DataLocal(n)
  BY SpuIsLocal, SpuDataLocal DEF SpuProgram
<1>2. /\ UNCHANGED <<heap, width, pInputImg, siarray, outbox>>
      /\ spc[n] = "toLS" /\ Transferred(n, "toLS", "elaborate")
      /\ bigbuffer' = [bigbuffer EXCEPT ![n] = Copied(n, heap[mysubimage[n].data], @)]
  BY <1>1 DEF sidata_toLS, Transferred, SpuGoto, Local, DataLocal, mailboxes
<1>3. /\ Working /\ width \in Widths /\ ~Answering(n) /\ outbox[n] = 0
      /\ mysubimage[n] = siarray[n] /\ siarray[n].data \in Blocks
  BY <1>2, BusyStruct
<1>4. /\ c \in Nat /\ c < e /\ e \in Nat /\ e <= size /\ size \in Nat
      /\ size <= LocalBuffer /\ LocalBuffer \in Nat
      /\ Piece(n) = c .. e - 1
  BY <1>2, TransferStep
<1>5. /\ spc'[n] = IF e = size THEN "elaborate" ELSE "toLS"
      /\ copied'[n] = IF e = size THEN 0 ELSE e
  BY <1>2, TransferStep
<1>6. Aligned(e) /\ Aligned(0)
  BY <1>2, <1>3, TransferStep, SizeType
<1>7. (Answering(n)' <=> Answering(n)) /\ (Working' <=> Working)
  BY <1>1 DEF Local, Answering, Working
<1>8. heap[siarray[n].data] = D
  <2>1. InMemory(n)
    BY DEF Data
  <2>2. ~Finished(n)
    BY <1>2, <1>3 DEF Finished
  <2>3. QED
    BY <1>2, <1>3, <2>1, <2>2 DEF InMemory
<1>9. \A j \in 0 .. e - 1 : bigbuffer'[n][j] = D[j]
  <2>1. \A j \in 0 .. c - 1 : bigbuffer[n][j] = D[j]
    BY <1>2 DEF Data, InLocal
  <2>2. DOMAIN bigbuffer = SliceIds /\ DOMAIN bigbuffer[n] = 0 .. LocalBuffer - 1
    BY DEF Data, DataTyping
  <2>3. \A j \in 0 .. LocalBuffer - 1 :
          bigbuffer'[n][j] = IF j \in c .. e - 1 THEN D[j] ELSE bigbuffer[n][j]
    BY <1>2, <1>3, <1>4, <1>8, <2>2 DEF Copied
  <2> HIDE DEF D, c, e, size
  <2>4. ASSUME NEW j \in 0 .. e - 1 PROVE bigbuffer'[n][j] = D[j]
    <3>1. j \in 0 .. LocalBuffer - 1 /\ (j \in c .. e - 1 \/ j \in 0 .. c - 1)
      BY <1>4
    <3>2. QED
      BY <2>1, <2>3, <3>1
  <2>5. QED
    BY <2>4
<1>10. InMemory(n)'
  <2>1. ~Finished(n)'
    BY <1>2, <1>3, <1>5, <1>7 DEF Finished
  <2>2. spc'[n] # "toMM"
    BY <1>5
  <2>3. QED
    BY <1>2, <1>8, <2>1, <2>2 DEF InMemory
<1>11. InLocal(n)'
  <2> HIDE DEF e, c
  <2>1. CASE e = size
    BY <1>2, <1>5, <1>9, <2>1 DEF InLocal
  <2>2. CASE e # size
    BY <1>2, <1>5, <1>9, <2>2 DEF InLocal
  <2>3. QED
    BY <2>1, <2>2
<1>12. Progress(n)'
  <2> HIDE DEF e, c
  <2>1. copied'[n] \in Nat /\ Aligned(copied'[n])
    BY <1>4, <1>5, <1>6
  <2>2. Size(width', n) = size
    BY <1>2
  <2> HIDE DEF size
  <2>3. QED
    BY <1>4, <1>5, <2>1, <2>2 DEF Progress
<1>13. Working => \A j \in DOMAIN heap'[siarray[n].data] : heap'[siarray[n].data][j] # Outside
  BY <1>2, <1>3 DEF Data, InsideImage
<1>14. QED
  BY <1>1, <1>10, <1>11, <1>12, <1>13, LocalData

(* From the local store to main memory.                                    *)
LEMMA ToMemoryData ==
  ASSUME TypeOK, HandOver, Data, NEW n \in SliceIds, sidata_toMM(n)
  PROVE  Data'
<1> DEFINE D == Given(width, pInputImg, n)
           M == Made(width, pInputImg, n)
           c == copied[n]
           size == Size(width, n)
           e == End(c, size)
           b == siarray[n].data
<1>1. Local(n) /\ DataLocal(n)
  BY SpuIsLocal, SpuDataLocal DEF SpuProgram
<1>2. /\ UNCHANGED <<bigbuffer, width, pInputImg, siarray, outbox>>
      /\ spc[n] = "toMM" /\ Transferred(n, "toMM", "answer")
      /\ heap' = [heap EXCEPT ![mysubimage[n].data] = Copied(n, bigbuffer[n], @)]
  BY <1>1 DEF sidata_toMM, Transferred, SpuGoto, Local, DataLocal, mailboxes
<1>3. /\ Working /\ width \in Widths /\ ~Answering(n) /\ outbox[n] = 0
      /\ mysubimage[n] = siarray[n] /\ b \in Blocks
  BY <1>2, BusyStruct
<1>4. /\ c \in Nat /\ c < e /\ e \in Nat /\ e <= size /\ size \in Nat
      /\ size <= LocalBuffer /\ LocalBuffer \in Nat
      /\ Piece(n) = c .. e - 1
  BY <1>2, TransferStep
<1>5. /\ spc'[n] = IF e = size THEN "answer" ELSE "toMM"
      /\ copied'[n] = IF e = size THEN 0 ELSE e
  BY <1>2, TransferStep
<1>6. Aligned(e) /\ Aligned(0)
  BY <1>2, <1>3, TransferStep, SizeType
<1>7. (Answering(n)' <=> Answering(n)) /\ (Working' <=> Working)
  BY <1>1 DEF Local, Answering, Working
<1>8. heap[b] = Mixed(width, pInputImg, n, c)
  <2>1. InMemory(n)
    BY DEF Data
  <2>2. ~Finished(n)
    BY <1>2, <1>3 DEF Finished
  <2>3. QED
    BY <1>2, <1>3, <2>1, <2>2 DEF InMemory
<1>9. heap'[b] = Mixed(width, pInputImg, n, e)
  <2>1. \A j \in 0 .. size - 1 : bigbuffer[n][j] = M[j]
    BY <1>2 DEF Data, InLocal
  <2>2. DOMAIN heap = Blocks
    BY DEF HandOver, StructTyping
  <2>3. heap'[b] = Copied(n, bigbuffer[n], heap[b])
    BY <1>2, <1>3, <2>2
  <2>4. heap[b] = [j \in 0 .. size - 1 |-> IF j < c THEN M[j] ELSE D[j]]
    BY <1>8 DEF Mixed
  <2> HIDE DEF D, M, c, e, size, b
  <2>5. heap'[b] = [j \in 0 .. size - 1 |-> IF j \in c .. e - 1 THEN bigbuffer[n][j] ELSE heap[b][j]]
    BY <1>4, <2>3, <2>4 DEF Copied
  <2>6. ASSUME NEW j \in 0 .. size - 1
        PROVE  heap'[b][j] = IF j < e THEN M[j] ELSE D[j]
    <3>1. j \in Nat
      BY <1>4
    <3>2. CASE j < c
      <4>1. j \notin c .. e - 1 /\ j < e
        BY <1>4, <3>1, <3>2
      <4>2. QED
        BY <2>4, <2>5, <3>2, <4>1
    <3>3. CASE c <= j /\ j < e
      <4>1. j \in c .. e - 1
        BY <1>4, <3>1, <3>3
      <4>2. QED
        BY <2>1, <2>5, <3>3, <4>1
    <3>4. CASE e <= j
      <4>1. j \notin c .. e - 1 /\ ~ (j < e) /\ ~ (j < c)
        BY <1>4, <3>1, <3>4
      <4>2. QED
        BY <2>4, <2>5, <4>1
    <3>5. QED
      BY <1>4, <3>1, <3>2, <3>3, <3>4
  <2>7. heap'[b] = [j \in 0 .. size - 1 |-> IF j < e THEN M[j] ELSE D[j]]
    BY <2>5, <2>6
  <2>8. QED
    BY <2>7 DEF Mixed, size, M, D
<1>10. e = size => heap'[b] = M
  <2>1. DOMAIN M = 0 .. size - 1
    BY <1>3, MadeValues
  <2>2. M = [j \in 0 .. size - 1 |-> M[j]]
    BY <2>1 DEF Made, Elaborate
  <2> HIDE DEF e, M
  <2>3. \A j \in 0 .. size - 1 : j < size
    BY <1>4
  <2>4. Mixed(width, pInputImg, n, size) = M
    BY <2>2, <2>3 DEF Mixed, M
  <2>5. QED
    BY <1>9, <2>4
<1>11. InMemory(n)'
  <2> HIDE DEF e, b
  <2>1. CASE e = size
    <3>1. Finished(n)'
      BY <1>5, <2>1 DEF Finished
    <3>2. QED
      BY <1>2, <1>10, <2>1, <3>1 DEF InMemory, b
  <2>2. CASE e # size
    <3>1. spc'[n] = "toMM" /\ copied'[n] = e
      BY <1>5, <2>2
    <3>2. ~Finished(n)'
      BY <1>2, <1>3, <1>7, <3>1 DEF Finished
    <3>3. QED
      BY <1>2, <1>9, <3>1, <3>2 DEF InMemory, b
  <2>3. QED
    BY <2>1, <2>2
<1>12. InLocal(n)'
  <2> HIDE DEF e
  <2>1. \A j \in 0 .. size - 1 : bigbuffer[n][j] = M[j]
    BY <1>2 DEF Data, InLocal
  <2>2. QED
    BY <1>2, <1>5, <2>1 DEF InLocal
<1>13. Progress(n)'
  <2> HIDE DEF e, c
  <2>1. copied'[n] \in Nat /\ Aligned(copied'[n])
    BY <1>4, <1>5, <1>6
  <2>2. Size(width', n) = size
    BY <1>2
  <2> HIDE DEF size
  <2>3. QED
    BY <1>4, <1>5, <2>1, <2>2 DEF Progress
<1>14. Working => \A j \in DOMAIN heap'[b] : heap'[b][j] # Outside
  <2>1. ASSUME NEW j \in DOMAIN heap'[b] PROVE heap'[b][j] # Outside
    <3> HIDE DEF e
    <3>1. j \in 0 .. size - 1 /\ heap'[b][j] \in {M[j], D[j]}
      BY <1>9 DEF Mixed
    <3>2. QED
      BY <1>3, <3>1, SlicesInside
  <2>2. QED
    BY <2>1
<1>15. QED
  BY <1>1, <1>11, <1>12, <1>13, <1>14, LocalData

(* Every step preserves the invariant.                                     *)
LEMMA StepData == TypeOK /\ HandOver /\ Data /\ [Next]_vars => Data'
<1> SUFFICES ASSUME TypeOK, HandOver, Data, [Next]_vars PROVE Data'
  OBVIOUS
<1>1. CASE UNCHANGED vars
  BY <1>1, ElsewhereData
<1>2. CASE AcquisitionThread \/ WindowThread \/ WakeForNoReason
  BY <1>2, ElsewhereData
<1>3. CASE MainThread
  BY <1>3, ElsewhereData, SplitData, TriggerData, SyncData, JoinData DEF MainThread
<1>4. ASSUME NEW n \in SliceIds, SpuProgram(n) PROVE Data'
  BY <1>4, MailData, ToLocalData, ElaborateData, ToMemoryData DEF SpuProgram
<1>5. QED
  BY <1>1, <1>2, <1>3, <1>4 DEF Next

(* The data of the slices is freed only when no SPU has a transfer left.   *)
LEMMA HandOverNotFreed == TypeOK /\ HandOver => NotFreed
<1> SUFFICES ASSUME TypeOK, HandOver PROVE NotFreed
  OBVIOUS
<1>0. DOMAIN Free = {}
  BY DEF Free
<1>1. ASSUME NEW n \in SliceIds, spc[n] \in {"toLS", "elaborate", "toMM"}
      PROVE  heap[mysubimage[n].data] # Free
  <2>1. mpc \in {"trigger", "sync"}
    BY <1>1, Busy
  <2>2. mysubimage[n] = siarray[n]
    BY <1>1 DEF HandOver, Copies
  <2>3. DOMAIN heap[siarray[n].data] # {}
    BY <2>1 DEF HandOver, Allocated
  <2>4. QED
    BY <1>0, <2>2, <2>3
<1>2. ASSUME NEW n \in SliceIds, mpc = "join"
      PROVE  heap[sioutarray[n].data] # Free
  <2>1. sioutarray[n] = siarray[n]
    BY <1>2 DEF HandOver, Copies, Answering
  <2>2. QED
    BY <1>0, <1>2, <2>1 DEF HandOver, Allocated
<1>3. QED
  BY <1>1, <1>2 DEF NotFreed

(* What TLC checks of the accesses follows.                                *)
LEMMA DataNoStrayAccess == TypeOK /\ HandOver /\ Data => NoStrayAccess
<1> SUFFICES ASSUME TypeOK, HandOver, Data PROVE NoStrayAccess
  OBVIOUS
<1>1. InsideImage
  BY DEF Data
<1>2. LegalTransfers
  <2>1. ASSUME NEW n \in SliceIds, spc[n] \in {"toLS", "toMM"}
        PROVE  Cardinality(Piece(n)) % Alignment = 0 /\ Max(Piece(n)) < LocalBuffer
    <3> DEFINE size == Size(width, n)
               e == End(copied[n], size)
    <3>1. /\ e \in Nat /\ e <= size /\ size \in Nat
          /\ size <= LocalBuffer /\ LocalBuffer \in Nat
          /\ Max(Piece(n)) = e - 1
          /\ Cardinality(Piece(n)) % Alignment = 0
      BY <2>1, TransferStep
    <3> HIDE DEF e, size
    <3>2. QED
      BY <3>1
  <2>2. QED
    BY <2>1 DEF LegalTransfers
<1>3. QED
  BY <1>1, <1>2, HandOverNotFreed DEF NoStrayAccess
-----------------------------------------------------------------------------
(* What main has joined, and what it has handed to the window.             *)
Joint ==
  /\ pInputImg = Len(used)
  /\ mpc \notin {"get", "waitimage"} => Len(used) > 0
  /\ DOMAIN pOutputImg = 0 .. width - 1
  /\ mpc \in {"show", "waitlist", "insert"} => pOutputImg = Result(Row(width, Len(used)))

Handed ==
  /\ cmdList \in Seq(Results)
  /\ {newImage, texture} \subseteq Results \cup {NoImage}

(* A longer list has the elements of a shorter one.                        *)
LEMMA SeqMonotone ==
  ASSUME NEW S, NEW T, S \subseteq T, NEW s \in Seq(S)
  PROVE  s \in Seq(T)
OBVIOUS

(* The results of the images taken so far stay results.                    *)
LEMMA ResultsGrow ==
  ASSUME used \in Seq(Nat), used' \in Seq(Nat), width' = width, Len(used) <= Len(used')
  PROVE  Results \subseteq Results'
<1> SUFFICES ASSUME NEW f \in 1 .. Len(used)
             PROVE  \E g \in 1 .. Len(used') : Result(Row(width, f)) = Result(Row(width', g))
  BY FrameRow DEF Results, Frame, Row
<1>1. f \in 1 .. Len(used')
  OBVIOUS
<1>2. QED
  BY <1>1

(* At the start.                                                           *)
LEMMA InitJoint == Init => Joint /\ Handed
<1> SUFFICES ASSUME Init PROVE Joint /\ Handed
  OBVIOUS
<1>1. Joint
  BY DEF Init, Joint, Frame
<1>2. Handed
  BY DEF Init, WindowInit, Handed
<1>3. QED
  BY <1>1, <1>2

(* Which steps write what main hands to the window.                        *)
LEMMA Writers ==
  ASSUME [Next]_vars
  PROVE  /\ width' = width
         /\ GetImage \/ UNCHANGED <<used, pInputImg>>
         /\ JoinSubimages \/ pOutputImg' = pOutputImg
         /\ ShowImage \/ main_idle \/ cmdList' = cmdList
         /\ DrawTexture \/ main_idle \/ newImage' = newImage
         /\ DrawTexture \/ texture' = texture
         /\ \/ GetImage \/ JoinSubimages
            \/ /\ mpc' \in {"get", "waitimage"} \/ mpc \notin {"get", "waitimage"}
               /\ \/ mpc' \notin {"show", "waitlist", "insert"}
                  \/ mpc \in {"show", "waitlist", "insert"}
<1>1. CASE UNCHANGED vars
  BY <1>1 DEF vars, mainData, window
<1>2. CASE AcquisitionThread
  BY <1>2 DEF AcquisitionThread, getTheImage, PutImage, SignalConsumer, Woken,
     mainData, window
<1>3. CASE WindowThread \/ WakeForNoReason
  BY <1>3 DEF WindowThread, main_idle, SignalListEmpty, DrawTexture, WakeForNoReason,
     Woken, mainData, window
<1>4. CASE MainThread
  BY <1>4 DEF MainThread, GetImage, SignalProducer, Split, trigger_spe, sync_spe,
     JoinSubimages, ShowWaits, ShowImage, exit_spe, WaitSpus, NextSpu, mainData, window
<1>5. CASE \E n \in SliceIds : SpuProgram(n)
  BY <1>5 DEF SpuProgram, ReadInMbox, GetStruct, TooMuch, sidata_toLS,
     ElaborateAndPutStruct, sidata_toMM, WriteOutMbox, Transferred, SpuGoto,
     hostVars, mainData, window
<1>6. QED
  BY <1>1, <1>2, <1>3, <1>4, <1>5 DEF Next

(* What main does with the image.                                          *)
LEMMA StepJoint == IInv /\ HandOver /\ Data /\ Joint /\ [Next]_vars => Joint'
<1> SUFFICES ASSUME IInv, HandOver, Data, Joint, [Next]_vars PROVE Joint'
  OBVIOUS
<1>0. used \in Seq(Nat) /\ Len(used) \in Nat
  BY DEF IInv, Queue, QueueTyping
<1>1. CASE GetImage /\ num # 0
  <2>1. /\ used' = Append(used, buffer[rem]) /\ pInputImg' = buffer[rem]
        /\ UNCHANGED <<width, pOutputImg>> /\ mpc' = "signal"
    BY <1>1 DEF GetImage
  <2>2. buffer[rem] = Len(used) + 1
    <3>1. num \in Nat /\ rem \in 0 .. BUF_SIZE - 1 /\ BUF_SIZE \in Nat
      BY CellCVAssumption DEF IInv, TypeOK
    <3>2. 0 \in 0 .. num - 1 /\ Ring(rem + 0) = rem
      BY <1>1, <3>1 DEF Ring
    <3>3. buffer[Ring(rem + 0)] = Len(used) + 0 + 1
      BY <3>2 DEF IInv, Queue, InRing
    <3>4. QED
      BY <1>0, <3>2, <3>3
  <2>3. Len(used') = Len(used) + 1
    BY <1>0, <2>1
  <2>4. QED
    BY <1>0, <2>1, <2>2, <2>3 DEF Joint
<1>2. CASE JoinSubimages
  <2> DEFINE data == [n \in SliceIds |-> heap[sioutarray[n].data]]
  <2>1. /\ pOutputImg' = Join(sioutarray, data, pOutputImg)
        /\ UNCHANGED <<width, used, pInputImg>> /\ mpc = "join" /\ mpc' = "show"
    BY <1>2 DEF JoinSubimages
  <2>2. width \in Widths
    BY DEF HandOver, StructTyping
  <2>3. ASSUME NEW n \in SliceIds
        PROVE  sioutarray[n].w = Wide(width, n) /\ data[n] = Made(width, pInputImg, n)
    <3>1. Working /\ Finished(n) /\ Answering(n)
      BY <2>1 DEF Working, Finished, Answering
    <3>2. sioutarray[n] = siarray[n]
      BY <3>1 DEF HandOver, Copies
    <3>3. heap[siarray[n].data] = Made(width, pInputImg, n)
      BY <3>1 DEF Data, InMemory
    <3>4. siarray[n] = SliceStruct(width, n, siarray[n].data)
      BY <3>1 DEF Data, Cut
    <3>5. siarray[n].w = Wide(width, n)
      <4> DEFINE b == siarray[n].data
      <4>1. SliceStruct(width, n, b).w = Wide(width, n)
        BY StructFields
      <4>2. siarray[n] = SliceStruct(width, n, b)
        BY <3>4
      <4> HIDE DEF b
      <4>3. QED
        BY <4>1, <4>2
    <3>6. QED
      BY <3>2, <3>3, <3>5
  <2>4. DOMAIN pOutputImg = 0 .. width - 1
    BY DEF Joint
  <2> HIDE DEF data
  <2>5. pOutputImg' = Result(Row(width, pInputImg))
    BY <2>1, <2>2, <2>3, <2>4, JoinedSlices
  <2>6. DOMAIN pOutputImg' = 0 .. width - 1
    BY <2>1, <2>4 DEF Join
  <2>7. QED
    BY <2>1, <2>5, <2>6 DEF Joint
<1>3. CASE GetImage /\ num = 0
  BY <1>3 DEF GetImage, Joint
<1>4. CASE ~GetImage /\ ~JoinSubimages
  BY <1>4, Writers DEF Joint
<1>5. QED
  BY <1>1, <1>2, <1>3, <1>4

(* What is handed to the window.                                           *)
LEMMA StepHanded ==
  IInv /\ IInv' /\ HandOver /\ Joint /\ Handed /\ [Next]_vars => Handed'
<1> SUFFICES ASSUME IInv, IInv', HandOver, Joint, Handed, [Next]_vars PROVE Handed'
  OBVIOUS
<1>1. used \in Seq(Nat) /\ used' \in Seq(Nat)
  BY DEF IInv, Queue, QueueTyping
<1>2. width' = width /\ (used' = used \/ used' = Append(used, buffer[rem]))
  BY Writers DEF GetImage
<1>3. Len(used) <= Len(used')
  BY <1>1, <1>2
<1>4. Results \subseteq Results'
  BY <1>1, <1>2, <1>3, ResultsGrow
<1>5. {newImage, texture} \subseteq Results' \cup {NoImage} /\ cmdList \in Seq(Results')
  BY <1>4, SeqMonotone DEF Handed
<1>6. NoImage' = NoImage
  BY DEF NoImage
<1>7. CASE main_idle
  <2>1. /\ newImage' = IF cmdList = <<>> THEN newImage ELSE cmdList[Len(cmdList)]
        /\ cmdList' = <<>> /\ texture' = texture
    BY <1>7 DEF main_idle
  <2>2. cmdList # <<>> => cmdList[Len(cmdList)] \in Results'
    BY <1>5
  <2>3. <<>> \in Seq(Results')
    OBVIOUS
  <2>4. QED
    BY <1>5, <1>6, <2>1, <2>2, <2>3 DEF Handed
<1>8. CASE DrawTexture
  <2>1. texture' = newImage /\ newImage' = NoImage /\ cmdList' = cmdList
    BY <1>8 DEF DrawTexture
  <2>2. QED
    BY <1>5, <1>6, <2>1 DEF Handed
<1>9. CASE ShowImage
  <2>1. /\ cmdList' = Append(cmdList, pOutputImg)
        /\ UNCHANGED <<newImage, texture>> /\ mpc \in {"show", "insert"}
    BY <1>9 DEF ShowImage
  <2>2. pOutputImg = Result(Frame(Len(used))) /\ Len(used) > 0
    BY <2>1, FrameRow DEF Joint
  <2>3. pOutputImg \in Results
    <3>1. Len(used) \in 1 .. Len(used)
      BY <1>1, <2>2
    <3>2. QED
      BY <2>2, <3>1 DEF Results
  <2>4. cmdList' \in Seq(Results')
    BY <1>4, <1>5, <2>1, <2>3
  <2>5. QED
    BY <1>5, <1>6, <2>1, <2>4 DEF Handed
<1>10. CASE ~main_idle /\ ~DrawTexture /\ ~ShowImage
  BY <1>5, <1>6, <1>10, Writers DEF Handed
<1>11. QED
  BY <1>7, <1>8, <1>9, <1>10

(* No access goes astray: no slice reaches beyond its image, no transfer   *)
(* and no join touches freed data, although main frees it without asking   *)
(* (CellCV_spe.c:169), and each transfer has a size that DMA allows and    *)
(* stays inside the local buffer (spu/CellCV.c:105-122).                   *)
THEOREM NoAccessAstray == Spec => []NoStrayAccess
<1>1. Init => HandOver /\ Data
  BY InitHandOver, InitData
<1>2. TypeOK /\ HandOver /\ Data /\ [Next]_vars => HandOver' /\ Data'
  BY StepHandOver, StepData
<1>3. TypeOK /\ HandOver /\ Data => NoStrayAccess
  BY DataNoStrayAccess
<1>4. QED
  BY <1>1, <1>2, <1>3, Types, PTL DEF Spec

(* Every image that is handed to the window is the elaboration of the      *)
(* whole image that was taken for it, whatever the number of SPUs, the     *)
(* width and the sizes of the buffers (CellCV_spe.c:149-175).              *)
THEOREM WholeImages == Spec => []ShownWhole
<1> DEFINE I == HandOver /\ Data /\ Joint /\ Handed
<1>1. Init => I
  BY InitHandOver, InitData, InitJoint
<1>2. IInv /\ IInv' /\ I /\ [Next]_vars => I'
  <2>1. IInv => TypeOK
    BY DEF IInv
  <2>2. QED
    BY <2>1, StepHandOver, StepData, StepJoint, StepHanded
<1>3. I => ShownWhole
  <2> SUFFICES ASSUME I PROVE ShownWhole
    OBVIOUS
  <2>1. \A k \in DOMAIN cmdList : cmdList[k] \in Results
    BY DEF Handed
  <2>2. mpc \in {"show", "insert"} => pOutputImg = Result(Frame(Len(used)))
    BY FrameRow DEF Joint
  <2>3. QED
    BY <2>1, <2>2 DEF Handed, ShownWhole
<1> HIDE DEF I
<1>4. QED
  BY <1>1, <1>2, <1>3, Invariance, PTL DEF Spec
=============================================================================
