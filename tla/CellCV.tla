------------------------------- MODULE CellCV -------------------------------
(***************************************************************************)
(* CellCV, the program of the documentation that cell-stream grew out of:  *)
(* a thread acquires images into a bounded buffer; main takes them, cuts   *)
(* each into slices, lets one SPU elaborate each slice by DMA, joins the   *)
(* results and hands a copy to the thread of the window, which shows it.   *)
(* main and the SPUs exchange mailbox messages and share the structs of    *)
(* the slices and the blocks of their data, without locks.                 *)
(*                                                                         *)
(* A section of code under a mutex is one step; what waits for a condition *)
(* variable is woken by its signal, or for no reason.  All images have the *)
(* same size.  Not modelled: PNG files, what OpenGL does, keys, a second   *)
(* window, the context struct that an SPU loads once, profiling.  What     *)
(* main does after it joins the thread of the acquisition is never done.   *)
(***************************************************************************)
EXTENDS Slices

CONSTANTS
  Cycles,       \* how many images main handles
  BUF_SIZE,     \* the size of the buffer of acquired images
  Widths,       \* the widths an image may have
  Transfer,     \* MAX_TRANSFER_SIZE of one DMA, 1024 times the alignment
  LocalBuffer,  \* BIGBUFFER_SIZE
  MailboxSize   \* the messages an SPU's incoming mailbox holds

ASSUME CellCVAssumption ==
  /\ {Cycles, BUF_SIZE, Transfer, LocalBuffer, MailboxSize} \subseteq Nat \ {0}
  /\ Transfer % Alignment = 0
  /\ \A w \in Widths : w \in Nat /\ w >= Threads /\ w \div Threads >= Border

VARIABLES
  width,     \* the width of the images
  apc,       \* the acquisition: read, put, wait or signal
  frame,     \* theCounter: how many images it has read
  buffer,    \* the ring of images
  add,       \* where the next is put
  rem,       \* where the next is taken from
  num,       \* how many there are
  mpc,       \* where main is
  spei,      \* the counter of its loops
  pInputImg, \* the number of the image that main has taken
  used,      \* the images it has taken so far
  pOutputImg,  \* the joined image
  siarray,     \* the structs of the slices
  sioutarray,  \* the structs of the elaborated slices
  heap,      \* heap[b]: the data in block b, or Free
  inbox,     \* inbox[n]: the messages to SPU n
  outbox,    \* outbox[n]: how many messages there are from it
  spc,       \* spc[n]: where it is
  mysubimage,  \* mysubimage[n]: its copy of the struct
  bigbuffer, \* bigbuffer[n]: the data in its local store
  copied,    \* copied[n]: how far its transfers have come
  cmdList,   \* the images for the window
  newImage,  \* the image it will show next, or NoImage
  texture,   \* the image it shows
  gpc        \* the window's thread: idle or signal

acquisition == <<frame, buffer, add, num>>
structs == <<siarray, sioutarray, heap>>
mainData == <<spei, pInputImg, used, pOutputImg>>
mailboxes == <<inbox, outbox>>
spus == <<spc, mysubimage, bigbuffer, copied>>
window == <<cmdList, newImage, texture, gpc>>
vars == <<width, apc, acquisition, rem, mpc, mainData, structs, mailboxes, spus, window>>

Free == [j \in {} |-> Unset]
NoImage == [j \in {} |-> Outside]
Blocks == 0 .. 2 * Threads - 1
Frame(f) == [x \in 0 .. width - 1 |-> Pixel(f, x)]

AcquisitionInit ==
  /\ apc = "read"
  /\ frame = 0
  /\ buffer = [k \in 0 .. BUF_SIZE - 1 |-> 0]
  /\ add = 0 /\ rem = 0 /\ num = 0

WindowInit ==
  /\ cmdList = <<>>
  /\ newImage = NoImage
  /\ texture = NoImage
  /\ gpc = "idle"

SpuInit ==
  /\ inbox = [n \in SliceIds |-> <<>>]
  /\ outbox = [n \in SliceIds |-> 0]
  /\ spc = [n \in SliceIds |-> "idle"]
  /\ mysubimage = sioutarray
  /\ bigbuffer = [n \in SliceIds |-> [j \in 0 .. LocalBuffer - 1 |-> Unset]]
  /\ copied = [n \in SliceIds |-> 0]

(* The structs of the results are made from a first image, out.png.        *)
Init ==
  /\ width \in Widths
  /\ mpc = "get"
  /\ spei = 0
  /\ pInputImg = 0
  /\ used = <<>>
  /\ pOutputImg = Frame(0)
  /\ sioutarray = [n \in SliceIds |-> SliceStruct(width, n, n)]
  /\ siarray = sioutarray
  /\ heap = [b \in Blocks |-> IF b \in SliceIds THEN SliceData(Frame(0), width, b)
                              ELSE Free]
  /\ AcquisitionInit /\ WindowInit /\ SpuInit
-----------------------------------------------------------------------------
(* The thread of the acquisition.                                          *)
getTheImage ==
  /\ apc = "read"
  /\ apc' = "put"
  /\ frame' = frame + 1
  /\ UNCHANGED <<width, buffer, add, rem, num, mpc, mainData, structs, mailboxes,
                 spus, window>>

(* Mutant: it notices too late that the buffer is full.                    *)
FullLate == num > BUF_SIZE
Full == num = BUF_SIZE

PutImage ==
  /\ apc = "put"
  /\ IF Full
     THEN apc' = "wait" /\ UNCHANGED <<buffer, add, num>>
     ELSE /\ apc' = "signal"
          /\ buffer' = [buffer EXCEPT ![add] = frame]
          /\ add' = (add + 1) % BUF_SIZE
          /\ num' = num + 1
  /\ UNCHANGED <<width, frame, rem, mpc, mainData, structs, mailboxes, spus, window>>

(* Whom a signal of a condition variable wakes.  Mutant: nobody.           *)
WokenNone(pc, from, to) == pc
Woken(pc, from, to) == IF pc = from THEN to ELSE pc

SignalConsumer ==
  /\ apc = "signal"
  /\ apc' = "read"
  /\ mpc' = Woken(mpc, "waitimage", "get")
  /\ UNCHANGED <<width, acquisition, rem, mainData, structs, mailboxes, spus, window>>
-----------------------------------------------------------------------------
(* main.                                                                   *)
GetImage ==
  /\ mpc = "get"
  /\ IF num = 0
     THEN mpc' = "waitimage" /\ UNCHANGED <<rem, num, pInputImg, used>>
     ELSE /\ mpc' = "signal"
          /\ pInputImg' = buffer[rem]
          /\ used' = Append(used, buffer[rem])
          /\ rem' = (rem + 1) % BUF_SIZE
          /\ num' = num - 1
  /\ UNCHANGED <<width, apc, frame, buffer, add, spei, pOutputImg, structs,
                 mailboxes, spus, window>>

SignalProducer ==
  /\ mpc = "signal"
  /\ mpc' = "split"
  /\ apc' = Woken(apc, "wait", "put")
  /\ UNCHANGED <<width, acquisition, rem, mainData, structs, mailboxes, spus, window>>

(* The slices are made, and the image is destroyed.  Which block is        *)
(* allocated for which slice makes no difference.                          *)
Split ==
  /\ mpc = "split"
  /\ mpc' = "trigger"
  /\ \E block \in [SliceIds -> {b \in Blocks : heap[b] = Free}] :
       /\ \A m, n \in SliceIds : m < n => block[m] < block[n]
       /\ siarray' = [n \in SliceIds |-> SliceStruct(width, n, block[n])]
       /\ heap' = [b \in Blocks |->
                     IF b \in Range(block)
                     THEN SliceData(Frame(pInputImg), width, Inverse(block, SliceIds, Blocks)[b])
                     ELSE heap[b]]
  /\ UNCHANGED <<width, apc, acquisition, rem, mainData, sioutarray, mailboxes,
                 spus, window>>

(* A loop over the SPUs, which goes on at next.                            *)
NextSpu(next) ==
  /\ spei' = (spei + 1) % Threads
  /\ mpc' = IF spei = Threads - 1 THEN next ELSE mpc

WriteInMbox(op) ==
  /\ Len(inbox[spei]) < MailboxSize
  /\ inbox' = [inbox EXCEPT ![spei] = Append(@, op)]
  /\ UNCHANGED outbox

trigger_spe ==
  /\ mpc = "trigger"
  /\ WriteInMbox("ELAB_IMAGE")
  /\ NextSpu("sync")
  /\ UNCHANGED <<width, apc, acquisition, rem, pInputImg, used, pOutputImg,
                 structs, spus, window>>

(* Mutant: an empty mailbox is read, which returns an error.               *)
AnsweredAlways == TRUE
Answered == outbox[spei] > 0

sync_spe ==
  /\ mpc = "sync"
  /\ Answered
  /\ outbox' = [outbox EXCEPT ![spei] = Max({@ - 1, 0})]
  /\ NextSpu("join")
  /\ UNCHANGED <<width, apc, acquisition, rem, pInputImg, used, pOutputImg,
                 structs, inbox, spus, window>>

(* The slices are joined, and the data of those in siarray is freed.       *)
JoinSubimages ==
  /\ mpc = "join"
  /\ mpc' = "show"
  /\ pOutputImg' = Join(sioutarray, [n \in SliceIds |-> heap[sioutarray[n].data]], pOutputImg)
  /\ heap' = [b \in Blocks |-> IF \E n \in SliceIds : siarray[n].data = b
                               THEN Free ELSE heap[b]]
  /\ UNCHANGED <<width, apc, acquisition, rem, spei, pInputImg, used, siarray,
                 sioutarray, mailboxes, spus, window>>

(* showImageCopy.  It waits once, not until the list is empty.             *)
ShowWaits ==
  /\ mpc = "show"
  /\ cmdList # <<>>
  /\ mpc' = "waitlist"
  /\ UNCHANGED <<width, apc, acquisition, rem, mainData, structs, mailboxes,
                 spus, window>>

ShowImage ==
  /\ (mpc = "show" /\ cmdList = <<>>) \/ mpc = "insert"
  /\ cmdList' = Append(cmdList, pOutputImg)
  /\ mpc' = IF Len(used) < Cycles THEN "get" ELSE "exit"
  /\ UNCHANGED <<width, apc, acquisition, rem, mainData, structs, mailboxes,
                 spus, newImage, texture, gpc>>

exit_spe ==
  /\ mpc = "exit"
  /\ WriteInMbox("EXIT_SPE_OP")
  /\ NextSpu("wait")
  /\ UNCHANGED <<width, apc, acquisition, rem, pInputImg, used, pOutputImg,
                 structs, spus, window>>

(* The SPUs have ended.  main waits for the acquisition, which never ends. *)
WaitSpus ==
  /\ mpc = "wait"
  /\ \A n \in SliceIds : spc[n] = "ended"
  /\ mpc' = "join_acquisition"
  /\ UNCHANGED <<width, apc, acquisition, rem, mainData, structs, mailboxes,
                 spus, window>>
-----------------------------------------------------------------------------
(* The program of an SPU.  hostVars is what it leaves alone.               *)
hostVars == <<width, apc, acquisition, rem, mpc, mainData, siarray, window>>

SpuGoto(n, from, to) ==
  /\ spc[n] = from
  /\ spc' = [spc EXCEPT ![n] = to]
  /\ UNCHANGED hostVars

ReadInMbox(n) ==
  /\ inbox[n] # <<>>
  /\ SpuGoto(n, "idle", IF Head(inbox[n]) = "ELAB_IMAGE" THEN "get" ELSE "ended")
  /\ inbox' = [inbox EXCEPT ![n] = Tail(@)]
  /\ UNCHANGED <<outbox, sioutarray, heap, mysubimage, bigbuffer, copied>>

Fits(s) == s.bytesAllocated <= LocalBuffer

GetStruct(n) ==
  /\ Fits(siarray[n])
  /\ SpuGoto(n, "get", "toLS")
  /\ mysubimage' = [mysubimage EXCEPT ![n] = siarray[n]]
  /\ UNCHANGED <<sioutarray, heap, mailboxes, bigbuffer, copied>>

(* The slice is larger than the local buffer: the program exits, and main  *)
(* waits for its answer for ever.                                          *)
TooMuch(n) ==
  /\ ~Fits(siarray[n])
  /\ SpuGoto(n, "get", "ended")
  /\ mysubimage' = [mysubimage EXCEPT ![n] = siarray[n]]
  /\ UNCHANGED <<sioutarray, heap, mailboxes, bigbuffer, copied>>

(* The pixels that one DMA moves.                                          *)
Piece(n) ==
  copied[n] .. Min({copied[n] + Transfer, mysubimage[n].bytesAllocated}) - 1

Copied(n, from, to) == [j \in DOMAIN to |-> IF j \in Piece(n) THEN from[j] ELSE to[j]]

(* One DMA is done; after the last one the program goes on at next.        *)
Transferred(n, here, next) ==
  LET end == Max(Piece(n)) + 1
      last == end = mysubimage[n].bytesAllocated
  IN /\ SpuGoto(n, here, IF last THEN next ELSE here)
     /\ copied' = [copied EXCEPT ![n] = IF last THEN 0 ELSE end]

sidata_toLS(n) ==
  /\ Transferred(n, "toLS", "elaborate")
  /\ bigbuffer' = [bigbuffer EXCEPT ![n] = Copied(n, heap[mysubimage[n].data], @)]
  /\ UNCHANGED <<sioutarray, heap, mailboxes, mysubimage>>

(* The struct becomes the one of the result: the result's data is put      *)
(* where the input was.                                                    *)
ElaborateAndPutStruct(n) ==
  /\ SpuGoto(n, "elaborate", "toMM")
  /\ bigbuffer' = [bigbuffer EXCEPT ![n] = Elaborate(@, mysubimage[n].w)]
  /\ sioutarray' = [sioutarray EXCEPT ![n] = mysubimage[n]]
  /\ UNCHANGED <<heap, mailboxes, mysubimage, copied>>

sidata_toMM(n) ==
  /\ Transferred(n, "toMM", "answer")
  /\ heap' = [heap EXCEPT ![mysubimage[n].data] = Copied(n, bigbuffer[n], @)]
  /\ UNCHANGED <<sioutarray, mailboxes, mysubimage, bigbuffer>>

WriteOutMbox(n) ==
  /\ outbox[n] = 0
  /\ SpuGoto(n, "answer", "idle")
  /\ outbox' = [outbox EXCEPT ![n] = 1]
  /\ UNCHANGED <<inbox, sioutarray, heap, mysubimage, bigbuffer, copied>>
-----------------------------------------------------------------------------
(* The thread of the window.  Each image of the list replaces the one      *)
(* before, which is destroyed.                                             *)
main_idle ==
  /\ gpc = "idle"
  /\ gpc' = "signal"
  /\ newImage' = IF cmdList = <<>> THEN newImage ELSE cmdList[Len(cmdList)]
  /\ cmdList' = <<>>
  /\ UNCHANGED <<width, apc, acquisition, rem, mpc, mainData, structs, mailboxes,
                 spus, texture>>

SignalListEmpty ==
  /\ gpc = "signal"
  /\ gpc' = "idle"
  /\ mpc' = Woken(mpc, "waitlist", "insert")
  /\ UNCHANGED <<width, apc, acquisition, rem, mainData, structs, mailboxes,
                 spus, cmdList, newImage, texture>>

DrawTexture ==
  /\ gpc = "idle"
  /\ newImage # NoImage
  /\ texture' = newImage
  /\ newImage' = NoImage
  /\ UNCHANGED <<width, apc, acquisition, rem, mpc, mainData, structs, mailboxes,
                 spus, cmdList, gpc>>

(* A wait for a condition variable may end for no reason.                  *)
WakeForNoReason ==
  /\ \/ apc = "wait" /\ apc' = "put" /\ UNCHANGED mpc
     \/ mpc = "waitimage" /\ mpc' = "get" /\ UNCHANGED apc
     \/ mpc = "waitlist" /\ mpc' = "insert" /\ UNCHANGED apc
  /\ UNCHANGED <<width, acquisition, rem, mainData, structs, mailboxes, spus, window>>
-----------------------------------------------------------------------------
AcquisitionThread == getTheImage \/ PutImage \/ SignalConsumer

MainThread ==
  \/ GetImage \/ SignalProducer \/ Split \/ trigger_spe \/ sync_spe
  \/ JoinSubimages \/ ShowWaits \/ ShowImage \/ exit_spe \/ WaitSpus

SpuProgram(n) ==
  \/ ReadInMbox(n) \/ GetStruct(n) \/ TooMuch(n) \/ sidata_toLS(n)
  \/ ElaborateAndPutStruct(n) \/ sidata_toMM(n) \/ WriteOutMbox(n)

WindowThread == main_idle \/ SignalListEmpty \/ DrawTexture

Next ==
  \/ AcquisitionThread \/ MainThread \/ WindowThread \/ WakeForNoReason
  \/ \E n \in SliceIds : SpuProgram(n)

Spec == Init /\ [][Next]_vars

(* All threads and SPUs run, and the window is drawn when it is asked to.  *)
FairSpec ==
  /\ Spec
  /\ WF_vars(AcquisitionThread)
  /\ WF_vars(MainThread)
  /\ \A n \in SliceIds : WF_vars(SpuProgram(n))
  /\ WF_vars(main_idle \/ SignalListEmpty)
  /\ SF_vars(DrawTexture)
-----------------------------------------------------------------------------
TypeOK ==
  /\ apc \in {"read", "put", "wait", "signal"}
  /\ {add, rem} \subseteq 0 .. BUF_SIZE - 1
  /\ num \in 0 .. BUF_SIZE
  /\ mpc \in {"get", "waitimage", "signal", "split", "trigger", "sync", "join",
              "show", "waitlist", "insert", "exit", "wait", "join_acquisition"}
  /\ spei \in SliceIds
  /\ spc \in [SliceIds -> {"idle", "get", "toLS", "elaborate", "toMM",
                           "answer", "ended"}]
  /\ outbox \in [SliceIds -> 0 .. 1]
  /\ gpc \in {"idle", "signal"}

(* No access goes astray: a slice is made of pixels of its image only      *)
(* (subimage.c:169); the transfers and the join touch no freed block,      *)
(* although main frees the blocks that both structs of a slice point to    *)
(* (CellCV_spe.c:166-170); the transfers have sizes that DMA allows and    *)
(* stay inside the local buffer (spu/CellCV.c:105-122).                    *)
InsideImage ==
  \A b \in Blocks : \A j \in DOMAIN heap[b] : heap[b][j] # Outside

NotFreed ==
  /\ \A n \in SliceIds :
       spc[n] \in {"toLS", "elaborate", "toMM"} => heap[mysubimage[n].data] # Free
  /\ mpc = "join" => \A n \in SliceIds : heap[sioutarray[n].data] # Free

LegalTransfers ==
  \A n \in SliceIds : spc[n] \in {"toLS", "toMM"} =>
    /\ Cardinality(Piece(n)) % Alignment = 0
    /\ Max(Piece(n)) < LocalBuffer

NoStrayAccess == InsideImage /\ NotFreed /\ LegalTransfers

(* Every image that is handed to the window is the elaboration of the      *)
(* whole image that was taken for it: no slice of another image, none half *)
(* transferred, no seam between slices (CellCV_spe.c:149-175).             *)
Results == {Result(Frame(f)) : f \in 1 .. Len(used)}

ShownWhole ==
  /\ {newImage, texture} \subseteq Results \cup {NoImage}
  /\ \A k \in DOMAIN cmdList : cmdList[k] \in Results
  /\ mpc \in {"show", "insert"} => pOutputImg = Result(Frame(Len(used)))

(* The images reach main in their order and none is lost or taken twice,   *)
(* whoever waits for whom (ImageAcquisition.c:51-87).                      *)
Inserted == IF apc \in {"put", "wait"} THEN frame - 1 ELSE frame
Acquired == INSTANCE Wire WITH
  Lines <- {1},
  sent <- [c \in {1} |-> [k \in 1 .. Inserted |-> k]],
  taken <- [c \in {1} |-> used]
FramesArrive == Acquired!Spec

(* If the slices fit into the local buffers, the last image is shown in    *)
(* the end and the SPUs have ended: nobody waits for a signal, a mailbox   *)
(* or another thread for ever (CellCV_spe.c:72, 83, ImageAcquisition.c:60, *)
(* 78, GLUTWindow.cpp:341).                                                *)
AllFramesShown ==
  (\A n \in SliceIds : Fits(SliceStruct(width, n, 0)))
    ~> (mpc = "join_acquisition" /\ texture = Result(Frame(Cycles)))
=============================================================================
