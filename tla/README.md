# Cell Stream: a TLA+ verification development

Cell Stream processes images on a Cell processor. A client cuts an image into
chunks and sends them over TCP to a server; the server keeps them in a buffer
of slots, manager threads hand them to SPUs, SPUs convolve them, and send
threads return them; the client puts the image together again. This directory
models that program, and CellCV, the example under `doc` that it grew out of;
it checks them with TLC and proves the central invariants with TLAPS. Paths are
relative to the repository (`src/...`); line numbers refer to the commit the
models were written from.

## 1. The system

| Part | State | Operations | Who calls it |
|---|---|---|---|
| chunk buffer, `src/server/ppu/Buffer.cpp` | slots with a `state`, six mutexes, six search indexes, six counters | `find_chunk`, `find_wait_chunk`, `step_chunk` | io thread (FREE → RECEIVING → WAIT), managers (WAIT → WORKING → READY or WAIT), send threads (READY → SENDING → FREE) |
| SPU controller, `src/server/ppu/spu_controller.cpp` | programs, sequences, parameters, per SPU a control block and `prog_id` | `program_load`, `program_run`, `parameter_*`, `sequence_add_entry`, `chunk_cache_values`, `spu_manage` | io thread fills the tables, managers read them, without a lock |
| SPU program, `src/server/spu/program.c`, `conv9.c` | local copies of control block, parameter, chunk | `prog_run`, `chunk_handler` | manager, through control block and mailboxes |
| connections, `src/server/ppu/Server.cpp` | input buffer and stream, socket, output mutex | `handle_read` (seven commands), `handle_write`, accept, stop | boost io service, one send thread per connection |
| client library, `src/client/lib/Client.cpp` | socket, io service, `connected_`, status flag, output mutex | `connect`, `disconnect`, `send_*`, `server_status`, `handle_read` | client program, image load threads, io service |
| image, `src/client/lib/Image.cpp` | input and output image, `chunks_out_` | `process_image`, `load_image`, `chunk_received` | client program; load thread; client io thread |
| image directory, same file | map of ids to images | `process_images`, `get_id`, `chunk_generated`, `chunk_received` | main thread, load threads, client io thread |
| client program, `src/client/CSApp.cpp` | one of each of the above | command line | user |
| masks, statistics, `Main.cpp` | data | text and time | |
| CellCV, `doc/CellCV/CellCV-0.50` | ring of acquired images, structs and data of slices, list of images to show | acquire, split, trigger, elaborate, join, show | a thread that acquires, main, three SPUs, a thread for the windows |

How they interact: the client's commands are messages on a TCP stream; in the
server everything is shared memory, guarded only by the buffer's mutexes; a
manager and its SPU share a control block and two mailboxes; in the client the
load threads and the io thread share the image objects without a lock.
CellCV's threads share two queues under mutexes with condition variables; main and its
SPUs share the slices, with mailbox messages as the only protection.

What is hard:

- *Locks.* Each buffer call holds two of six mutexes, in the order of the life
  cycle of a slot, which is a circle. Counters are tested before any lock.
- *Shared tables.* The io thread changes programs, sequences and parameters
  while managers use them, and frees blocks they have pointers to.
- *Handshake.* A manager refills a control block that the SPU reads by DMA, and
  the answer does not say which chunk it is for.
- *Order.* Chunks come back in any order, some never; the client has only a
  count.
- *Streams.* TCP delivers any part of a command at a time; the handlers read on
  synchronously in the middle of an asynchronous read, and call themselves for
  each further command. Two threads write each
  direction of a connection, in partial writes under a mutex.
- *Ends.* A connection may end, or be replaced, while a command is half read or
  half written; the rest of it may come on the next one. SHUTDOWN arrives with
  other work under way. An image may be deleted under its load thread.
- *Hand-over.* In CellCV, main frees blocks that an SPU has pointers to, and
  condition variables are signalled after the mutex is released.
- *Arithmetic.* The grid of chunks, with unsigned subtraction and a border;
  slices of a width that cannot be divided by their number.

## 2. The modules

    ChunkStates ── SlotCycle ◄─ implements (proved) ─ ChunkServer ── MCChunkServer,
         │             ▲ implements (proved)             ChunkServerProofs ── OrderlyProofs
         └────────── Buffer ── MCBuffer, BufferProofs

    SpuService ◄─ implements (proved) ─ SpuLink ── MCSpuLink, SpuLinkProofs

    Image ── MCImage, ImageProofs

    Wire ◄─ implements (proved) ─ Session ── MCSession, SessionProofs
                                      ├─ Client ───── Sockets
                                      └─ Connection ─ Sockets

    Wire ◄─ implements (proved) ─ CellCV ── MCCellCV, SliceProofs, CellCVProofs
                                    └─ Slices

- `ChunkStates`: the six states and which role moves a slot from where to where.
- `SlotCycle`: what the buffer promises. A slot has one place and at most one
  owner; a thread takes a slot, passes it on, or (managers only) abandons it.
- `Buffer`: what `Buffer.cpp` does, lock by lock, under its callers. A call is
  *test of the counter* (`FindNone`, `FindEnter`), *first mutex* (`FindLock`,
  `StepLock`), *second mutex to return* (`FindHit`, `FindMiss`, `StepMove`). The
  last is one step because everybody who writes what is read there needs one
  of the two mutexes; the one exception, the io thread that overwrites a whole
  slot from the socket, is the separate action `Receive`.
- `SpuService`: ask, serve, finish. What a manager expects of its SPU.
- `SpuLink`: `spu_manage` (`Find`, `SetData`, `SetParam`, `Post`, `Collect`) and
  `prog_run` (`Boot`, `ReadMailbox`, `GetControlBlock`, `GetParam`, `GetChunk`,
  `PutChunk`, `Answer`), with the control block and the mailboxes between them.
  A mailbox is a number: its messages are all alike. `work` is what a chunk was
  processed with.
- `ChunkServer`: the server above the buffer and the link. It uses the actions
  of `SlotCycle` for slots and one step `Process` for the SPU, which is what the
  two refinements justify, the latter for one manager per SPU. Where two managers
  share an SPU (`Shared`) nothing is promised about contents: the processed chunk is `Spoilt`, and
  the SPU may spoil any other slot at any time (`Astray`). The io thread's handlers that wait for
  more bytes, or change a table that managers look into twice, are split there (`ParamFree`, `ParamErase`,
  `ParamAlloc` or `ParamAllocFails`, `ParamFill`; `SeqHeader`, `SeqEntry`;
  `ChunkFind`, `ChunkFill`), so that managers run in
  between. After a failed allocation the io thread reads to NULL; the process ends there, and
  the model's io thread gets no further. A chunk records the masks it went through. As many RUNs succeed as
  there are members of `Managers`: a bound of the model.
- `Image`: the image objects, of the command `image` (one for all calls) or of
  `imagedir` (one per file, in a map, deleted when complete). Pixels are places, so that "which pixel ends up
  where" can be stated; a chunk knows how many columns and rows it was filled
  with. Loading a file is one step. A round of the loop is two: `Generate` fills a chunk and
  sends it, inside the image's signal; `Return` leaves the signal and goes on to the next chunk. Chunks may
  come back in between, and the last of them deletes the image: then the load
  thread may take the process down (`ReturnCrashes`), or not.

- `Wire`: what a connection, or a queue between two threads, promises: what is
  put in comes out whole, in order, once.
- `Sockets`: the connections, one after the other, with the parts in transit
  each way and the state of each end. A *part* is what one `sync_read` waits
  for; a command has one to three of them (a chunk two), and TCP cuts between any two.
  Parts that do not belong together, or begin in the middle of a message, are *torn*
  (`IsTorn`): the reader takes any of their bytes for a command, so that they may be one of any kind
  (`Garbled`), or begin one, or leave bytes for the next (`Leftovers`).
- `Connection`: the server's side. `Accept`, `Arrive` and `ArriveEnd` are the
  completions the io thread handles; `Take` and `SyncRead` are the reading inside
  `handle_read`, the `Handle...` actions what it ends with, `Listen` the choice
  between waiting and the recursive call (`CallAgain`), which is one deeper: with more
  calls than `ServerStack` the process ends (`Overflow`). `HangUp` is a read that ends with an
  error, `CutOff` `sync_read` failing: the
  handler goes on with what it has, or asks for memory of whatever size that makes (`BadSize`). `EntriesLate` is the one place that does not
  wait. `SendFind`, `SendLock`, `SendWrite` and `SendEnd` are a send thread.
  `Die` is the end of the process by an exception or `Exit`.
- `Client`: the client library under its main thread (`SendCommand`, `Poll`,
  `Open`, `Close`, `Quit`), a load thread (`LoadCheck`, `LoadLock`, `LoadWrite`)
  and its io thread (`AnswerArrives` ... `HandleAnswer`). `Open` closes the socket; it is usable again
  with `Connected`, and what a load thread writes in between fails (`PutFails`). Input left from the connection before
  is handled inside `connect`, by the main thread. `handle_read` nests here too (`ClientStack`,
  `AnswerOverflow`). The user's input is a script.
- `Session`: both together, and what they promise each other.
- `Slices`: pure operators. How CellCV cuts an image into slices, what an SPU
  makes of one, how they are joined, and what the whole should be. A pixel is
  the sequence of the places it was computed from, so that a seam or a column
  of another image shows.
- `CellCV`: the acquisition thread (`getTheImage`, `PutImage`,
  `SignalConsumer`), main (from `GetImage` to `WaitSpus`), a program per SPU
  (`ReadInMbox` ... `WriteOutMbox`, with one step per DMA transfer) and the
  thread of the window. What is under a mutex is one step; the signal after it
  is another. An image is one row. Spurious wake-ups are `WakeForNoReason`.

Abstractions of `Session`: the limit of what TCP holds in transit, which makes a
writer wait for its reader, is left out. After late entries of a sequence the
stream has failed: the server is then *deaf*, and either gets no more input or
recurses until its stack is full (`ArriveDeaf`). A frame of `handle_read` has a `chunk_t` of 12.8 KB
(`Server.cpp:22`, `Client.cpp:189`), so that a stack of 8 MB has room for some 600 calls; `ServerStack` and
`ClientStack` stand for this number. `open` is typed only when no
connection is open. What commands do to the tables is in `ChunkServer`; here a
chunk is in the buffer or found no slot.

Abstractions throughout: pixel values, message bytes, log output and times are
left out; the vector and map races between io thread and managers
(`spu_sequence_` growing while it is read) are taken as atomic accesses.

## 3. Model checking

| Run | Instance | Shows |
|---|---|---|
| `buffer_cycle` | 3 slots, io thread, 2 managers, 1 sender, requeueing and abandoning | counters exact (`CountsExact`), slots exclusive (`ExclusiveUse`), life cycle implemented (`ImplementsCycle`), a failed search overlooks at most one slot |
| `buffer_single` | the same, sequences of one entry, fair | no circular wait, no slot overtaken for ever |
| `buffer_wedge` | the same | **violated**: a received chunk is sent in the end |
| `buffer_requeue` | the same, with requeueing | **violated**: the io thread listens again |
| `spu_apart` | 2 SPUs with a manager each, 2 chunks, 2 parameters, fair | results go only to awaited chunks, no full mailbox, each chunk processed once with its parameter, service implemented, every manager answered |
| `server_prog1` | `prog1`, two images, a mask between; sequences of 1 or 2 entries; 3 slots, 3 chunks, 2 SPUs | each chunk in exactly one place, returned chunks fully processed, no freed or unfilled parameter read, no chunk forgotten in WORKING |
| `server_any` | 2 clients in conflict, 2 slots, 1 SPU, up to 2 managers on it | each chunk in exactly one place, whatever the order of commands; contents may be spoilt |
| `server_cache` | a sequence naming parameter 1 | **violated**: cached values belong to the entry |
| `image_directory` | 11 sizes of one image, up to 3 columns and 3 rows, and directories of two files; chunks lost or in any order; fair | reads and writes inside, no overlap, saved images complete, convolved away from two edges; an image is deleted only when its last chunk is back (`DeletedWhenAllBack`; its load thread may still be in it); saved if nothing is lost and no load thread crashes |
| `image_edge` | one image | **violated**: convolved everywhere |
| `session` | six scripts: status before, during and after a connection, image, close, reopen, also while a chunk is sent, shutdown, quit; fair; stacks of 3 and 2 calls | the first connection is a `Wire` both ways (`CommandsArrive`, `AnswersArrive`), later ones carry commands in order unless a chunk was cut on one before (`LaterInStep`); status prints its own answer and gets one; shutdown ends the server; while the client keeps its connection only a stack full of buffered commands does so too (`SurvivesWhileConnected`); the client ends by quit, with the server, or in two ways that the property names (`ClientStays`) |
| `cellcv` | 3 SPUs, 3 images of 7 or 10 columns, ring of 2, DMA of 4, local buffer of 6 (7 columns fit, 10 do not); fair | no freed block or foreign pixel touched, every shown image whole, images in order, the last one shown if slices fit |

*Bounds.* Three slots are the least with which a search can start in the
middle, wrap round and overlook a slot while another matches. Two managers are
the least that meet on WAIT and WORKING in opposite orders. Border 2 is the least with a
rest between 0 and the border; chunks of 8 × 7 leave steps of 4 × 3. Nothing in
`SpuLink` relates more than two managers. `U32` is 1000: any modulus above the
chunk size behaves alike. Scripts bound the commands.

In `session` two connections are the least for a reopen; three parts the least
in which a command can be cut before and after it is known what it is; a script
is long enough for every action to happen. The stacks are so small that the scripts fill them: a
command that fits the stack of 600 calls behaves like one that fits the stack of 3, as a call
uses nothing of those below it. The script that cuts a chunk ends with the
reopen: torn parts may be any command, and what is sent behind them multiplies the states; `Later` and `Survives` are
proved for all scripts. In `cellcv` three slices are the least with an
inner one, a width of 7 leaves a rest of 1 and 10 a slice above the local buffer, a ring
of 2 becomes full and empty, and three images are the least with one being acquired,
one in elaboration and one shown.

*Fairness.* `Buffer`: strong fairness for a thread inside a call, because a
mutex that is released again and again is given to a waiting thread in the end;
weak fairness for entering `find`, because managers and senders poll; none for
the io thread, which may have nothing to receive. `SpuLink`: weak fairness for
each manager (not for finding a chunk) and each SPU, which are threads and
processors of their own. `Image`: weak fairness for the load thread, and the server returns or
drops each chunk. `Session`: weak fairness for each thread of both processes, as
a thread that holds a mutex only writes; none for the user.
`CellCV`: weak fairness for each thread and SPU; strong for drawing, because
each pass of the window's loop serves a pending redisplay.
`ChunkServer` states no liveness: `buffer_wedge` shows that the fairness it
would need is not there.

*Deadlock* is checked in `Buffer`, `SpuLink` and `CellCV`, whose threads never
stop. In `CellCV` it says little, as the window's loop can always idle; that the pipeline does not
stop is what `AllFramesShown` says. It is switched off where the scripts or the commands of the user end.

### What the violated runs show

1. `Buffer.cpp:46`: a search looks at all slots but the one before its start,
   and a failed search does not move the start. The last chunk of an image can
   stay in the server.
2. `spu_controller.cpp:183`: requeueing locks WORKING, then WAIT; searching
   locks WAIT, then WORKING. Two managers block each other, then the io thread
   blocks on WAIT. Sequences with one entry are safe (`NoCircularWait`).
3. `spu_controller.cpp:98`: the size test is the wrong way round; `prog_id` and
   `param_id` are never looked up. The client program does not notice, because
   all its ids are 0.
4. `Image.cpp:53`: width and height of a chunk's view are measured from another
   corner than its origin; the last column and row of chunks lack a border of
   pixels, and zeros are convolved instead.

### Seen while modelling, without a run

These are in the models (as actions, or as the conditions under which a property is stated):

- `spu_controller.cpp:41`: `prog1` twice gives each SPU two managers, which share
  a control block and take each other's answers. `SpuLink` with two managers on
  one SPU violates `FinishedIsProcessed`; `spu_apart` and the proofs are
  about one manager per SPU. Assumed: loading the image again leaves the
  running SPU program as it is. In `ChunkServer` such a pair spoils contents (`Astray`), which
  is why `OrderlyClients` demands that no SPU gets two RUNs.
- `Image.cpp:105`: a second `image` command takes over the count and the output
  image while chunks of the first are out; `image_directory` has an object
  per image.
- `CSApp.cpp:157`, `Server.cpp:144`: a client that quits or closes while chunks
  are in the server makes the write of a send thread throw, which ends
  the server (`WriteFails`; hence the condition in `SurvivesWhileConnected`).
- `Client.cpp:80`: `disconnect` stops the io service and nothing resets it, so
  after the next `open` no answer is read and `status` polls for ever
  (hence the first connection in `StatusAnswered`). `status` before the first
  `open` polls a flag that nobody has initialised (`Client.cpp:50`).
- `Client.cpp:61`: a reopen while the load thread writes splits a chunk over two
  connections, not necessarily neighbours, as a third may come and go between two partial
  writes (the exception in `LaterInStep`). The server reads the bytes of the rest as commands
  (`Server.cpp:26-125`), in which a pixel may be CHUNK, or SHUTDOWN.
- `Client.cpp:61-62`, `237`: between `close` and the end of `connect` the socket is not connected. A load
  thread that writes then throws, nobody catches it, and the client ends (the exception in `ClientStays`).
- `Server.cpp:129`, `188` and `Client.cpp:232`, `266`: `handle_read` and `async_read` call each
  other as long as there is input. Several hundred commands, or answers, that are buffered before the handler finds
  its input empty once fill the stack (the exceptions in `SurvivesWhileConnected` and `ClientStays`).
- `Image.cpp:72`, `203`, `213`: the io thread may delete the image of a directory while its load thread
  is still inside the signal of that image (`ReturnCrashes`; the exception in `SavedInTheEnd`).
- `Server.cpp:90`: the entries of a SEQUENCE are read without waiting for them
  (`EntriesLate`).
- `Server.cpp:75`, `106`: a connection cut inside a PARAMETER leaves its size
  to chance (`BadSize`); inside a CHUNK, half a chunk goes to the buffer (`CutOff`).
- `CellCV_spe.c:72`: a slice above the local buffer ends its SPU program (`TooMuch`), and
  main waits for the answer for ever (the condition of `AllFramesShown`). Slices
  narrower than the border, or a single slice, read next to the image (`CellCVAssumption`).
- `GLUTWindow.cpp:341` tests its condition once, not in a loop; it does no harm.
- Outside the models: an image that leaves 1 to 3 columns or rows to its last
  chunks makes the subtraction of `Image.cpp:53` wrap round (`InBounds` is checked for the
  other sizes); `mask` fills parameter 5 (`CSApp.cpp:192`), which the client program's
  sequences do not name; `spu/CellCV.c:119` names a field `parameter_data`, a renaming gone wrong: it is taken as `data`.

## 4. Proofs

For every number of slots, threads, SPUs, chunks, parameters and images:

- `BufferProofs`, from `NAssumption`, `ThreadsAssumption`, `FlagsAssumption` and
  `NullAssumption`. `Inductive` proves `IInv == Typing /\ Discipline /\ CountsExact`.
  `CountsExact` alone is not inductive: a move of the counters keeps them exact
  only if the slot is in the state the thread believes, which is
  `ExclusiveUse`; that needs the control points, the mutexes and the held
  slots to agree (`MutexHeld`, `SlotHeld`), that a thread steps only to a goal of
  its role (`GoalSet`), and that the io thread's slot is the only one whose field lies
  (`RefilledIsFree`). `Types`, `Counts`, `Exclusion` follow. `NoDeadlock`
  (assuming `~MultiStep`): a set of threads that wait for each other would need
  every mutex of the circle to be held in it, but the holder of FREE or
  RECEIVING is the io thread and waits for neither. `Overlooks`: the loop visits all slots but one
  (`Round`). `Refinement`: each action is a step of `SlotCycle` or a
  stutter.
- `SpuLinkProofs`, assuming `OneManagerPerSpu`. `IInv` says for each
  manager that nothing is under way before it posts, and afterwards exactly one of
  inbox, SPU program and outbox has the job (`UnderWay`), with the copies the SPU has made
  (`Fetched`). `Types`, `Writes`, `Mailboxes`, `Finished` and `Refinement` (of `SpuService`)
  follow. `Frame` shows that steps elsewhere do not disturb a manager.
- `SliceProofs`, from `SlicesAssumption` and `CellCVAssumption`: how an image is cut. Where
  a slice starts is the sum of the widths before it (`Starts`, the loops of
  `create_subimage` and `join_subimages`). The library's induction theorems cannot be used,
  but its `WFMin` can: a set of numbers has a least one (`LeastNumber`), so there is
  no first slice for which the sum is not `n` equal shares and a column more for each wider
  slice (`StartsClosed`). From there: the slices lie side by side (`StartsApart`) and
  cover the image (`WholeWidth`, `SliceOf`, `OneSlice`), none reaches beyond it
  (`Origins`), sizes are aligned (`Rounded`, `OneTransfer`), and
  `JoinedSlices`: the elaborated slices, joined, are the elaborated image.
- `CellCVProofs`, from the same. First the ring: `IInv == TypeOK /\ Queue`
  says that between `rem` and `add` lie, in their order, exactly the images inserted
  and not taken (`InRing`), and that what was taken is in order
  (`TakenInOrder`). `RingSteps` shows that each step inserts one image, takes the
  next, or neither, from which `Frames` follows: the ring is a `Wire`. Then the jobs:
  `HandOver` says that a triggered SPU has its job in its mailbox, in its
  hands, or has answered with the struct of its result in place (`Turn`), that
  its copy of a struct is the one main will join and free (`Copies`), and that
  the data exists from the split to the join (`Allocated`). Then the pixels: `Data` says
  what each block holds (`InMemory`: the slice as it was cut, as it was elaborated, or
  mixed up to where the transfer has come), what each local store holds (`InLocal`), and that
  transfers have come to an aligned place (`Progress`). `Local` and `DataLocal` show that
  SPUs do not disturb each other, which needs their blocks to differ (`Cut`).
  `NoAccessAstray` follows from these, and `WholeImages` with what main has joined
  (`Joint`) and handed over (`Handed`).

- `ChunkServerProofs`, from `ThreadsAssumption`, `ServerNamesAssumption`,
  `ServerFlagsAssumption` and `ScriptsAssumption` (each client's commands are
  well formed, each chunk is sent once). `Refinement`: the server moves its slots
  as `SlotCycle` allows. `Types` needs `Typing`, which adds that an owned slot is in
  the state its owner has put it in, that no two parameters share a block, and that
  a thread in the midst of its work holds a slot (`Holders`). `NoneLost` counts
  places: `Conservation` says that the set of places of a chunk has one
  member. The invariant `Once` says the same without cardinalities: at most one index of one
  wire, of one queue of answers, or one slot, and never two of these, hence each step
  needs only the places that it empties and fills.
- `OrderlyProofs`: `Remembered`, `BlocksReady`, `Processed`, for the server of
  `OrderlyClients`: a client sends its chunks after the mask and after a sequence that is not
  empty, no mask or sequence comes twice, and each SPU is run once (`RunOnce`). The client program sets the server up
  this way (`CSApp.cpp:69-102`); without it the three do not hold, as the
  server frees blocks that managers use. `MCChunkServer` assumes it of the
  script of `server_prog1` (`Prog1Orderly`). The invariant `Orderly`
  follows what a chunk needs from the wire into the tables (`WiresOrderly`, `SequencesPlain`,
  `MaskFilled`): once a chunk is off the wire, nothing it needs changes any more
  (`ChunksReady`). `SpusApart` says that no SPU has two managers and none will, so that `Process` is
  what `SpuLinkProofs` shows of the code. `ManagersAtWork` ties each WORKING slot to one manager, and `TrailsRight`
  says how many entries of its sequence a chunk has been through in each state.
- `ImageProofs`, for `Directory`, from `BorderAssumption`, `U32Assumption` and
  `CommandsAssumption` (the number of chunks fits a `u32_t`). First the grid:
  division with a rest gives each number a column and a row and back (`GridPlace`, `GridNumber`), from
  which the targets of two chunks are disjoint (`TargetsDisjoint`) and together cover
  the image but its left and upper border (`TargetsCover`), sources and targets lie
  inside (`SourceInside`, `TargetInside`), and a window that ends a border before
  the edge lies in its chunk (`WindowInside`). They need `Fits`: the last chunks have at least a
  border of the image, or the subtraction wraps round. Then the protocol: `Complete` says that
  there is a set of chunks, as large as `chunks_out_`, that contains all that are out or
  still to be cut and is exactly what the output image lacks (`Missing`). The count
  alone is not inductive: with it zero one must know that nothing is missing.
  A dropped chunk stays in the set, so the count never reaches zero. `Deleted` says that an image whose count is zero has no
  chunk out or still to be cut; it does not say that its load thread has left it. `Types` and
  `Deleted` hold for all sizes, `Bounds`, `Disjoint`, `Saved` and `Convolution` for those that
  fit (`Fitting`, which `MCImage` assumes of its instances).
- `SessionProofs`, from `MaxConnsAssumption`, `ScriptsAssumption` (a script is a
  sequence of inputs), `ServerStackAssumption` and `ClientStackAssumption` (there is
  room for one call). `Frame` is inductive: the types, which end of a connection is open
  when (`Ends`, `Unused`), that parts of a message wait to be written only by the thread that
  holds the output mutex (`ClientLocks`, `ServerLocks`), how the client's threads follow
  each other (`Threads`), that handlers are nested no deeper than what was handled
  (`Nested`), that readers take no more parts than the first announces unless these are torn (`Measured`), and why the
  client has ended. `Types` and `Stays` follow. Then the streams. That commands are
  handled in order is not inductive: one must know what is on its way.
  `Carries(ps, w, h)` says that `ps` is exactly the parts of the messages of `w` after
  the first `h`. `UpLine` says this of what the server has read, what TCP
  carries and what the mutex holder has still to write, put one after the other; where the
  client has left the connection, of these with some rest that will not come. A connection
  is in that state unless a chunk was `Torn` on an earlier one (`UpLines`).
  `Survives` needs this: torn parts, which may ask for any size, are read only after a connection
  was closed (`TornAfterClose`). `Later` and, for the first connection, `Commands` (the refinement of `Wire`) follow;
  `DownLine`, the same for the other direction, gives `Answers`; the lemmas about
  `Carries` (a message is put in at the end, taken at the front, a part moves on) serve
  both. `Fresh` (for `StatusFresh`) counts: `Replies` says that an answer is begun only for
  a request that was written and is handled or being handled, `Awaited` that
  at most one request is without an answer, and then the flag is down. The first
  needs `UpLines`, as the request that is being handled must be one that was written.

Only model-checked: liveness (`NoStarvation`, `Answered`, `SavedInTheEnd`,
`StatusAnswered`, `ShutdownEnds`, `AllFramesShown`), which is out of the prover's
reach. Every invariant and every other action or temporal property of the passing runs is
stated by a theorem.

Two assumptions on CellCV's constants are what the proofs need and the code
has. `Border > 0`: it passes 5 (`CellCV_spe.c:117`, 151, 166); without a border the
elaboration would leave out the last column of every slice, and the result would have
seams. `Transfer % Alignment = 0`: `MAX_TRANSFER_SIZE` is 16384 and DMA moves units of 16
bytes (`spu/CellCV.c:49`); otherwise the second transfer would start between two units.

## 5. Not modelled, and the plan

Not modelled: masks, statistics, the options of `Main.cpp`, pixel arithmetic,
the text of the command line; in CellCV, PNG files, OpenGL, keys, boxes,
a second window, profiling, and what main does after joining the
acquisition thread, which never ends. `PROJECT.json` gives the reason for each.

1. An abstract delivery service that `ChunkServer` and `Session` implement together.
2. A small module for the statistics.
