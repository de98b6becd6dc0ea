-------------------------------- MODULE Image --------------------------------
(***************************************************************************)
(* The `image' objects of the client library (Image.cpp).  process_image   *)
(* starts a thread that loads the file and cuts it into chunks; the server *)
(* convolves them and sends them back in any order; the client's io thread *)
(* puts them into the output image and saves it when the last one is back. *)
(* A chunk overlaps its neighbours by a border on each side, because the   *)
(* convolution of conv9.c needs the pixels around.                         *)
(*                                                                         *)
(* The content of a pixel is its place: a chunk knows how many of its      *)
(* columns and rows were filled with pixels (the others are zero), an      *)
(* output pixel knows the chunk it came from.                              *)
(*                                                                         *)
(* The command `image' of the client program uses the same object every    *)
(* time, also while chunks of the image before are out.  The command       *)
(* `imagedir' makes an object for every file of a directory; its chunks    *)
(* carry the id of the object, and it is deleted when all are back.        *)
(***************************************************************************)
EXTENDS Integers, Sequences

CONSTANTS
  ChunkWidth, ChunkHeight,  \* CHUNK_WIDTH, CHUNK_HEIGHT
  Border,                   \* CHUNK_BORDER
  U32,                      \* the numbers of a u32_t are 0 .. U32 - 1
  Directory,                \* TRUE for imagedir, FALSE for image
  Commands,                 \* the sequences of image sizes a user may ask for
  MaxCommands               \* the longest of these sequences

ASSUME BorderAssumption ==
  /\ {ChunkWidth, ChunkHeight, Border} \subseteq Nat
  /\ 2 * Border < ChunkWidth
  /\ 2 * Border < ChunkHeight

ASSUME DirectoryAssumption == Directory \in BOOLEAN

ASSUME U32Assumption == U32 \in Nat /\ ChunkWidth < U32 /\ ChunkHeight < U32

(* The calls of process_image, and the object of each call.                *)
Calls == 1 .. MaxCommands
Object(k) == IF Directory THEN k ELSE 1

VARIABLES
  running,  \* the client process runs
  sizes,    \* sizes[k]: the size [w, h] of the image of the k-th call
  started,  \* the number of calls so far
  images,   \* the objects there are: _image_map
  file,     \* file[o]: in_file and out_file of object o: those of a call
  pc,       \* pc[k]: where the load thread of call k is
  count,    \* count[k]: its local variable chunk_count
  cut,      \* cut[k]: the chunks it has cut: its local variable i, and one
            \* more from the send of a chunk to i++
  loaded,   \* loaded[o]: the call whose image is in in_image_, or 0
  left,     \* left[o]: chunks_out_
  out,      \* out[o][p]: the chunk that pixel p of out_image_ is from, or Blank
  flying,   \* the chunks that are out
  lost,     \* the calls of which the server has dropped a chunk
  saved     \* the images written to files

callVars == <<running, sizes, started, file>>
loadVars == <<pc, count, cut>>
objectVars == <<images, loaded, left, out>>
imageVars == <<callVars, loadVars, objectVars, flying, lost, saved>>

Blank == [call |-> 0]

Rect(x, y, w, h) == (x .. x + w - 1) \X (y .. y + h - 1)
Area(size) == Rect(0, 0, size.w, size.h)

(* u32_t subtraction, and min.                                             *)
Sub(a, b) == (a - b) % U32
Smaller(a, b) == IF a < b THEN a ELSE b
-----------------------------------------------------------------------------
(* The grid.  The chunks are Inner apart.                                  *)
Inner(len) == len - 2 * Border

(* ceil(len / inner).  Mutant: floor.                                      *)
PartsFloor(len, inner) == len \div inner
Parts(len, inner) == (len + inner - 1) \div inner

Columns(size) == Parts(size.w, Inner(ChunkWidth))

CalcChunkX(size, i) == Border + Inner(ChunkWidth) * (i % Columns(size))
CalcChunkY(size, i) == Border + Inner(ChunkHeight) * (i \div Columns(size))
CalcChunkCount(size) == Columns(size) * Parts(size.h, Inner(ChunkHeight))

(* Chunk i of the image of call k, made by thread t: its place and how far *)
(* it is filled.  Its id is the object.                                    *)
Chunk(t, k, i) ==
  LET x == CalcChunkX(sizes[k], i)
      y == CalcChunkY(sizes[k], i)
  IN [id |-> Object(t), thread |-> t, call |-> k, number |-> i, x |-> x, y |-> y,
      cols |-> Smaller(Sub(sizes[k].w, x), ChunkWidth),
      rows |-> Smaller(Sub(sizes[k].h, y), ChunkHeight)]

(* The pixels a chunk is filled with: its left upper corner is a border    *)
(* away from its place.  Mutant: it is not.                                *)
OriginAtPlace(x) == x
Origin(x) == x - Border

Source(ch) == Rect(Origin(ch.x), Origin(ch.y), ch.cols, ch.rows)

(* The pixels of an image of a size that a returned chunk is written to.   *)
(* Mutants: its whole inner part is written; its border is written too.    *)
TargetWhole(size, ch) ==
  Rect(ch.x, ch.y, Inner(ChunkWidth), Inner(ChunkHeight))
TargetWithBorder(size, ch) ==
  Rect(ch.x, ch.y,
       Smaller(Sub(size.w, ch.x), ChunkWidth),
       Smaller(Sub(size.h, ch.y), ChunkHeight))
Target(size, ch) ==
  Rect(ch.x, ch.y,
       Smaller(Sub(size.w, ch.x), Inner(ChunkWidth)),
       Smaller(Sub(size.h, ch.y), Inner(ChunkHeight)))

(* The pixels that the convolution of conv9.c takes to pixel p of a chunk: *)
(* those of the 2 * Border + 1 columns and rows from p - Border on that    *)
(* the chunk has been filled with.                                         *)
Window(p) == Rect(p[1] - Border, p[2] - Border, 2 * Border + 1, 2 * Border + 1)

Inputs(ch, p) ==
  LET a == p[1] - ch.x  \* column and row of the window in the chunk
      b == p[2] - ch.y
  IN {<<Origin(ch.x) + u, Origin(ch.y) + v>> :
        u \in (a .. a + 2 * Border) \cap (0 .. ch.cols - 1),
        v \in (b .. b + 2 * Border) \cap (0 .. ch.rows - 1)}

(* The images a user may ask for: no more than MaxCommands, each with a    *)
(* number of chunks that a u32_t can hold.                                 *)
ASSUME CommandsAssumption ==
  /\ MaxCommands \in Nat
  /\ \A s \in Commands :
       /\ s \in Seq([w : 0 .. U32 - 1, h : 0 .. U32 - 1])
       /\ Len(s) <= MaxCommands
       /\ \A k \in DOMAIN s : CalcChunkCount(s[k]) < U32

(* What InBounds needs of an image: the last chunks have at least Border   *)
(* columns and rows of it, so that their places lie in the image.          *)
Fits(size) ==
  \A i \in 0 .. CalcChunkCount(size) - 1 :
    CalcChunkX(size, i) <= size.w /\ CalcChunkY(size, i) <= size.h

Fitting == \A s \in Commands : \A k \in DOMAIN s : Fits(s[k])
-----------------------------------------------------------------------------
Init ==
  /\ running = TRUE
  /\ sizes \in Commands
  /\ started = 0
  /\ images = IF Directory THEN {} ELSE {1}
  /\ file = [o \in Calls |-> 0]
  /\ pc = [k \in Calls |-> "off"]
  /\ count = [k \in Calls |-> 0]
  /\ cut = [k \in Calls |-> 0]
  /\ loaded = [o \in Calls |-> 0]
  /\ left = [o \in Calls |-> 0]
  /\ out = [o \in Calls |-> <<>>]
  /\ flying = {}
  /\ lost = {}
  /\ saved = {}

(* The main thread makes an object or takes the one it has, sets in_file   *)
(* and out_file and calls process_image.                                   *)
ProcessImage ==
  /\ running
  /\ started < Len(sizes)
  /\ started' = started + 1
  /\ images' = images \cup {Object(started + 1)}
  /\ file' = [file EXCEPT ![Object(started + 1)] = started + 1]
  /\ pc' = [pc EXCEPT ![started + 1] = "load"]
  /\ UNCHANGED <<running, sizes, count, cut, loaded, left, out, flying, lost, saved>>

(* load_image up to its loop: the file named by in_file() now.  Mutant:    *)
(* chunks_out_ is the number of the last chunk.                            *)
ChunksOutOneLess(n) == n - 1
ChunksOut(n) == n

LoadImage(k) ==
  LET o == Object(k)
      n == CalcChunkCount(sizes[file[o]])
  IN /\ pc[k] = "load"
     /\ pc' = [pc EXCEPT ![k] = "send"]
     /\ count' = [count EXCEPT ![k] = n]
     /\ left' = [left EXCEPT ![o] = ChunksOut(n)]
     /\ loaded' = [loaded EXCEPT ![o] = file[o]]
     /\ out' = [out EXCEPT ![o] = [p \in Area(sizes[file[o]]) |-> Blank]]
     /\ UNCHANGED <<callVars, images, cut, flying, lost, saved>>

LoadFails(k) ==
  /\ pc[k] = "load"
  /\ pc' = [pc EXCEPT ![k] = "done"]
  /\ UNCHANGED <<callVars, count, cut, objectVars, flying, lost, saved>>

(* One round of the loop: a chunk of the image that is loaded now goes out *)
(* through the signal of the image.  It may be back before the send has    *)
(* returned.  Mutant: the loop makes a round too many.                     *)
GoesOnOneMore(k) == cut[k] <= count[k]
GoesOn(k) == cut[k] < count[k]

Generate(k) ==
  /\ pc[k] = "send"
  /\ GoesOn(k)
  /\ pc' = [pc EXCEPT ![k] = "return"]
  /\ cut' = [cut EXCEPT ![k] = @ + 1]
  /\ flying' = flying \cup {Chunk(k, loaded[Object(k)], cut[k])}
  /\ UNCHANGED <<callVars, count, objectVars, lost, saved>>

(* The signal returns, the chunk is deleted, and i incremented.  The image *)
(* with its signal may have been deleted in the meantime: then the thread  *)
(* goes on all the same, or takes the process down.                        *)
Return(k) ==
  /\ pc[k] = "return"
  /\ pc' = [pc EXCEPT ![k] = "send"]
  /\ UNCHANGED <<callVars, count, cut, objectVars, flying, lost, saved>>

ReturnCrashes(k) ==
  /\ pc[k] = "return"
  /\ Object(k) \notin images
  /\ running' = FALSE
  /\ UNCHANGED <<sizes, started, file, loadVars, objectVars, flying, lost, saved>>

LoopEnds(k) ==
  /\ pc[k] = "send"
  /\ ~GoesOn(k)
  /\ pc' = [pc EXCEPT ![k] = "done"]
  /\ UNCHANGED <<callVars, count, cut, objectVars, flying, lost, saved>>

Load(k) ==
  /\ running
  /\ \/ LoadImage(k) \/ LoadFails(k)
     \/ Generate(k) \/ Return(k) \/ ReturnCrashes(k) \/ LoopEnds(k)

(* image::chunk_received, in the io thread of the client.  The image is    *)
(* saved to the file named by out_file() now.                              *)
Paste(o, ch) ==
  /\ out' = [out EXCEPT ![o] =
       [p \in DOMAIN @ |-> IF p \in Target(sizes[loaded[o]], ch) THEN ch ELSE @[p]]]
  /\ left' = [left EXCEPT ![o] = Sub(@, 1)]
  /\ saved' = IF left'[o] = 0
              THEN saved \cup {[call |-> file[o], pixels |-> out'[o]]}
              ELSE saved

(* image_directory::chunk_received, or none for the command `image'.  A    *)
(* chunk of an unknown id is ignored; an image that is complete is deleted.*)
ChunkReceived(ch) ==
  /\ running
  /\ ch \in flying
  /\ flying' = flying \ {ch}
  /\ IF ch.id \in images
     THEN Paste(ch.id, ch)
     ELSE UNCHANGED <<left, out, saved>>
  /\ images' = IF Directory /\ left'[ch.id] = 0 THEN images \ {ch.id} ELSE images
  /\ UNCHANGED <<callVars, loadVars, loaded, lost>>

(* The server has no slot for the chunk and drops it.                      *)
Lose(ch) ==
  /\ ch \in flying
  /\ flying' = flying \ {ch}
  /\ lost' = lost \cup {ch.call}
  /\ UNCHANGED <<callVars, loadVars, objectVars, saved>>

Next ==
  \/ ProcessImage
  \/ \E k \in Calls : Load(k)
  \/ \E ch \in flying : ChunkReceived(ch) \/ Lose(ch)

Spec == Init /\ [][Next]_imageVars

(* The threads run.  The server may be slow, but it answers or drops.      *)
Fairness ==
  /\ \A k \in Calls : WF_imageVars(Load(k))
  /\ WF_imageVars(\E ch \in flying : ChunkReceived(ch) \/ Lose(ch))

FairSpec == Spec /\ Fairness
-----------------------------------------------------------------------------
TypeOK ==
  /\ started \in 0 .. Len(sizes)
  /\ pc \in [Calls -> {"off", "load", "send", "return", "done"}]
  /\ \A k \in Calls : cut[k] \in 0 .. count[k]
  /\ images \subseteq {Object(k) : k \in Calls}
  /\ \A o \in Calls : /\ file[o] \in 0 .. started
                      /\ loaded[o] \in 0 .. started
                      /\ left[o] \in 0 .. U32 - 1
  /\ \A ch \in flying : /\ ch.call \in 1 .. Len(sizes)
                        /\ ch.number \in 0 .. CalcChunkCount(sizes[ch.call]) - 1

(* The pixels whose window lies in the image.                              *)
Interior(size) ==
  Rect(Border, Border, size.w - 2 * Border, size.h - 2 * Border)

(* Chunks are read from and written to the inside of the image only        *)
(* (Image.cpp:53-62, 85-93): subimage_view does not check.  It is not so   *)
(* for an image that leaves fewer than Border columns or rows to its last  *)
(* chunks: there Sub wraps round and the whole chunk width is taken.       *)
InBounds ==
  \A ch \in flying :
    /\ Source(ch) \subseteq Area(sizes[ch.call])
    /\ Target(sizes[ch.call], ch) \subseteq Area(sizes[ch.call])

(* The chunks of an image that are out cover disjoint parts of it, so      *)
(* their order does not matter, and none is put over one that is back.     *)
NoOverlap ==
  \A ch \in flying :
    /\ \A p \in Target(sizes[ch.call], ch) \cap DOMAIN out[ch.id] :
         out[ch.id][p] = Blank
    /\ \A d \in flying \ {ch} : d.id = ch.id =>
         Target(sizes[ch.call], ch) \cap Target(sizes[d.call], d) = {}

(* A saved image is complete: all pixels but the border on the left and on *)
(* the top have come back, and from the image that was asked for           *)
(* (Image.cpp:106).                                                        *)
Covered(size) == Rect(Border, Border, size.w - Border, size.h - Border)

SavedComplete ==
  \A r \in saved : \A p \in Covered(sizes[r.call]) :
    p \in DOMAIN r.pixels /\ r.pixels[p].call = r.call

(* A pixel of a saved image is the convolution of its window, as far as    *)
(* the window ends a border before the right and lower edge of the image:  *)
(* the overlap of the chunks makes up for the pixels that each lacks.      *)
ConvolvedInside ==
  \A r \in saved : \A p \in Interior(sizes[r.call]) :
    Window(p) \subseteq Rect(0, 0, sizes[r.call].w - Border,
                                   sizes[r.call].h - Border)
      => Inputs(r.pixels[p], p) = Window(p)

(* The same for all windows that lie in the image: the program convolves   *)
(* the image with the 9x9 mask (conv9.c:2).                                *)
Convolved ==
  \A r \in saved : \A p \in Interior(sizes[r.call]) :
    Inputs(r.pixels[p], p) = Window(p)

(* An image is deleted when its count reaches zero, in the io thread, and  *)
(* no chunk of it is out or still to be cut then: its load thread takes no *)
(* more pixels from it, and every chunk that comes back finds its image    *)
(* (Image.cpp:206-217).  That the load thread has left the image is not    *)
(* said and not so (ReturnCrashes).                                        *)
DeletedWhenAllBack ==
  \A k \in Calls : pc[k] # "off" /\ Object(k) \notin images =>
    /\ cut[k] = count[k]
    /\ \A ch \in flying : ch.thread # k

(* An image that is being sent is saved in the end if the server drops     *)
(* none of its chunks, in whatever order they come back (Image.cpp:106),   *)
(* and the load thread of another image does not take the client down.     *)
SavedInTheEnd ==
  \A k \in Calls :
    pc[k] = "send" ~> (k \in lost \/ ~running \/ \E r \in saved : r.call = k)
=============================================================================
