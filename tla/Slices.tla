------------------------------- MODULE Slices -------------------------------
(***************************************************************************)
(* How CellCV cuts an image into vertical slices with a border, one for    *)
(* each SPU, and puts them together again (subimage.c).  All rows of an    *)
(* image are treated alike: an image is one row of pixels here, and a byte *)
(* of a slice is one pixel.                                                *)
(*                                                                         *)
(* Not modelled: heights, and the boxes that are drawn into the result.    *)
(***************************************************************************)
EXTENDS Integers, Sequences, Functions, FiniteSetsExt

CONSTANTS
  Threads,   \* SPE_THREADS: how many slices there are
  Border,    \* how far a slice reaches into its neighbours, 5 in the code
  Alignment  \* what the size of a transfer is a multiple of, 16 in the code

ASSUME SlicesAssumption ==
  /\ Threads \in Nat /\ Threads > 1
  /\ Border \in Nat \ {0}
  /\ Alignment \in Nat \ {0}

SliceIds == 0 .. Threads - 1

(* A pixel is the sequence of what it was computed from: places in frames, *)
(* and what is next to an image; of nothing if nobody has written it.      *)
Pixel(frame, x) == <<[frame |-> frame, x |-> x]>>
Differ(p, q) == p \o q
Outside == Pixel(0, -1)
Unset == <<>>

GetPixel(img, x) == IF x \in DOMAIN img THEN img[x] ELSE Outside

(* Where each slice starts: the widths of those before it, added up.       *)
Starts(widths) ==
  LET xstart[n \in SliceIds] == IF n = 0 THEN 0 ELSE xstart[n - 1] + widths[n - 1]
  IN xstart

(* The first slices are a column wider if the width cannot be divided.     *)
(* Mutant: they are not.                                                   *)
ColumnsFloor(width, n) == width \div Threads
Columns(width, n) ==
  width \div Threads + (IF width % Threads > n THEN 1 ELSE 0)

(* The first and the last slice have one neighbour.                        *)
Borders(n) == IF n \in {0, Threads - 1} THEN Border ELSE 2 * Border
LeftBorder(n) == IF n = 0 THEN 0 ELSE Border

(* next16multiple.  Mutant: the size is left as it is.                     *)
NextMultipleNone(size) == size
NextMultiple(size) == ((size + Alignment - 1) \div Alignment) * Alignment

(* create_subimage: the slice's struct, and its data.                      *)
SliceStruct(width, n, block) ==
  LET w == Columns(width, n) + Borders(n)
  IN [data |-> block, w |-> w, bytesAllocated |-> NextMultiple(w)]

SliceData(img, width, n) ==
  LET s == SliceStruct(width, n, 0)
      xstart == Starts([k \in SliceIds |-> Columns(width, k)])[n]
  IN [j \in 0 .. s.bytesAllocated - 1 |->
        IF j < s.w THEN GetPixel(img, xstart + j - LeftBorder(n)) ELSE Unset]

(* join_subimages: where slice n goes to, and the whole.                   *)
RealWidth(s, n) == s[n].w - Borders(n)
JoinStart(s, n) == Starts([k \in SliceIds |-> RealWidth(s, k)])[n]

Join(s, data, img) ==
  [x \in DOMAIN img |->
     LET ns == {n \in SliceIds : x - JoinStart(s, n) \in 0 .. RealWidth(s, n) - 1}
     IN IF ns = {} THEN img[x]
        ELSE LET n == Max(ns)
             IN GetPixel(data[n], x - JoinStart(s, n) + LeftBorder(n))]

(* elaborate_LSimage: each pixel but the last of the row becomes its       *)
(* difference to the next, from left to right in place.                    *)
Elaborate(ls, w) ==
  [j \in DOMAIN ls |-> IF j < w - 1 THEN Differ(ls[j], ls[j + 1]) ELSE ls[j]]

(* What the whole is to be: the same, done to the whole image.             *)
Result(img) ==
  LET last == Max(DOMAIN img) IN
    [x \in DOMAIN img |-> IF x < last THEN Differ(img[x], img[x + 1]) ELSE img[x]]
=============================================================================
