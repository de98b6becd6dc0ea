----------------------------- MODULE ImageProofs -----------------------------
(***************************************************************************)
(* Proofs about the images of a directory (the command `imagedir'), for    *)
(* all sizes of chunks, borders and images and every number of images: the *)
(* grid that an image is cut into, and what comes back of it.              *)
(***************************************************************************)
EXTENDS Image, FiniteSetTheorems, TLAPS

(* Division with a rest.                                                   *)
LEMMA DivMod ==
  ASSUME NEW n \in Nat, NEW d \in Nat \ {0}
  PROVE  /\ n \div d \in Nat /\ n % d \in 0 .. d - 1
         /\ n = d * (n \div d) + (n % d)
OBVIOUS

(* More parts are not shorter.                                             *)
LEMMA Monotone ==
  ASSUME NEW d \in Nat, NEW a \in Nat, NEW b \in Nat, a <= b
  PROVE  d * a <= d * b
OBVIOUS

(* One part more is longer by a part.                                      *)
LEMMA Distributes ==
  ASSUME NEW d \in Nat, NEW a \in Nat
  PROVE  d * (a + 1) = d * a + d
OBVIOUS

(* What has the same quotient lies within the divisor.                     *)
LEMMA DivModUnique ==
  ASSUME NEW d \in Nat \ {0}, NEW q \in Nat, NEW r \in 0 .. d - 1
  PROVE  (d * q + r) \div d = q /\ (d * q + r) % d = r
<1> DEFINE n == d * q + r
           a == n \div d
<1>1. n \in Nat /\ d * q \in Nat
  OBVIOUS
<1>2. a \in Nat /\ n % d \in 0 .. d - 1 /\ n = d * a + (n % d) /\ n = d * q + r
  BY <1>1, DivMod
<1> HIDE DEF n, a
<1>3. d * a \in Nat /\ d * q \in Nat /\ n \in Nat
  BY <1>1, <1>2
<1>4. ASSUME a < q PROVE FALSE
  <2>1. d * (a + 1) <= d * q
    BY <1>2, <1>4, Monotone
  <2>2. d * (a + 1) = d * a + d
    BY <1>2, Distributes
  <2>3. QED
    BY <1>2, <1>3, <2>1, <2>2
<1>5. ASSUME q < a PROVE FALSE
  <2>1. d * (q + 1) <= d * a
    BY <1>2, <1>5, Monotone
  <2>2. d * (q + 1) = d * q + d
    BY Distributes
  <2>3. QED
    BY <1>2, <1>3, <2>1, <2>2
<1>6. a = q
  BY <1>2, <1>4, <1>5
<1>7. n % d = r
  BY <1>2, <1>3, <1>6
<1>8. QED
  BY <1>6, <1>7 DEF n, a

(* There are enough parts, and not more than enough.                       *)
LEMMA PartsEnough ==
  ASSUME NEW len \in Nat, NEW d \in Nat \ {0}, NEW x \in Nat
  PROVE  /\ Parts(len, d) \in Nat
         /\ x < len => x \div d < Parts(len, d)
<1> DEFINE m == len + d - 1
           p == Parts(len, d)
           q == x \div d
<1>0. m \in Nat /\ p = m \div d
  BY DEF Parts
<1> HIDE DEF m, p
<1>1. p \in Nat /\ m % d \in 0 .. d - 1 /\ m = d * p + (m % d)
  BY <1>0, DivMod
<1>2. q \in Nat /\ x % d \in 0 .. d - 1 /\ x = d * q + (x % d)
  BY DivMod
<1>3. ASSUME x < len, p <= q PROVE FALSE
  <2> HIDE DEF p, q
  <2>1. d * p <= d * q
    BY <1>1, <1>2, <1>3, Monotone
  <2>2. d * p \in Nat /\ d * q \in Nat
    BY <1>1, <1>2
  <2>3. QED
    BY <1>1, <1>2, <1>3, <2>1, <2>2 DEF m
<1>4. QED
  BY <1>1, <1>2, <1>3 DEF p

(* Cells of one width that share a place are the same.                     *)
LEMMA SameCell ==
  ASSUME NEW d \in Nat \ {0}, NEW q \in Nat, NEW s \in Nat, NEW a \in Nat,
         d * q <= a, a < d * q + d, d * s <= a, a < d * s + d
  PROVE  q = s
<1>1. d * q \in Nat /\ d * s \in Nat
  OBVIOUS
<1>2. ASSUME q < s PROVE FALSE
  <2>1. d * (q + 1) <= d * s /\ d * (q + 1) = d * q + d
    BY <1>2, Monotone, Distributes
  <2>2. QED
    BY <1>1, <2>1
<1>3. ASSUME s < q PROVE FALSE
  <2>1. d * (s + 1) <= d * q /\ d * (s + 1) = d * s + d
    BY <1>3, Monotone, Distributes
  <2>2. QED
    BY <1>1, <2>1
<1>4. QED
  BY <1>2, <1>3
-----------------------------------------------------------------------------
(* The grid.                                                               *)
Sizes == [w : 0 .. U32 - 1, h : 0 .. U32 - 1]
Rows(size) == Parts(size.h, Inner(ChunkHeight))

(* The parts of the grid are not empty.                                    *)
LEMMA Constants ==
  /\ Inner(ChunkWidth) \in Nat \ {0} /\ Inner(ChunkHeight) \in Nat \ {0}
  /\ Border \in Nat /\ ChunkWidth \in Nat /\ ChunkHeight \in Nat /\ U32 \in Nat
  /\ ChunkWidth = Inner(ChunkWidth) + 2 * Border
  /\ ChunkHeight = Inner(ChunkHeight) + 2 * Border
BY BorderAssumption, U32Assumption DEF Inner

(* The grid of an image.                                                   *)
LEMMA GridSize ==
  ASSUME NEW size \in Sizes
  PROVE  /\ size.w \in Nat /\ size.h \in Nat /\ size.w < U32 /\ size.h < U32
         /\ Columns(size) \in Nat /\ Rows(size) \in Nat
         /\ CalcChunkCount(size) = Columns(size) * Rows(size)
         /\ CalcChunkCount(size) \in Nat
<1>1. size.w \in Nat /\ size.h \in Nat /\ size.w < U32 /\ size.h < U32
  BY Constants DEF Sizes
<1>2. Columns(size) \in Nat /\ Rows(size) \in Nat
  BY <1>1, Constants, PartsEnough DEF Columns, Rows
<1>3. CalcChunkCount(size) = Columns(size) * Rows(size)
  BY DEF CalcChunkCount, Rows
<1>4. QED
  BY <1>1, <1>2, <1>3

(* The place of a chunk in the grid.                                       *)
LEMMA GridPlace ==
  ASSUME NEW size \in Sizes, NEW i \in 0 .. CalcChunkCount(size) - 1
  PROVE  \E c \in 0 .. Columns(size) - 1, r \in 0 .. Rows(size) - 1 :
           /\ i = Columns(size) * r + c
           /\ CalcChunkX(size, i) = Border + Inner(ChunkWidth) * c
           /\ CalcChunkY(size, i) = Border + Inner(ChunkHeight) * r
<1> DEFINE m == Columns(size)
           n == Rows(size)
           c == i % m
           r == i \div m
<1>1. m \in Nat /\ n \in Nat /\ m * n \in Nat /\ i \in Nat /\ i < m * n
  BY GridSize
<1>2. CalcChunkX(size, i) = Border + Inner(ChunkWidth) * c
  BY DEF CalcChunkX
<1>3. CalcChunkY(size, i) = Border + Inner(ChunkHeight) * r
  BY DEF CalcChunkY
<1> HIDE DEF m, n
<1>4. m \in Nat \ {0}
  BY <1>1
<1>5. r \in Nat /\ c \in 0 .. m - 1 /\ i = m * r + c
  BY <1>1, <1>4, DivMod
<1> HIDE DEF c, r
<1>6. r < n
  <2> SUFFICES ASSUME n <= r PROVE FALSE
    BY <1>1, <1>5
  <2>1. m * n <= m * r
    BY <1>1, <1>4, <1>5, Monotone
  <2>2. m * r \in Nat
    BY <1>1, <1>5
  <2>3. QED
    BY <1>1, <1>5, <2>1, <2>2
<1>7. r \in 0 .. n - 1
  BY <1>1, <1>5, <1>6
<1>8. QED
  BY <1>2, <1>3, <1>5, <1>7 DEF m, n

(* Every place of the grid has a chunk.                                    *)
LEMMA GridNumber ==
  ASSUME NEW size \in Sizes,
         NEW c \in 0 .. Columns(size) - 1, NEW r \in 0 .. Rows(size) - 1
  PROVE  \E i \in 0 .. CalcChunkCount(size) - 1 :
           /\ CalcChunkX(size, i) = Border + Inner(ChunkWidth) * c
           /\ CalcChunkY(size, i) = Border + Inner(ChunkHeight) * r
<1> DEFINE m == Columns(size)
           n == Rows(size)
           i == m * r + c
<1>1. m \in Nat \ {0} /\ n \in Nat /\ c \in 0 .. m - 1 /\ r \in Nat /\ r < n
  BY GridSize
<1>2. CalcChunkX(size, i) = Border + Inner(ChunkWidth) * (i % m)
  BY DEF CalcChunkX
<1>3. CalcChunkY(size, i) = Border + Inner(ChunkHeight) * (i \div m)
  BY DEF CalcChunkY
<1>4. CalcChunkCount(size) = m * n
  BY GridSize
<1> HIDE DEF m, n
<1>5. i % m = c /\ i \div m = r
  BY <1>1, DivModUnique
<1>6. m * (r + 1) <= m * n /\ m * (r + 1) = m * r + m
  BY <1>1, Monotone, Distributes
<1>7. m * r \in Nat /\ m * n \in Nat
  BY <1>1
<1>8. i \in 0 .. CalcChunkCount(size) - 1
  BY <1>1, <1>4, <1>6, <1>7
<1> HIDE DEF i
<1>9. QED
  BY <1>2, <1>3, <1>5, <1>8

(* A chunk, as the image object of its call makes it.                      *)
Part(k, i) == Chunk(k, k, i)

(* Its fields.                                                             *)
LEMMA PartFields ==
  ASSUME NEW k, NEW i
  PROVE  /\ Part(k, i).id = Object(k) /\ Part(k, i).thread = k /\ Part(k, i).call = k
         /\ Part(k, i).number = i
         /\ Part(k, i).x = CalcChunkX(sizes[k], i) /\ Part(k, i).y = CalcChunkY(sizes[k], i)
         /\ Part(k, i).cols = Smaller(Sub(sizes[k].w, Part(k, i).x), ChunkWidth)
         /\ Part(k, i).rows = Smaller(Sub(sizes[k].h, Part(k, i).y), ChunkHeight)
BY DEF Part, Chunk

(* Subtraction does not wrap round where the place is in the image.        *)
LEMMA NoWrap ==
  ASSUME NEW a \in Nat, NEW b \in Nat, a < U32, b <= a
  PROVE  Sub(a, b) = a - b
BY Constants DEF Sub

(* Where the chunk is, in an image that it fits.                           *)
LEMMA PartPlace ==
  ASSUME NEW k, sizes[k] \in Sizes, Fits(sizes[k]),
         NEW i \in 0 .. CalcChunkCount(sizes[k]) - 1
  PROVE  /\ Part(k, i).x \in Nat /\ Border <= Part(k, i).x /\ Part(k, i).x <= sizes[k].w
         /\ Part(k, i).y \in Nat /\ Border <= Part(k, i).y /\ Part(k, i).y <= sizes[k].h
         /\ Sub(sizes[k].w, Part(k, i).x) = sizes[k].w - Part(k, i).x
         /\ Sub(sizes[k].h, Part(k, i).y) = sizes[k].h - Part(k, i).y
<1>1. PICK c \in 0 .. Columns(sizes[k]) - 1, r \in 0 .. Rows(sizes[k]) - 1 :
        /\ CalcChunkX(sizes[k], i) = Border + Inner(ChunkWidth) * c
        /\ CalcChunkY(sizes[k], i) = Border + Inner(ChunkHeight) * r
  BY GridPlace
<1>2. c \in Nat /\ r \in Nat
  BY GridSize
<1>3. Inner(ChunkWidth) * c \in Nat /\ Inner(ChunkHeight) * r \in Nat
  BY <1>2, Constants
<1>4. /\ Part(k, i).x \in Nat /\ Border <= Part(k, i).x
      /\ Part(k, i).y \in Nat /\ Border <= Part(k, i).y
  BY <1>1, <1>3, Constants, PartFields
<1>5. Part(k, i).x <= sizes[k].w /\ Part(k, i).y <= sizes[k].h
  BY PartFields DEF Fits
<1>6. QED
  BY <1>4, <1>5, GridSize, NoWrap
-----------------------------------------------------------------------------
(* Rectangles of pixels.                                                   *)
LEMMA InRect ==
  ASSUME NEW x \in Int, NEW y \in Int, NEW w \in Int, NEW h \in Int, NEW p
  PROVE  p \in Rect(x, y, w, h) <=>
           \E a, b \in Int : /\ p = <<a, b>>
                             /\ x <= a /\ a < x + w /\ y <= b /\ b < y + h
<1>1. ASSUME p \in Rect(x, y, w, h)
      PROVE  \E a, b \in Int : /\ p = <<a, b>>
                               /\ x <= a /\ a < x + w /\ y <= b /\ b < y + h
  <2>1. PICK a \in x .. x + w - 1, b \in y .. y + h - 1 : p = <<a, b>>
    BY <1>1 DEF Rect
  <2>2. QED
    BY <2>1
<1>2. ASSUME NEW a \in Int, NEW b \in Int, p = <<a, b>>,
             x <= a, a < x + w, y <= b, b < y + h
      PROVE  p \in Rect(x, y, w, h)
  BY <1>2 DEF Rect
<1>3. QED
  BY <1>1, <1>2

(* The pixels that a chunk brings back.                                    *)
LEMMA InTarget ==
  ASSUME NEW k, sizes[k] \in Sizes, Fits(sizes[k]),
         NEW i \in 0 .. CalcChunkCount(sizes[k]) - 1, NEW p
  PROVE  p \in Target(sizes[k], Part(k, i)) <=>
           \E a, b \in Int :
             /\ p = <<a, b>> /\ a < sizes[k].w /\ b < sizes[k].h
             /\ Part(k, i).x <= a /\ a < Part(k, i).x + Inner(ChunkWidth)
             /\ Part(k, i).y <= b /\ b < Part(k, i).y + Inner(ChunkHeight)
<1> DEFINE x == Part(k, i).x
           y == Part(k, i).y
           w == Smaller(Sub(sizes[k].w, x), Inner(ChunkWidth))
           h == Smaller(Sub(sizes[k].h, y), Inner(ChunkHeight))
<1>1. /\ x \in Nat /\ y \in Nat /\ x <= sizes[k].w /\ y <= sizes[k].h
      /\ Sub(sizes[k].w, x) = sizes[k].w - x /\ Sub(sizes[k].h, y) = sizes[k].h - y
  BY PartPlace
<1>2. /\ sizes[k].w \in Nat /\ sizes[k].h \in Nat
      /\ Inner(ChunkWidth) \in Nat /\ Inner(ChunkHeight) \in Nat
  BY GridSize, Constants
<1>3. Target(sizes[k], Part(k, i)) = Rect(x, y, w, h)
  BY DEF Target
<1>4. /\ w \in Int /\ \A a \in Int : a < x + w <=> a < sizes[k].w /\ a < x + Inner(ChunkWidth)
      /\ h \in Int /\ \A b \in Int : b < y + h <=> b < sizes[k].h /\ b < y + Inner(ChunkHeight)
  BY <1>1, <1>2 DEF Smaller
<1> HIDE DEF x, y, w, h
<1>5. p \in Rect(x, y, w, h) <=>
           \E a, b \in Int : /\ p = <<a, b>>
                             /\ x <= a /\ a < x + w /\ y <= b /\ b < y + h
  BY <1>1, <1>4, InRect
<1>6. p \in Rect(x, y, w, h) <=>
           \E a, b \in Int : /\ p = <<a, b>> /\ a < sizes[k].w /\ b < sizes[k].h
                             /\ x <= a /\ a < x + Inner(ChunkWidth)
                             /\ y <= b /\ b < y + Inner(ChunkHeight)
  BY <1>4, <1>5
<1>7. QED
  BY <1>3, <1>6 DEF x, y

(* They lie in the image.                                                  *)
LEMMA TargetInside ==
  ASSUME NEW k, sizes[k] \in Sizes, Fits(sizes[k]),
         NEW i \in 0 .. CalcChunkCount(sizes[k]) - 1
  PROVE  Target(sizes[k], Part(k, i)) \subseteq Area(sizes[k])
<1> SUFFICES ASSUME NEW p \in Target(sizes[k], Part(k, i)) PROVE p \in Area(sizes[k])
  OBVIOUS
<1>1. PICK a, b \in Int : /\ p = <<a, b>> /\ a < sizes[k].w /\ b < sizes[k].h
                          /\ Part(k, i).x <= a /\ Part(k, i).y <= b
  BY InTarget
<1>2. Part(k, i).x \in Nat /\ Part(k, i).y \in Nat
  BY PartPlace
<1>3. 0 <= a /\ 0 <= b /\ sizes[k].w \in Nat /\ sizes[k].h \in Nat
  BY <1>1, <1>2, GridSize
<1>4. QED
  BY <1>1, <1>3, InRect DEF Area

(* So do the pixels that it is cut from.                                   *)
LEMMA SourceInside ==
  ASSUME NEW k, sizes[k] \in Sizes, Fits(sizes[k]),
         NEW i \in 0 .. CalcChunkCount(sizes[k]) - 1
  PROVE  Source(Part(k, i)) \subseteq Area(sizes[k])
<1> SUFFICES ASSUME NEW p \in Source(Part(k, i)) PROVE p \in Area(sizes[k])
  OBVIOUS
<1> DEFINE x == Part(k, i).x
           y == Part(k, i).y
<1>1. /\ x \in Nat /\ y \in Nat /\ Border <= x /\ Border <= y
      /\ x <= sizes[k].w /\ y <= sizes[k].h
      /\ Sub(sizes[k].w, x) = sizes[k].w - x /\ Sub(sizes[k].h, y) = sizes[k].h - y
  BY PartPlace
<1>2. /\ sizes[k].w \in Nat /\ sizes[k].h \in Nat
      /\ Border \in Nat /\ ChunkWidth \in Nat /\ ChunkHeight \in Nat
  BY GridSize, Constants
<1>3. /\ Part(k, i).cols \in Int /\ Part(k, i).cols <= sizes[k].w - x
      /\ Part(k, i).rows \in Int /\ Part(k, i).rows <= sizes[k].h - y
  BY <1>1, <1>2, PartFields DEF Smaller
<1> DEFINE u == Part(k, i).cols
           v == Part(k, i).rows
<1>4. Source(Part(k, i)) = Rect(x - Border, y - Border, u, v)
  BY DEF Source, Origin
<1> HIDE DEF x, y, u, v
<1>5. /\ x - Border \in Int /\ y - Border \in Int /\ u \in Int /\ v \in Int
  BY <1>1, <1>2, <1>3 DEF u, v
<1>6. PICK a, b \in Int : /\ p = <<a, b>>
                          /\ x - Border <= a /\ a < (x - Border) + u
                          /\ y - Border <= b /\ b < (y - Border) + v
  BY <1>4, <1>5, InRect
<1>7. 0 <= a /\ a < sizes[k].w /\ 0 <= b /\ b < sizes[k].h
  BY <1>1, <1>2, <1>3, <1>6 DEF u, v
<1>8. QED
  BY <1>2, <1>6, <1>7, InRect DEF Area

(* The chunks of an image bring back disjoint parts of it ...              *)
LEMMA TargetsDisjoint ==
  ASSUME NEW k, sizes[k] \in Sizes, Fits(sizes[k]),
         NEW i \in 0 .. CalcChunkCount(sizes[k]) - 1,
         NEW j \in 0 .. CalcChunkCount(sizes[k]) - 1,
         NEW p \in Target(sizes[k], Part(k, i)), p \in Target(sizes[k], Part(k, j))
  PROVE  i = j
<1>1. PICK c \in 0 .. Columns(sizes[k]) - 1, r \in 0 .. Rows(sizes[k]) - 1 :
        /\ i = Columns(sizes[k]) * r + c
        /\ Part(k, i).x = Border + Inner(ChunkWidth) * c
        /\ Part(k, i).y = Border + Inner(ChunkHeight) * r
  BY GridPlace, PartFields
<1>2. PICK d \in 0 .. Columns(sizes[k]) - 1, s \in 0 .. Rows(sizes[k]) - 1 :
        /\ j = Columns(sizes[k]) * s + d
        /\ Part(k, j).x = Border + Inner(ChunkWidth) * d
        /\ Part(k, j).y = Border + Inner(ChunkHeight) * s
  BY GridPlace, PartFields
<1>3. c \in Nat /\ d \in Nat /\ r \in Nat /\ s \in Nat
  BY GridSize
<1>4. PICK a, b \in Int :
        /\ p = <<a, b>>
        /\ Part(k, i).x <= a /\ a < Part(k, i).x + Inner(ChunkWidth)
        /\ Part(k, i).y <= b /\ b < Part(k, i).y + Inner(ChunkHeight)
  BY InTarget
<1>5. PICK e, f \in Int :
        /\ p = <<e, f>>
        /\ Part(k, j).x <= e /\ e < Part(k, j).x + Inner(ChunkWidth)
        /\ Part(k, j).y <= f /\ f < Part(k, j).y + Inner(ChunkHeight)
  BY InTarget
<1>6. e = a /\ f = b
  BY <1>4, <1>5
<1>7. /\ Inner(ChunkWidth) * c \in Nat /\ Inner(ChunkWidth) * d \in Nat
      /\ Inner(ChunkHeight) * r \in Nat /\ Inner(ChunkHeight) * s \in Nat
  BY <1>3, Constants
<1>8. c = d
  <2>1. /\ a - Border \in Nat
        /\ Inner(ChunkWidth) * c <= a - Border
        /\ a - Border < Inner(ChunkWidth) * c + Inner(ChunkWidth)
        /\ Inner(ChunkWidth) * d <= a - Border
        /\ a - Border < Inner(ChunkWidth) * d + Inner(ChunkWidth)
    BY <1>1, <1>2, <1>4, <1>5, <1>6, <1>7, Constants
  <2>2. QED
    BY <1>3, <2>1, Constants, SameCell
<1>9. r = s
  <2>1. /\ b - Border \in Nat
        /\ Inner(ChunkHeight) * r <= b - Border
        /\ b - Border < Inner(ChunkHeight) * r + Inner(ChunkHeight)
        /\ Inner(ChunkHeight) * s <= b - Border
        /\ b - Border < Inner(ChunkHeight) * s + Inner(ChunkHeight)
    BY <1>1, <1>2, <1>4, <1>5, <1>6, <1>7, Constants
  <2>2. QED
    BY <1>3, <2>1, Constants, SameCell
<1>10. QED
  BY <1>1, <1>2, <1>8, <1>9

(* ... and together all of it but the border on the left and on the top.   *)
LEMMA TargetsCover ==
  ASSUME NEW k, sizes[k] \in Sizes, Fits(sizes[k]), NEW p \in Covered(sizes[k])
  PROVE  \E i \in 0 .. CalcChunkCount(sizes[k]) - 1 : p \in Target(sizes[k], Part(k, i))
<1>1. /\ sizes[k].w \in Nat /\ sizes[k].h \in Nat /\ Border \in Nat
      /\ Inner(ChunkWidth) \in Nat \ {0} /\ Inner(ChunkHeight) \in Nat \ {0}
  BY GridSize, Constants
<1>2. PICK a, b \in Int : /\ p = <<a, b>>
                          /\ Border <= a /\ a < Border + (sizes[k].w - Border)
                          /\ Border <= b /\ b < Border + (sizes[k].h - Border)
  <2> DEFINE w == sizes[k].w - Border
             h == sizes[k].h - Border
  <2>1. w \in Int /\ h \in Int /\ Border \in Int
    BY <1>1
  <2>2. p \in Rect(Border, Border, w, h)
    BY DEF Covered
  <2> HIDE DEF w, h
  <2>3. \E a, b \in Int : /\ p = <<a, b>> /\ Border <= a /\ a < Border + w
                         /\ Border <= b /\ b < Border + h
    BY <2>1, <2>2, InRect
  <2>4. QED
    BY <2>3 DEF w, h
<1> DEFINE u == a - Border
           v == b - Border
           c == u \div Inner(ChunkWidth)
           r == v \div Inner(ChunkHeight)
<1>3. /\ u \in Nat /\ v \in Nat /\ u < sizes[k].w /\ v < sizes[k].h
      /\ a < sizes[k].w /\ b < sizes[k].h
  BY <1>1, <1>2
<1>4. a = Border + u /\ b = Border + v
  BY <1>1, <1>2
<1> HIDE DEF u, v
<1>5. /\ c \in Nat /\ u % Inner(ChunkWidth) \in 0 .. Inner(ChunkWidth) - 1
      /\ u = Inner(ChunkWidth) * c + (u % Inner(ChunkWidth))
  BY <1>1, <1>3, DivMod
<1>6. /\ r \in Nat /\ v % Inner(ChunkHeight) \in 0 .. Inner(ChunkHeight) - 1
      /\ v = Inner(ChunkHeight) * r + (v % Inner(ChunkHeight))
  BY <1>1, <1>3, DivMod
<1>7. c < Columns(sizes[k]) /\ r < Rows(sizes[k])
  BY <1>1, <1>3, PartsEnough DEF Columns, Rows
<1> HIDE DEF c, r
<1>8. c \in 0 .. Columns(sizes[k]) - 1 /\ r \in 0 .. Rows(sizes[k]) - 1
  BY <1>5, <1>6, <1>7, GridSize
<1>9. PICK i \in 0 .. CalcChunkCount(sizes[k]) - 1 :
        /\ CalcChunkX(sizes[k], i) = Border + Inner(ChunkWidth) * c
        /\ CalcChunkY(sizes[k], i) = Border + Inner(ChunkHeight) * r
  BY <1>8, GridNumber
<1>10. Inner(ChunkWidth) * c \in Nat /\ Inner(ChunkHeight) * r \in Nat
  BY <1>1, <1>5, <1>6
<1>11. /\ Part(k, i).x <= a /\ a < Part(k, i).x + Inner(ChunkWidth)
       /\ Part(k, i).y <= b /\ b < Part(k, i).y + Inner(ChunkHeight)
  BY <1>1, <1>3, <1>4, <1>5, <1>6, <1>9, <1>10, PartFields
<1>12. p \in Target(sizes[k], Part(k, i))
  BY <1>2, <1>3, <1>11, InTarget
<1>13. QED
  BY <1>12

(* The window of a pixel of a chunk is in the chunk, if it ends a border   *)
(* before the edge of the image.                                           *)
LEMMA WindowInside ==
  ASSUME NEW k, sizes[k] \in Sizes, Fits(sizes[k]),
         NEW i \in 0 .. CalcChunkCount(sizes[k]) - 1,
         NEW p \in Target(sizes[k], Part(k, i)),
         Window(p) \subseteq Rect(0, 0, sizes[k].w - Border, sizes[k].h - Border)
  PROVE  Inputs(Part(k, i), p) = Window(p)
<1> DEFINE x == Part(k, i).x
           y == Part(k, i).y
<1>1. /\ x \in Nat /\ y \in Nat /\ Border <= x /\ Border <= y
      /\ x <= sizes[k].w /\ y <= sizes[k].h
      /\ Sub(sizes[k].w, x) = sizes[k].w - x /\ Sub(sizes[k].h, y) = sizes[k].h - y
  BY PartPlace
<1>2. /\ sizes[k].w \in Nat /\ sizes[k].h \in Nat /\ Border \in Nat
      /\ Inner(ChunkWidth) \in Nat /\ Inner(ChunkHeight) \in Nat
      /\ ChunkWidth = Inner(ChunkWidth) + 2 * Border
      /\ ChunkHeight = Inner(ChunkHeight) + 2 * Border
  BY GridSize, Constants
<1>3. PICK a, b \in Int : /\ p = <<a, b>>
                          /\ x <= a /\ a < x + Inner(ChunkWidth)
                          /\ y <= b /\ b < y + Inner(ChunkHeight)
  BY InTarget
<1>4. p[1] = a /\ p[2] = b
  BY <1>3
<1> DEFINE u == Part(k, i).cols
           v == Part(k, i).rows
<1>5. /\ u = IF sizes[k].w - x < ChunkWidth THEN sizes[k].w - x ELSE ChunkWidth
      /\ v = IF sizes[k].h - y < ChunkHeight THEN sizes[k].h - y ELSE ChunkHeight
  BY <1>1, PartFields DEF Smaller
<1>6. Inputs(Part(k, i), p) =
        {<<x - Border + e, y - Border + f>> :
           e \in ((a - x) .. (a - x) + 2 * Border) \cap (0 .. u - 1),
           f \in ((b - y) .. (b - y) + 2 * Border) \cap (0 .. v - 1)}
  BY <1>4 DEF Inputs, Origin
<1>7. Window(p) = Rect(a - Border, b - Border, 2 * Border + 1, 2 * Border + 1)
  BY <1>4 DEF Window
<1> HIDE DEF x, y, u, v
<1>8. a + Border < sizes[k].w - Border /\ b + Border < sizes[k].h - Border
  <2>1. <<a + Border, b + Border>> \in Window(p)
    BY <1>2, <1>7, InRect
  <2>2. <<a + Border, b + Border>> \in Rect(0, 0, sizes[k].w - Border, sizes[k].h - Border)
    BY <2>1
  <2>3. QED
    BY <1>2, <2>2, InRect
<1>9. u \in Int /\ v \in Int /\ (a - x) + 2 * Border < u /\ (b - y) + 2 * Border < v
  BY <1>1, <1>2, <1>3, <1>5, <1>8
<1>10. ASSUME NEW q \in Window(p) PROVE q \in Inputs(Part(k, i), p)
  <2>1. PICK c, d \in Int : /\ q = <<c, d>>
                            /\ a - Border <= c /\ c < (a - Border) + (2 * Border + 1)
                            /\ b - Border <= d /\ d < (b - Border) + (2 * Border + 1)
    BY <1>2, <1>7, <1>10, InRect
  <2> DEFINE e == (c - x) + Border
             f == (d - y) + Border
  <2>2. /\ e \in ((a - x) .. (a - x) + 2 * Border) \cap (0 .. u - 1)
        /\ f \in ((b - y) .. (b - y) + 2 * Border) \cap (0 .. v - 1)
    BY <1>1, <1>2, <1>3, <1>9, <2>1
  <2>3. c = x - Border + e /\ d = y - Border + f
    BY <1>1, <1>2
  <2> HIDE DEF e, f
  <2>4. QED
    BY <1>6, <2>1, <2>2, <2>3
<1>11. ASSUME NEW q \in Inputs(Part(k, i), p) PROVE q \in Window(p)
  <2>1. PICK e \in ((a - x) .. (a - x) + 2 * Border) \cap (0 .. u - 1),
             f \in ((b - y) .. (b - y) + 2 * Border) \cap (0 .. v - 1) :
               q = <<x - Border + e, y - Border + f>>
    BY <1>6, <1>11
  <2> DEFINE c == x - Border + e
             d == y - Border + f
  <2>2. /\ c \in Int /\ d \in Int
        /\ a - Border <= c /\ c < (a - Border) + (2 * Border + 1)
        /\ b - Border <= d /\ d < (b - Border) + (2 * Border + 1)
    BY <1>1, <1>2, <1>3, <1>9, <2>1
  <2>3. q = <<c, d>>
    BY <2>1
  <2> HIDE DEF c, d
  <2>4. QED
    BY <1>2, <1>7, <2>2, <2>3, InRect
<1>12. QED
  BY <1>10, <1>11
-----------------------------------------------------------------------------
(* The invariant.  An image that is loaded has a set of chunks that are    *)
(* not back yet: it is as large as chunks_out_, has every chunk that is    *)
(* out or still to be cut (the server may have dropped others of it), and  *)
(* is what the output image still lacks.                                   *)
Outstanding(k) == {i \in 0 .. count[k] - 1 : i >= cut[k] \/ Part(k, i) \in flying}

Written(k, M) ==
  /\ DOMAIN out[k] = Area(sizes[k])
  /\ \A i \in 0 .. count[k] - 1 : \A p \in Target(sizes[k], Part(k, i)) :
       out[k][p] = IF i \in M THEN Blank ELSE Part(k, i)

Missing(k, M) ==
  /\ Outstanding(k) \subseteq M
  /\ Cardinality(M) = left[k]
  /\ k \notin images => M = {}
  /\ Fitting => Written(k, M)

Progress(k) == loaded[k] = k => \E M \in SUBSET (0 .. count[k] - 1) : Missing(k, M)

(* The load thread of a call.                                              *)
Phase(k) ==
  /\ pc[k] = "off" <=> k > started
  /\ pc[k] \in {"off", "load"} => loaded[k] = 0
  /\ pc[k] \in {"send", "return"} => loaded[k] = k
  /\ loaded[k] \in {0, k}
  /\ loaded[k] = 0 => count[k] = 0 /\ cut[k] = 0 /\ (pc[k] = "off" \/ k \in images)
  /\ loaded[k] = k => count[k] = CalcChunkCount(sizes[k])
  /\ cut[k] <= count[k]

Shape ==
  /\ sizes \in Commands
  /\ started \in 0 .. Len(sizes)
  /\ images \subseteq Calls
  /\ file = [k \in Calls |-> IF k <= started THEN k ELSE 0]
  /\ pc \in [Calls -> {"off", "load", "send", "return", "done"}]
  /\ count \in [Calls -> Nat]
  /\ cut \in [Calls -> Nat]
  /\ loaded \in [Calls -> Nat]
  /\ left \in [Calls -> 0 .. U32 - 1]
  /\ DOMAIN out = Calls

Flying ==
  \A ch \in flying : \E k \in Calls :
    loaded[k] = k /\ \E i \in 0 .. cut[k] - 1 : ch = Part(k, i)

SavedRight ==
  \A r \in saved :
    /\ r.call \in 1 .. started
    /\ Fitting =>
         \A i \in 0 .. CalcChunkCount(sizes[r.call]) - 1 :
           \A p \in Target(sizes[r.call], Part(r.call, i)) :
             p \in DOMAIN r.pixels /\ r.pixels[p] = Part(r.call, i)

Complete == Shape /\ (\A k \in Calls : Phase(k) /\ Progress(k)) /\ Flying /\ SavedRight
-----------------------------------------------------------------------------
(* In a directory every call has an object of its own.                     *)
LEMMA OwnObject == ASSUME Directory, NEW k PROVE Object(k) = k
BY DEF Object

(* The sizes asked for are of images whose chunks a u32_t can count.       *)
LEMMA Asked ==
  ASSUME Shape, NEW k \in Calls, k <= started
  PROVE  /\ sizes[k] \in Sizes /\ k \in 1 .. Len(sizes)
         /\ CalcChunkCount(sizes[k]) \in Nat /\ CalcChunkCount(sizes[k]) < U32
         /\ Fitting => Fits(sizes[k])
<1>1. sizes \in Seq(Sizes) /\ sizes \in Commands
  BY CommandsAssumption DEF Shape, Sizes
<1>2. k \in 1 .. Len(sizes) /\ DOMAIN sizes = 1 .. Len(sizes)
  BY <1>1, CommandsAssumption DEF Calls, Shape
<1>3. sizes[k] \in Sizes
  BY <1>1, <1>2
<1>4. CalcChunkCount(sizes[k]) < U32
  BY <1>1, <1>2, CommandsAssumption
<1>5. Fitting => Fits(sizes[k])
  BY <1>1, <1>2 DEF Fitting
<1>6. QED
  BY <1>2, <1>3, <1>4, <1>5, GridSize

(* The same of an image that is loaded.                                    *)
LEMMA LoadedAsked ==
  ASSUME Shape, NEW k \in Calls, Phase(k), loaded[k] = k
  PROVE  /\ sizes[k] \in Sizes /\ k \in 1 .. Len(sizes) /\ k <= started
         /\ count[k] = CalcChunkCount(sizes[k]) /\ count[k] \in Nat
         /\ cut[k] \in Nat /\ cut[k] <= count[k]
         /\ Fitting => Fits(sizes[k])
<1>1. k # 0 /\ k \in Nat /\ started \in Nat
  BY CommandsAssumption DEF Calls, Shape
<1>2. k <= started
  BY <1>1 DEF Phase
<1>3. QED
  BY <1>2, Asked DEF Phase, Shape

(* The chunks of an image are told apart, and stay what they are.          *)
LEMMA PartInjective ==
  ASSUME NEW k, NEW l, NEW i, NEW j, Part(k, i) = Part(l, j)
  PROVE  k = l /\ i = j
<1>1. /\ Part(k, i).call = k /\ Part(k, i).number = i
      /\ Part(l, j).call = l /\ Part(l, j).number = j
  BY PartFields
<1>2. QED
  BY <1>1

(* Chunks stay what they are, as the sizes do.                             *)
LEMMA PartStays ==
  ASSUME sizes' = sizes
  PROVE  \A k, i : Part(k, i)' = Part(k, i)
BY DEF Part, Chunk
-----------------------------------------------------------------------------
(* What a step does not touch of a call keeps its part of the invariant.   *)
LEMMA PhaseKept ==
  ASSUME NEW k \in Calls, Phase(k), sizes' = sizes,
         pc'[k] = pc[k], count'[k] = count[k], cut'[k] = cut[k], loaded'[k] = loaded[k],
         k \in images => k \in images' \/ loaded[k] = k,
         (k > started') <=> (k > started)
  PROVE  Phase(k)'
<1>1. k # 0
  BY DEF Calls
<1>2. QED
  BY <1>1 DEF Phase

(* The same for the chunks that are missing ...                            *)
LEMMA MissingKept ==
  ASSUME NEW k \in Calls, NEW M, Missing(k, M), sizes' = sizes,
         count'[k] = count[k], cut'[k] = cut[k], left'[k] = left[k], out'[k] = out[k],
         \A i : Part(k, i) \in flying' => Part(k, i) \in flying,
         k \in images => k \in images'
  PROVE  Missing(k, M)'
<1>1. \A i : Part(k, i)' = Part(k, i)
  BY PartStays
<1>2. Outstanding(k)' \subseteq Outstanding(k)
  BY <1>1 DEF Outstanding
<1>3. Written(k, M) => Written(k, M)'
  BY <1>1 DEF Written
<1>4. QED
  BY <1>2, <1>3 DEF Missing

(* ... and so for how far an image has come.                               *)
LEMMA ProgressKept ==
  ASSUME NEW k \in Calls, Progress(k), sizes' = sizes,
         count'[k] = count[k], cut'[k] = cut[k], loaded'[k] = loaded[k],
         left'[k] = left[k], out'[k] = out[k],
         \A i : Part(k, i) \in flying' => Part(k, i) \in flying,
         k \in images => k \in images'
  PROVE  Progress(k)'
<1> SUFFICES ASSUME loaded[k] = k
             PROVE  \E M \in SUBSET (0 .. count[k] - 1) : Missing(k, M)'
  BY DEF Progress
<1>1. PICK M \in SUBSET (0 .. count[k] - 1) : Missing(k, M)
  BY DEF Progress
<1>2. Missing(k, M)'
  BY <1>1, MissingKept
<1>3. QED
  BY <1>2

(* No chunk comes out, and none of an image that is not loaded.            *)
LEMMA FlyingKept ==
  ASSUME Flying, sizes' = sizes, flying' \subseteq flying, cut' = cut,
         \A k \in Calls : loaded[k] = k => loaded'[k] = k
  PROVE  Flying'
<1>1. \A k, i : Part(k, i)' = Part(k, i)
  BY PartStays
<1>2. QED
  BY <1>1 DEF Flying

(* No image is saved.                                                      *)
LEMMA SavedRightKept ==
  ASSUME SavedRight, sizes' = sizes, saved' = saved, started \in Nat, started' \in Nat,
         started <= started'
  PROVE  SavedRight'
<1>1. \A k, i : Part(k, i)' = Part(k, i)
  BY PartStays
<1>2. \A r \in saved : r.call \in 1 .. started'
  BY DEF SavedRight
<1>3. QED
  BY <1>1, <1>2 DEF SavedRight
-----------------------------------------------------------------------------
(* What is asked for, and how far it has come.                             *)
LEMMA Ranges ==
  ASSUME sizes \in Commands
  PROVE  /\ MaxCommands \in Nat /\ U32 \in Nat \ {0}
         /\ sizes \in Seq(Sizes) /\ Len(sizes) \in Nat /\ Len(sizes) <= MaxCommands
         /\ \A k \in Calls : k \in Nat /\ k # 0
<1>1. sizes \in Seq(Sizes)
  BY CommandsAssumption DEF Sizes
<1>2. Len(sizes) <= MaxCommands /\ MaxCommands \in Nat
  BY CommandsAssumption
<1>3. U32 \in Nat \ {0}
  BY U32Assumption, BorderAssumption
<1>4. \A k \in Calls : k \in Nat /\ k # 0
  BY DEF Calls
<1>5. QED
  BY <1>1, <1>2, <1>3, <1>4

(* No image is loaded at the start.                                        *)
LEMMA CompleteInit == ASSUME Directory, Init PROVE Complete
<1>1. /\ MaxCommands \in Nat /\ U32 \in Nat \ {0} /\ Len(sizes) \in Nat
      /\ \A k \in Calls : k \in Nat /\ k # 0
  BY Ranges DEF Init
<1>2. Shape
  BY <1>1 DEF Init, Shape, Calls
<1>3. ASSUME NEW k \in Calls PROVE Phase(k) /\ Progress(k)
  BY <1>1, <1>3 DEF Init, Phase, Progress, Calls
<1>4. Flying /\ SavedRight
  BY DEF Init, Flying, SavedRight
<1>5. QED
  BY <1>2, <1>3, <1>4 DEF Complete

(* A call makes an object that has no image yet.                           *)
LEMMA ProcessImageStep == ASSUME Directory, Complete, ProcessImage PROVE Complete'
<1> DEFINE n == started + 1
<1>1. /\ sizes' = sizes /\ flying' = flying /\ saved' = saved /\ started' = n
      /\ images' = images \cup {n} /\ file' = [file EXCEPT ![n] = n]
      /\ pc' = [pc EXCEPT ![n] = "load"]
      /\ UNCHANGED <<count, cut, loaded, left, out>>
  BY OwnObject DEF ProcessImage
<1>2. /\ started \in Nat /\ Len(sizes) \in Nat
      /\ Len(sizes) <= MaxCommands /\ MaxCommands \in Nat /\ started < Len(sizes)
  BY Ranges DEF Complete, Shape, ProcessImage
<1>3. n \in Calls /\ n \in Nat /\ n # 0 /\ n \in 0 .. Len(sizes)
  BY <1>2 DEF Calls
<1>4. Shape'
  <2>1. file' = [k \in Calls |-> IF k <= n THEN k ELSE 0]
    <3>1. file = [k \in Calls |-> IF k <= started THEN k ELSE 0]
      BY DEF Complete, Shape
    <3>2. \A k \in Calls : k # n => (k <= started <=> k <= n)
      BY <1>2, <1>3 DEF Calls
    <3>3. n <= n
      BY <1>3
    <3> HIDE DEF n
    <3>4. \A k \in Calls : file'[k] = IF k <= n THEN k ELSE 0
      BY <1>1, <1>3, <3>1, <3>2, <3>3
    <3>5. file' = [k \in Calls |-> file'[k]]
      BY <1>1, <1>3, <3>1
    <3>6. QED
      BY <3>4, <3>5
  <2>2. pc' \in [Calls -> {"off", "load", "send", "return", "done"}]
    BY <1>1, <1>3 DEF Complete, Shape
  <2>3. QED
    BY <1>1, <1>3, <2>1, <2>2 DEF Complete, Shape
<1>5. ASSUME NEW k \in Calls PROVE Phase(k)' /\ Progress(k)'
  <2>1. Progress(k)'
    BY <1>1, ProgressKept DEF Complete
  <2>2. Phase(k) /\ k \in Nat
    BY DEF Complete, Calls
  <2>3. CASE k = n
    <3>1. pc[k] = "off" /\ pc'[k] = "load"
      BY <1>1, <1>2, <2>2, <2>3 DEF Phase, Complete, Shape
    <3>2. k <= started' /\ k \in images'
      BY <1>1, <1>2, <2>3
    <3>3. QED
      BY <1>1, <1>3, <2>1, <2>2, <3>1, <3>2 DEF Phase
  <2>4. CASE k # n
    <3>1. pc'[k] = pc[k]
      BY <1>1, <2>4 DEF Complete, Shape
    <3>2. (k > started') <=> (k > started)
      BY <1>1, <1>2, <2>2, <2>4
    <3>3. QED
      BY <1>1, <2>1, <2>2, <3>1, <3>2, PhaseKept
  <2>5. QED
    BY <2>3, <2>4
<1>6. Flying'
  BY <1>1, FlyingKept DEF Complete
<1>7. SavedRight'
  BY <1>1, <1>2, SavedRightKept DEF Complete
<1>8. QED
  BY <1>4, <1>5, <1>6, <1>7 DEF Complete

(* All chunks of a loaded image are missing at first.                      *)
LEMMA LoadImageStep ==
  ASSUME Directory, Complete, NEW k \in Calls, LoadImage(k) PROVE Complete'
<1> DEFINE n == CalcChunkCount(sizes[k])
<1>1. /\ Shape /\ Phase(k) /\ pc[k] = "load" /\ k \in Nat /\ k # 0 /\ started \in Nat
  BY Ranges DEF Complete, Shape, LoadImage
<1>2. k <= started /\ loaded[k] = 0 /\ k \in images /\ cut[k] = 0
  BY <1>1 DEF Phase
<1>3. file[k] = k
  BY <1>1, <1>2 DEF Shape
<1>4. /\ sizes' = sizes /\ flying' = flying /\ saved' = saved /\ started' = started
      /\ images' = images /\ file' = file /\ cut' = cut
      /\ pc' = [pc EXCEPT ![k] = "send"] /\ count' = [count EXCEPT ![k] = n]
      /\ left' = [left EXCEPT ![k] = n] /\ loaded' = [loaded EXCEPT ![k] = k]
      /\ out' = [out EXCEPT ![k] = [p \in Area(sizes[k]) |-> Blank]]
  BY <1>3, OwnObject DEF LoadImage, callVars, ChunksOut
<1>5. n \in Nat /\ n < U32 /\ sizes[k] \in Sizes /\ (Fitting => Fits(sizes[k]))
  BY <1>1, <1>2, Asked
<1>6. /\ pc'[k] = "send" /\ count'[k] = n /\ left'[k] = n /\ loaded'[k] = k
      /\ out'[k] = [p \in Area(sizes[k]) |-> Blank] /\ cut'[k] = 0
  BY <1>1, <1>2, <1>4 DEF Shape
<1>7. \A i : Part(k, i)' = Part(k, i)
  BY <1>4, PartStays
<1> HIDE DEF n
<1>8. Shape'
  BY <1>1, <1>4, <1>5, U32Assumption, SMTT(30) DEF Shape
<1>9. Phase(k)'
  BY <1>1, <1>2, <1>4, <1>5, <1>6 DEF Phase, n
<1>10. ASSUME NEW M, M = 0 .. n - 1 PROVE Missing(k, M)'
  <2>1. Outstanding(k)' \subseteq M
    BY <1>6, <1>10 DEF Outstanding
  <2>2. Cardinality(M) = left'[k]
    <3>1. 0 \in Int /\ n - 1 \in Int
      BY <1>5
    <3>2. Cardinality(0 .. n - 1) = IF 0 <= n - 1 THEN (n - 1) - 0 + 1 ELSE 0
      BY <3>1, FS_Interval
    <3>3. Cardinality(0 .. n - 1) = n
      BY <1>5, <3>2
    <3>4. QED
      BY <1>6, <1>10, <3>3
  <2>3. ASSUME Fitting PROVE Written(k, M)'
    <3>1. \A i \in 0 .. n - 1 : Target(sizes[k], Part(k, i)) \subseteq Area(sizes[k])
      BY <1>5, <2>3, TargetInside DEF n
    <3>2. DOMAIN out'[k] = Area(sizes[k]) /\ \A p \in Area(sizes[k]) : out'[k][p] = Blank
      BY <1>6
    <3>3. \A i \in M : \A p \in Target(sizes[k], Part(k, i)) : out'[k][p] = Blank
      BY <1>10, <3>1, <3>2
    <3>4. count'[k] = n /\ sizes' = sizes
      BY <1>4, <1>6
    <3>5. QED
      BY <1>7, <1>10, <3>2, <3>3, <3>4 DEF Written
  <2>4. k \in images'
    BY <1>2, <1>4
  <2>5. QED
    BY <2>1, <2>2, <2>3, <2>4 DEF Missing
<1>11. Progress(k)'
  <2>1. PICK M : M = 0 .. n - 1
    OBVIOUS
  <2>2. Missing(k, M)' /\ M \in SUBSET (0 .. count'[k] - 1)
    BY <1>6, <1>10, <2>1
  <2>3. QED
    BY <2>2 DEF Progress
<1>12. ASSUME NEW l \in Calls, l # k PROVE Phase(l)' /\ Progress(l)'
  <2>1. /\ pc'[l] = pc[l] /\ count'[l] = count[l] /\ cut'[l] = cut[l]
        /\ left'[l] = left[l] /\ loaded'[l] = loaded[l] /\ out'[l] = out[l]
    BY <1>1, <1>4, <1>12 DEF Shape
  <2>2. QED
    BY <1>4, <2>1, PhaseKept, ProgressKept DEF Complete
<1>13. Flying'
  BY <1>1, <1>4, <1>6, FlyingKept DEF Complete, Shape
<1>14. SavedRight'
  BY <1>1, <1>4, SavedRightKept DEF Complete
<1>15. QED
  BY <1>8, <1>9, <1>11, <1>12, <1>13, <1>14 DEF Complete

(* The load thread ends, with or without an image, or returns to its loop. *)
LEMMA LoadMovesStep ==
  ASSUME Directory, Complete, NEW k \in Calls, LoadFails(k) \/ LoopEnds(k) \/ Return(k)
  PROVE  Complete'
<1>1. Shape /\ Phase(k) /\ pc[k] \in {"load", "send", "return"} /\ started \in Nat
  BY DEF Complete, Shape, LoadFails, LoopEnds, Return
<1>2. PICK to \in {"send", "done"} :
        /\ UNCHANGED <<callVars, count, cut, objectVars, flying, saved>>
        /\ pc' = [pc EXCEPT ![k] = to]
        /\ to = "send" => loaded[k] = k
  BY <1>1 DEF LoadFails, LoopEnds, Return, Phase
<1> USE <1>2 DEF callVars, objectVars
<1>3. Shape'
  BY <1>1 DEF Shape
<1>4. Phase(k)'
  <2>1. pc'[k] = to
    BY <1>1 DEF Shape
  <2>2. QED
    BY <1>1, <2>1 DEF Phase
<1>5. ASSUME NEW l \in Calls PROVE Phase(l)' /\ Progress(l)'
  <2>1. Progress(l)'
    BY ProgressKept DEF Complete
  <2>2. l # k => pc'[l] = pc[l]
    BY <1>1 DEF Shape
  <2>3. l # k => Phase(l)'
    BY <2>2, PhaseKept DEF Complete
  <2>4. QED
    BY <1>4, <2>1, <2>3
<1>6. Flying'
  BY FlyingKept DEF Complete
<1>7. SavedRight'
  BY <1>1, SavedRightKept DEF Complete
<1>8. QED
  BY <1>3, <1>5, <1>6, <1>7 DEF Complete

(* A chunk that is cut was missing and stays so.                           *)
LEMMA GenerateStep ==
  ASSUME Directory, Complete, NEW k \in Calls, Generate(k) PROVE Complete'
<1> DEFINE n == cut[k]
<1>1. Shape /\ Phase(k) /\ pc[k] = "send" /\ loaded[k] = k /\ started \in Nat
  BY DEF Complete, Shape, Phase, Generate
<1>2. n \in Nat /\ count[k] \in Nat /\ n < count[k]
  BY <1>1 DEF Shape, Generate, GoesOn
<1>3. /\ UNCHANGED <<callVars, count, objectVars, saved>>
      /\ pc' = [pc EXCEPT ![k] = "return"]
      /\ cut' = [cut EXCEPT ![k] = n + 1] /\ flying' = flying \cup {Part(k, n)}
  BY <1>1, OwnObject DEF Generate, Part
<1> USE <1>3 DEF callVars, objectVars
<1>4. /\ cut'[k] = n + 1 /\ pc'[k] = "return"
      /\ \A l \in Calls : l # k => cut'[l] = cut[l] /\ pc'[l] = pc[l]
  BY <1>1 DEF Shape
<1> HIDE DEF n
<1>5. Shape'
  BY <1>1, <1>2 DEF Shape
<1>6. Phase(k)'
  <2>1. cut'[k] <= count[k]
    BY <1>2, <1>4
  <2>2. k # 0
    BY DEF Calls
  <2>3. QED
    BY <1>1, <2>1, <2>2 DEF Phase
<1>7. Progress(k)'
  <2>1. PICK M \in SUBSET (0 .. count[k] - 1) : Missing(k, M)
    BY <1>1 DEF Complete, Progress
  <2>2. \A i : Part(k, i)' = Part(k, i)
    BY PartStays
  <2>3. \A i \in 0 .. count[k] - 1 : i >= cut'[k] => i >= n
    BY <1>2, <1>4
  <2>4. \A i : Part(k, i) \in flying' => Part(k, i) \in flying \/ i = n
    BY PartInjective
  <2>5. n >= n
    BY <1>2
  <2>6. Outstanding(k)' \subseteq Outstanding(k)
    BY <2>2, <2>3, <2>4, <2>5 DEF Outstanding, n
  <2>7. Written(k, M) => Written(k, M)'
    BY <2>2 DEF Written
  <2>8. Missing(k, M)'
    BY <2>1, <2>6, <2>7 DEF Missing
  <2>9. QED
    BY <2>8 DEF Progress
<1>8. ASSUME NEW l \in Calls, l # k PROVE Phase(l)' /\ Progress(l)'
  <2>1. \A i : Part(l, i) \in flying' => Part(l, i) \in flying
    BY <1>8, PartInjective
  <2>2. QED
    BY <1>4, <1>8, <2>1, PhaseKept, ProgressKept DEF Complete
<1>9. Flying'
  <2>1. \A l, i : Part(l, i)' = Part(l, i)
    BY PartStays
  <2>2. ASSUME NEW l \in Calls PROVE cut[l] \in Nat /\ cut'[l] \in Nat /\ cut[l] <= cut'[l]
    BY <1>1, <1>2, <1>4, <2>2 DEF Shape, n
  <2>3. \A l \in Calls : \A i \in 0 .. cut[l] - 1 : i \in 0 .. cut'[l] - 1
    BY <2>2
  <2>4. n \in 0 .. cut'[k] - 1
    BY <1>2, <1>4
  <2>5. ASSUME NEW ch \in flying
        PROVE  \E l \in Calls : loaded[l] = l /\ \E i \in 0 .. cut'[l] - 1 : ch = Part(l, i)
    BY <2>3 DEF Complete, Flying
  <2>6. \E l \in Calls : loaded[l] = l /\ \E i \in 0 .. cut'[l] - 1 : Part(k, n) = Part(l, i)
    BY <1>1, <2>4
  <2>7. QED
    BY <2>1, <2>5, <2>6 DEF Flying
<1>10. SavedRight'
  BY <1>1, SavedRightKept DEF Complete
<1>11. QED
  BY <1>5, <1>6, <1>7, <1>8, <1>9, <1>10 DEF Complete

(* A dropped chunk stays missing: the image is never saved.                *)
LEMMA LoseStep == ASSUME Directory, Complete, NEW ch \in flying, Lose(ch) PROVE Complete'
<1>1. /\ UNCHANGED <<callVars, loadVars, objectVars, saved>> /\ flying' \subseteq flying
      /\ started \in Nat
  BY Ranges DEF Lose, Complete, Shape
<1> USE <1>1 DEF callVars, loadVars, objectVars
<1>2. Shape'
  BY DEF Complete, Shape
<1>3. ASSUME NEW k \in Calls PROVE Phase(k)' /\ Progress(k)'
  BY PhaseKept, ProgressKept DEF Complete
<1>4. Flying'
  BY FlyingKept DEF Complete
<1>5. SavedRight'
  BY SavedRightKept DEF Complete
<1>6. QED
  BY <1>2, <1>3, <1>4, <1>5 DEF Complete

(* What is known of a chunk that is out: it is missing, and its image has  *)
(* not been deleted.                                                       *)
LEMMA OutIsMissing ==
  ASSUME Complete, NEW ch \in flying
  PROVE  \E k \in Calls, i \in Nat :
           /\ ch = Part(k, i) /\ loaded[k] = k /\ Phase(k)
           /\ i < cut[k] /\ i \in 0 .. count[k] - 1 /\ i \in Outstanding(k)
           /\ k \in images
<1>1. PICK k \in Calls : loaded[k] = k /\ \E i \in 0 .. cut[k] - 1 : ch = Part(k, i)
  BY DEF Complete, Flying
<1>2. PICK i \in 0 .. cut[k] - 1 : ch = Part(k, i)
  BY <1>1
<1>3. Shape /\ Phase(k)
  BY DEF Complete
<1>4. count[k] \in Nat /\ cut[k] \in Nat /\ cut[k] <= count[k]
  BY <1>1, <1>3, LoadedAsked
<1>5. i \in Nat /\ i < cut[k] /\ i \in 0 .. count[k] - 1
  BY <1>4
<1>6. i \in Outstanding(k)
  BY <1>2, <1>5 DEF Outstanding
<1>7. k \in images
  BY <1>1, <1>6 DEF Complete, Progress, Missing
<1>8. QED
  BY <1>1, <1>2, <1>3, <1>5, <1>6, <1>7

(* Of an image whose chunk comes back, that chunk and no other is missing  *)
(* no longer; when none is, the output image has them all.                 *)
LEMMA ChunkReceivedStep ==
  ASSUME Directory, Complete, NEW ch \in flying, ChunkReceived(ch) PROVE Complete'
<1>1. PICK k \in Calls, n \in Nat :
        /\ ch = Part(k, n) /\ loaded[k] = k /\ Phase(k)
        /\ n < cut[k] /\ n \in 0 .. count[k] - 1 /\ n \in Outstanding(k)
        /\ k \in images
  BY OutIsMissing
<1>2. Shape /\ started \in Nat /\ U32 \in Nat \ {0}
  BY Ranges DEF Complete, Shape
<1>3. /\ sizes[k] \in Sizes /\ k <= started /\ k \in Nat /\ k # 0
      /\ count[k] = CalcChunkCount(sizes[k]) /\ count[k] \in Nat /\ (Fitting => Fits(sizes[k]))
  BY <1>1, <1>2, LoadedAsked, Ranges DEF Shape
<1>4. ch.id = k
  BY <1>1, OwnObject, PartFields
<1>5. /\ UNCHANGED <<callVars, loadVars, loaded>>
      /\ flying' = flying \ {ch}
      /\ out' = [out EXCEPT ![k] =
           [p \in DOMAIN @ |-> IF p \in Target(sizes[k], ch) THEN ch ELSE @[p]]]
      /\ left' = [left EXCEPT ![k] = Sub(left[k], 1)]
      /\ saved' = IF left'[k] = 0
                  THEN saved \cup {[call |-> file[k], pixels |-> out'[k]]} ELSE saved
      /\ images' = IF left'[k] = 0 THEN images \ {k} ELSE images
  BY <1>1, <1>4 DEF ChunkReceived, Paste
<1>6. /\ out'[k] = [p \in DOMAIN out[k] |->
                      IF p \in Target(sizes[k], ch) THEN ch ELSE out[k][p]]
      /\ left'[k] = Sub(left[k], 1) /\ left[k] \in 0 .. U32 - 1
      /\ \A l \in Calls : l # k => left'[l] = left[l] /\ out'[l] = out[l]
  BY <1>2, <1>5 DEF Shape
<1>7. /\ sizes' = sizes /\ count' = count /\ cut' = cut /\ pc' = pc
      /\ loaded' = loaded /\ started' = started /\ file' = file
  BY <1>5 DEF callVars, loadVars
<1>8. \A l, i : Part(l, i)' = Part(l, i)
  BY <1>7, PartStays
<1>9. PICK M \in SUBSET (0 .. count[k] - 1) : Missing(k, M)
  BY <1>1 DEF Complete, Progress
<1> DEFINE N == M \ {n}
<1>10. n \in M /\ IsFiniteSet(M) /\ IsFiniteSet(N) /\ Cardinality(M) = left[k]
       /\ Cardinality(N) = left[k] - 1
  <2>1. IsFiniteSet(0 .. count[k] - 1)
    BY <1>3, FS_Interval
  <2>2. n \in M /\ IsFiniteSet(M) /\ Cardinality(M) = left[k]
    BY <1>1, <1>9, <2>1, FS_Subset DEF Missing
  <2>3. QED
    BY <2>2, FS_RemoveElement
<1>11. left'[k] = left[k] - 1 /\ left'[k] \in 0 .. U32 - 1
  <2>1. left[k] # 0
    BY <1>10, FS_EmptySet
  <2>2. left[k] \in Nat /\ 1 \in Nat /\ left[k] < U32 /\ 1 <= left[k]
    BY <1>2, <1>6, <2>1
  <2>3. Sub(left[k], 1) = left[k] - 1
    BY <2>2, NoWrap
  <2>4. QED
    BY <1>2, <1>6, <2>2, <2>3
<1>12. left'[k] = 0 => N = {}
  BY <1>10, <1>11, FS_EmptySet
<1>13. Shape'
  <2>1. left' \in [Calls -> 0 .. U32 - 1]
    BY <1>2, <1>5, <1>6, <1>11 DEF Shape
  <2>2. DOMAIN out' = Calls /\ images' \subseteq Calls
    BY <1>2, <1>5 DEF Shape
  <2>3. QED
    BY <1>2, <1>7, <2>1, <2>2 DEF Shape
<1>14. ASSUME Fitting PROVE Written(k, N)'
  <2>1. Written(k, M) /\ Fits(sizes[k])
    BY <1>3, <1>9, <1>14 DEF Missing
  <2>2. DOMAIN out'[k] = Area(sizes[k])
    BY <1>6, <2>1 DEF Written
  <2>3. ASSUME NEW i \in 0 .. count[k] - 1, NEW p \in Target(sizes[k], Part(k, i))
        PROVE  out'[k][p] = IF i \in N THEN Blank ELSE Part(k, i)
    <3>1. p \in DOMAIN out[k]
      BY <1>3, <2>1, <2>3, TargetInside DEF Written
    <3>2. out[k][p] = IF i \in M THEN Blank ELSE Part(k, i)
      BY <2>1, <2>3 DEF Written
    <3>3. out'[k][p] = IF p \in Target(sizes[k], Part(k, n)) THEN Part(k, n) ELSE out[k][p]
      BY <1>1, <1>6, <3>1
    <3>4. CASE i = n
      BY <2>3, <3>3, <3>4
    <3>5. CASE i # n
      <4>1. p \notin Target(sizes[k], Part(k, n))
        BY <1>1, <1>3, <2>1, <2>3, <3>5, TargetsDisjoint
      <4>2. QED
        BY <3>2, <3>3, <3>5, <4>1
    <3>6. QED
      BY <3>4, <3>5
  <2>4. QED
    BY <1>7, <1>8, <2>2, <2>3 DEF Written
<1>15. Missing(k, N)'
  <2>1. Outstanding(k)' \subseteq N
    <3>1. Outstanding(k) \subseteq M
      BY <1>9 DEF Missing
    <3>2. n \notin Outstanding(k)'
      BY <1>1, <1>2, <1>5, <1>7, <1>8 DEF Outstanding, Shape
    <3>3. Outstanding(k)' \subseteq Outstanding(k)
      BY <1>5, <1>7, <1>8 DEF Outstanding
    <3>4. QED
      BY <3>1, <3>2, <3>3
  <2>2. k \notin images' => N = {}
    BY <1>1, <1>5, <1>12
  <2>3. Cardinality(N) = left'[k]
    BY <1>10, <1>11
  <2> HIDE DEF N
  <2>4. QED
    BY <1>14, <2>1, <2>2, <2>3 DEF Missing
<1>16. Progress(k)'
  BY <1>7, <1>15 DEF Progress
<1>17. Phase(k)'
  BY <1>1, <1>7, PhaseKept
<1>18. ASSUME NEW l \in Calls, l # k PROVE Phase(l)' /\ Progress(l)'
  <2>1. left'[l] = left[l] /\ out'[l] = out[l] /\ (l \in images => l \in images')
    BY <1>5, <1>6, <1>18
  <2>2. \A i : Part(l, i) \in flying' => Part(l, i) \in flying
    BY <1>5
  <2>3. QED
    BY <1>7, <2>1, <2>2, PhaseKept, ProgressKept DEF Complete
<1>19. Flying'
  BY <1>5, <1>7, FlyingKept DEF Complete
<1>20. SavedRight'
  <2>1. CASE left'[k] # 0
    BY <1>2, <1>5, <1>7, <2>1, SavedRightKept DEF Complete
  <2>2. CASE left'[k] = 0
    <3> DEFINE r == [call |-> file[k], pixels |-> out'[k]]
    <3>1. file[k] = k
      BY <1>2, <1>3 DEF Shape
    <3>2. r.call = k /\ r.pixels = out'[k] /\ r.call \in 1 .. started
      BY <1>2, <1>3, <3>1
    <3>3. ASSUME Fitting, NEW i \in 0 .. CalcChunkCount(sizes[k]) - 1,
                 NEW p \in Target(sizes[k], Part(k, i))
          PROVE  p \in DOMAIN out'[k] /\ out'[k][p] = Part(k, i)
      <4>1. Written(k, N)' /\ N = {}
        BY <1>12, <1>14, <2>2, <3>3
      <4>2. DOMAIN out'[k] = Area(sizes[k]) /\ out'[k][p] = Part(k, i)
        BY <1>3, <1>7, <1>8, <3>3, <4>1 DEF Written
      <4>3. p \in Area(sizes[k])
        BY <1>3, <3>3, TargetInside
      <4>4. QED
        BY <4>2, <4>3
    <3> HIDE DEF r
    <3>4. saved' = saved \cup {r}
      BY <1>5, <2>2 DEF r
    <3>5. ASSUME NEW s \in saved'
          PROVE  /\ s.call \in 1 .. started
                 /\ Fitting =>
                      \A i \in 0 .. CalcChunkCount(sizes[s.call]) - 1 :
                        \A p \in Target(sizes[s.call], Part(s.call, i)) :
                          p \in DOMAIN s.pixels /\ s.pixels[p] = Part(s.call, i)
      <4>1. CASE s = r
        BY <3>2, <3>3, <4>1
      <4>2. CASE s \in saved
        BY <4>2 DEF Complete, SavedRight
      <4>3. QED
        BY <3>4, <3>5, <4>1, <4>2
    <3>6. QED
      BY <1>7, <1>8, <3>5 DEF SavedRight
  <2>3. QED
    BY <2>1, <2>2
<1>21. QED
  BY <1>13, <1>16, <1>17, <1>18, <1>19, <1>20 DEF Complete

(* Every step keeps the invariant.                                         *)
LEMMA CompleteStep == ASSUME Directory, Complete, [Next]_imageVars PROVE Complete'
<1> DEFINE Still == UNCHANGED <<sizes, started, file, loadVars, objectVars, flying, saved>>
<1>1. CASE ProcessImage
  BY <1>1, ProcessImageStep
<1>2. ASSUME NEW k \in Calls, Load(k) PROVE Complete' \/ Still
  BY <1>2, LoadImageStep, LoadMovesStep, GenerateStep DEF Load, ReturnCrashes
<1>3. ASSUME NEW ch \in flying, ChunkReceived(ch) \/ Lose(ch) PROVE Complete'
  BY <1>3, ChunkReceivedStep, LoseStep
<1>4. CASE Still
  <2>1. Still /\ started \in Nat
    BY <1>4, Ranges DEF Complete, Shape
  <2> USE <2>1 DEF loadVars, objectVars
  <2>2. Shape'
    BY DEF Complete, Shape
  <2>3. ASSUME NEW k \in Calls PROVE Phase(k)' /\ Progress(k)'
    BY PhaseKept, ProgressKept DEF Complete
  <2>4. Flying' /\ SavedRight'
    BY FlyingKept, SavedRightKept DEF Complete
  <2>5. QED
    BY <2>2, <2>3, <2>4 DEF Complete
<1>5. UNCHANGED imageVars => Still
  BY DEF imageVars, callVars
<1>6. QED
  BY <1>1, <1>2, <1>3, <1>4, <1>5 DEF Next

(* So it always holds.                                                     *)
LEMMA AlwaysComplete == Directory => (Spec => []Complete)
<1> SUFFICES ASSUME Directory PROVE Spec => []Complete
  OBVIOUS
<1>1. QED
  BY CompleteInit, CompleteStep, PTL DEF Spec
-----------------------------------------------------------------------------
(* The variables of imagedir keep their types: among them no chunk count   *)
(* wraps round, and every chunk that is out is one of its image.           *)
THEOREM Types == Directory => (Spec => []TypeOK)
<1> SUFFICES ASSUME Directory PROVE Spec => []TypeOK
  OBVIOUS
<1>1. ASSUME Complete PROVE TypeOK
  <2>1. started \in 0 .. Len(sizes) /\ pc \in [Calls -> {"off", "load", "send", "return", "done"}]
    BY <1>1 DEF Complete, Shape
  <2>2. images \subseteq {Object(k) : k \in Calls}
    BY <1>1, OwnObject DEF Complete, Shape
  <2>3. ASSUME NEW k \in Calls
        PROVE  /\ cut[k] \in 0 .. count[k] /\ file[k] \in 0 .. started
               /\ loaded[k] \in 0 .. started /\ left[k] \in 0 .. U32 - 1
    <3>1. Shape /\ Phase(k) /\ started \in Nat /\ k \in Nat /\ k # 0
      BY <1>1, Ranges DEF Complete, Shape
    <3>2. cut[k] \in 0 .. count[k] /\ left[k] \in 0 .. U32 - 1
      BY <3>1 DEF Shape, Phase
    <3>3. file[k] \in 0 .. started
      BY <3>1 DEF Shape
    <3>4. loaded[k] \in 0 .. started
      BY <3>1, LoadedAsked DEF Phase
    <3>5. QED
      BY <3>2, <3>3, <3>4
  <2>4. ASSUME NEW ch \in flying
        PROVE  /\ ch.call \in 1 .. Len(sizes)
               /\ ch.number \in 0 .. CalcChunkCount(sizes[ch.call]) - 1
    <3>1. PICK k \in Calls, i \in Nat :
            ch = Part(k, i) /\ loaded[k] = k /\ Phase(k) /\ i \in 0 .. count[k] - 1
      BY <1>1, OutIsMissing
    <3>2. k \in 1 .. Len(sizes) /\ count[k] = CalcChunkCount(sizes[k])
      BY <1>1, <3>1, LoadedAsked DEF Complete
    <3>3. ch.call = k /\ ch.number = i
      BY <3>1, PartFields
    <3>4. QED
      BY <3>1, <3>2, <3>3
  <2>5. QED
    BY <2>1, <2>2, <2>3, <2>4 DEF TypeOK
<1>2. QED
  BY <1>1, AlwaysComplete, PTL

(* An image is deleted when none of its chunks is out or still to be cut,  *)
(* whatever the server drops (Image.cpp:206-217).                          *)
THEOREM Deleted == Directory => (Spec => []DeletedWhenAllBack)
<1> SUFFICES ASSUME Directory PROVE Spec => []DeletedWhenAllBack
  OBVIOUS
<1>1. ASSUME Complete PROVE DeletedWhenAllBack
  <2> SUFFICES ASSUME NEW k \in Calls, pc[k] # "off", Object(k) \notin images
               PROVE  cut[k] = count[k] /\ \A ch \in flying : ch.thread # k
    BY DEF DeletedWhenAllBack
  <2>1. Shape /\ Phase(k) /\ Progress(k) /\ k \notin images
    BY <1>1, OwnObject DEF Complete
  <2>2. loaded[k] = k
    BY <2>1 DEF Phase
  <2>3. Outstanding(k) = {}
    BY <2>1, <2>2 DEF Progress, Missing
  <2>4. cut[k] \in Nat /\ count[k] \in Nat /\ cut[k] <= count[k]
    BY <2>1, <2>2, LoadedAsked
  <2>5. cut[k] = count[k]
    <3> SUFFICES ASSUME cut[k] < count[k] PROVE FALSE
      BY <2>4
    <3>1. cut[k] \in 0 .. count[k] - 1 /\ cut[k] >= cut[k]
      BY <2>4
    <3>2. cut[k] \in Outstanding(k)
      BY <3>1 DEF Outstanding
    <3>3. QED
      BY <2>3, <3>2
  <2>6. ASSUME NEW ch \in flying, ch.thread = k PROVE FALSE
    <3>1. PICK l \in Calls, i \in Nat : ch = Part(l, i) /\ i \in Outstanding(l)
      BY <1>1, OutIsMissing
    <3>2. l = k
      BY <2>6, <3>1, PartFields
    <3>3. QED
      BY <2>3, <3>1, <3>2
  <2>7. QED
    BY <2>5, <2>6
<1>2. QED
  BY <1>1, AlwaysComplete, PTL

(* Chunks are cut from and pasted to the inside of their image, if its     *)
(* last chunks have a border of it (Image.cpp:53-62, 85-93).               *)
THEOREM Bounds == Directory /\ Fitting => (Spec => []InBounds)
<1> SUFFICES ASSUME Directory, Fitting PROVE Spec => []InBounds
  OBVIOUS
<1>1. ASSUME Complete PROVE InBounds
  <2> SUFFICES ASSUME NEW ch \in flying
               PROVE  /\ Source(ch) \subseteq Area(sizes[ch.call])
                      /\ Target(sizes[ch.call], ch) \subseteq Area(sizes[ch.call])
    BY DEF InBounds
  <2>1. PICK k \in Calls, i \in Nat :
          ch = Part(k, i) /\ loaded[k] = k /\ Phase(k) /\ i \in 0 .. count[k] - 1
    BY <1>1, OutIsMissing
  <2>2. sizes[k] \in Sizes /\ Fits(sizes[k]) /\ count[k] = CalcChunkCount(sizes[k])
    BY <1>1, <2>1, LoadedAsked DEF Complete
  <2>3. ch.call = k
    BY <2>1, PartFields
  <2>4. QED
    BY <2>1, <2>2, <2>3, SourceInside, TargetInside
<1>2. QED
  BY <1>1, AlwaysComplete, PTL

(* Chunks that are out go to disjoint places that nothing has been written *)
(* to, so their order does not matter.                                     *)
THEOREM Disjoint == Directory /\ Fitting => (Spec => []NoOverlap)
<1> SUFFICES ASSUME Directory, Fitting PROVE Spec => []NoOverlap
  OBVIOUS
<1>1. ASSUME Complete PROVE NoOverlap
  <2> SUFFICES ASSUME NEW ch \in flying
               PROVE  /\ \A p \in Target(sizes[ch.call], ch) \cap DOMAIN out[ch.id] :
                           out[ch.id][p] = Blank
                      /\ \A d \in flying \ {ch} : d.id = ch.id =>
                           Target(sizes[ch.call], ch) \cap Target(sizes[d.call], d) = {}
    BY DEF NoOverlap
  <2>1. PICK k \in Calls, i \in Nat :
          /\ ch = Part(k, i) /\ loaded[k] = k /\ Phase(k)
          /\ i \in 0 .. count[k] - 1 /\ i \in Outstanding(k)
    BY <1>1, OutIsMissing
  <2>2. sizes[k] \in Sizes /\ Fits(sizes[k]) /\ count[k] = CalcChunkCount(sizes[k])
    BY <1>1, <2>1, LoadedAsked DEF Complete
  <2>3. ch.call = k /\ ch.id = k
    BY <2>1, OwnObject, PartFields
  <2>4. PICK M \in SUBSET (0 .. count[k] - 1) : Missing(k, M)
    BY <1>1, <2>1 DEF Complete, Progress
  <2>5. i \in M /\ Written(k, M)
    BY <2>1, <2>4 DEF Missing
  <2>6. \A p \in Target(sizes[k], Part(k, i)) : out[k][p] = Blank
    BY <2>1, <2>5 DEF Written
  <2>7. ASSUME NEW d \in flying \ {ch}, d.id = ch.id,
               NEW p \in Target(sizes[k], ch), p \in Target(sizes[d.call], d)
        PROVE  FALSE
    <3>1. PICK l \in Calls, j \in Nat :
            d = Part(l, j) /\ loaded[l] = l /\ Phase(l) /\ j \in 0 .. count[l] - 1
      BY <1>1, OutIsMissing
    <3>2. l = k /\ d.call = k
      BY <2>3, <2>7, <3>1, OwnObject, PartFields
    <3>3. j = i
      BY <2>1, <2>2, <2>7, <3>1, <3>2, TargetsDisjoint
    <3>4. QED
      BY <2>1, <2>7, <3>1, <3>2, <3>3
  <2>8. QED
    BY <2>1, <2>3, <2>6, <2>7
<1>2. QED
  BY <1>1, AlwaysComplete, PTL

(* Every pixel that is covered is of a chunk that a saved image has.       *)
LEMMA SavedPixel ==
  ASSUME Fitting, Complete, NEW r \in saved, NEW p \in Covered(sizes[r.call])
  PROVE  \E i \in 0 .. CalcChunkCount(sizes[r.call]) - 1 :
           /\ sizes[r.call] \in Sizes /\ Fits(sizes[r.call])
           /\ p \in Target(sizes[r.call], Part(r.call, i))
           /\ p \in DOMAIN r.pixels /\ r.pixels[p] = Part(r.call, i)
<1>1. r.call \in 1 .. started /\ Shape
  BY DEF Complete, SavedRight
<1>2. r.call \in Calls /\ r.call <= started
  BY <1>1, Ranges DEF Shape, Calls
<1>3. sizes[r.call] \in Sizes /\ Fits(sizes[r.call])
  BY <1>1, <1>2, Asked
<1>4. PICK i \in 0 .. CalcChunkCount(sizes[r.call]) - 1 :
        p \in Target(sizes[r.call], Part(r.call, i))
  BY <1>3, TargetsCover
<1>5. p \in DOMAIN r.pixels /\ r.pixels[p] = Part(r.call, i)
  BY <1>4 DEF Complete, SavedRight
<1>6. QED
  BY <1>3, <1>4, <1>5

(* A saved image has all its chunks, and they are its own (Image.cpp:106). *)
THEOREM Saved == Directory /\ Fitting => (Spec => []SavedComplete)
<1> SUFFICES ASSUME Directory, Fitting PROVE Spec => []SavedComplete
  OBVIOUS
<1>1. ASSUME Complete PROVE SavedComplete
  <2> SUFFICES ASSUME NEW r \in saved, NEW p \in Covered(sizes[r.call])
               PROVE  p \in DOMAIN r.pixels /\ r.pixels[p].call = r.call
    BY DEF SavedComplete
  <2>1. QED
    BY <1>1, SavedPixel, PartFields
<1>2. QED
  BY <1>1, AlwaysComplete, PTL

(* Each of its pixels has been convolved with the whole window around it,  *)
(* as far as the window ends a border before the edge.                     *)
THEOREM Convolution == Directory /\ Fitting => (Spec => []ConvolvedInside)
<1> SUFFICES ASSUME Directory, Fitting PROVE Spec => []ConvolvedInside
  OBVIOUS
<1>1. ASSUME Complete PROVE ConvolvedInside
  <2> SUFFICES ASSUME NEW r \in saved, NEW p \in Interior(sizes[r.call]),
                      Window(p) \subseteq Rect(0, 0, sizes[r.call].w - Border,
                                                     sizes[r.call].h - Border)
               PROVE  Inputs(r.pixels[p], p) = Window(p)
    BY DEF ConvolvedInside
  <2>1. r.call \in 1 .. started /\ Shape
    BY <1>1 DEF Complete, SavedRight
  <2>2. r.call \in Calls /\ r.call <= started
    BY <2>1, Ranges DEF Shape, Calls
  <2>3. sizes[r.call] \in Sizes
    BY <2>1, <2>2, Asked
  <2>4. p \in Covered(sizes[r.call])
    <3> DEFINE w == sizes[r.call].w
               h == sizes[r.call].h
    <3>1. w \in Nat /\ h \in Nat /\ Border \in Nat
      BY <2>3, GridSize, Constants
    <3>2. p \in Rect(Border, Border, w - 2 * Border, h - 2 * Border)
      BY DEF Interior
    <3> HIDE DEF w, h
    <3>3. PICK a, b \in Int : /\ p = <<a, b>>
                              /\ Border <= a /\ a < Border + (w - 2 * Border)
                              /\ Border <= b /\ b < Border + (h - 2 * Border)
      BY <3>1, <3>2, InRect
    <3>4. a < Border + (w - Border) /\ b < Border + (h - Border)
      BY <3>1, <3>3
    <3>5. w - Border \in Int /\ h - Border \in Int /\ Border \in Int
      BY <3>1
    <3>6. p \in Rect(Border, Border, w - Border, h - Border)
      BY <3>3, <3>4, <3>5, InRect
    <3>7. QED
      BY <3>6 DEF Covered, w, h
  <2>5. QED
    BY <1>1, <2>4, SavedPixel, WindowInside
<1>2. QED
  BY <1>1, AlwaysComplete, PTL
=============================================================================
