----------------------------- MODULE SliceProofs -----------------------------
(***************************************************************************)
(* Proofs about how CellCV cuts an image, for every number of slices,      *)
(* every width and every border: the slices lie side by side and cover the *)
(* image, none reaches beyond it, a transfer never moves part of a unit,   *)
(* and the elaborated slices, joined, are the elaborated image.            *)
(*                                                                         *)
(* Where a slice starts is a sum, so it is proved by induction: there is   *)
(* no least slice for which the sum is not the closed form.                *)
(***************************************************************************)
EXTENDS CellCV, TLAPS, WellFoundedInduction, FiniteSetTheorems

(* The numbers of the SPUs are numbers.                                    *)
LEMMA Ids ==
  /\ SliceIds \subseteq Nat /\ Threads \in Nat
  /\ \A n \in SliceIds : n <= Threads - 1
BY SlicesAssumption DEF SliceIds

(* Numbers have a least one: induction, without an operator as parameter.  *)
LEMMA LeastNumber ==
  ASSUME NEW T, T \subseteq Nat, T # {}
  PROVE  \E m \in T : \A k \in T : m <= k
<1> DEFINE R == OpToRel(<, Nat)
<1>1. IsWellFoundedOn(R, Nat)
  BY NatLessThanWellFounded
<1>2. R = {p \in Nat \X Nat : p[1] < p[2]}
  BY DEF OpToRel
<1> HIDE DEF R
<1>3. PICK m \in T : \A k \in T : <<k, m>> \notin R
  BY <1>1, WFMin
<1>4. ASSUME NEW k \in T PROVE m <= k
  <2>1. k \in Nat /\ m \in Nat
    OBVIOUS
  <2>2. k < m => <<k, m>> \in R
    BY <1>2, <2>1
  <2>3. QED
    BY <1>3, <2>1, <2>2
<1>5. QED
  BY <1>4

(* Where slice n starts, in a closed form: n equal slices, and a column    *)
(* more for each of them that is wider.                                    *)
Wider(wd, n) == IF n < wd % Threads THEN n ELSE wd % Threads
Start(wd, n) == n * (wd \div Threads) + Wider(wd, n)

(* Division with rest.                                                     *)
LEMMA Division ==
  ASSUME NEW wd \in Nat, NEW t \in Nat \ {0}
  PROVE  /\ wd \div t \in Nat /\ wd % t \in 0 .. t - 1
         /\ wd = t * (wd \div t) + (wd % t)
OBVIOUS

(* What the slices have in common.                                         *)
LEMMA Shares ==
  ASSUME NEW wd \in Nat
  PROVE  /\ Threads \in Nat \ {0}
         /\ wd \div Threads \in Nat /\ wd % Threads \in Nat /\ wd % Threads < Threads
         /\ wd = Threads * (wd \div Threads) + (wd % Threads)
<1>1. Threads \in Nat \ {0}
  BY SlicesAssumption
<1>2. QED
  BY <1>1, Division

(* A slice is not narrower than its share, nor wider by more than one.     *)
LEMMA ColumnsType ==
  ASSUME NEW wd \in Nat, NEW n \in SliceIds
  PROVE  Columns(wd, n) \in Nat /\ Columns(wd, n) >= wd \div Threads
<1> DEFINE q == wd \div Threads
           r == wd % Threads
<1>1. q \in Nat /\ r \in Nat /\ n \in Nat
  BY Ids, Shares
<1>2. Columns(wd, n) = q + (IF r > n THEN 1 ELSE 0)
  BY DEF Columns
<1> HIDE DEF q, r
<1>3. QED
  BY <1>1, <1>2 DEF q

(* A slice starts where the one before it ends.                            *)
LEMMA NextStart ==
  ASSUME NEW wd \in Nat, NEW n \in SliceIds
  PROVE  /\ Start(wd, n) \in Nat
         /\ Start(wd, n + 1) = Start(wd, n) + Columns(wd, n)
<1> DEFINE q == wd \div Threads
           r == wd % Threads
<1>1. q \in Nat /\ r \in Nat /\ n \in Nat
  BY Ids, Shares
<1> HIDE DEF q, r
<1>2. n * q \in Nat /\ (n + 1) * q = n * q + q
  BY <1>1
<1>3. Columns(wd, n) = q + (IF r > n THEN 1 ELSE 0)
  BY DEF Columns, q, r
<1>4. /\ Start(wd, n) = n * q + (IF n < r THEN n ELSE r)
      /\ Start(wd, n + 1) = (n + 1) * q + (IF n + 1 < r THEN n + 1 ELSE r)
  BY DEF Start, Wider, q, r
<1>5. QED
  BY <1>1, <1>2, <1>3, <1>4

(* The loops of the code compute it.                                       *)
LEMMA StartsClosed ==
  ASSUME NEW wd \in Nat, NEW widths,
         \A k \in SliceIds : widths[k] = Columns(wd, k)
  PROVE  \A n \in SliceIds : Starts(widths)[n] = Start(wd, n)
<1> DEFINE P(g) == g = [n \in SliceIds |-> IF n = 0 THEN 0 ELSE g[n - 1] + widths[n - 1]]
           g0 == [n \in SliceIds |-> Start(wd, n)]
           g1 == Starts(widths)
<1>0. Threads \in Nat /\ Threads > 1 /\ SliceIds = 0 .. Threads - 1
  BY SlicesAssumption DEF SliceIds
<1>1. g1 = CHOOSE g : P(g)
  BY DEF Starts
<1>2. P(g0)
  <2>1. ASSUME NEW n \in SliceIds
        PROVE  Start(wd, n) = IF n = 0 THEN 0 ELSE g0[n - 1] + widths[n - 1]
    <3>1. CASE n = 0
      <4>1. Threads \in Nat \ {0}
        BY <1>0
      <4>2. wd \div Threads \in Nat /\ wd % Threads \in 0 .. Threads - 1
        BY <4>1, Division
      <4>3. QED
        BY <1>0, <3>1, <4>2 DEF Start, Wider
    <3>2. CASE n # 0
      <4>1. n - 1 \in SliceIds /\ (n - 1) + 1 = n
        BY <1>0, <3>2
      <4>2. Start(wd, n) = Start(wd, n - 1) + Columns(wd, n - 1)
        BY <4>1, NextStart
      <4>3. QED
        BY <3>2, <4>1, <4>2
    <3>3. QED
      BY <3>1, <3>2
  <2>2. QED
    BY <2>1
<1>3. P(g1)
  BY <1>1, <1>2
<1>4. ASSUME NEW n \in SliceIds
      PROVE  g1[n] = IF n = 0 THEN 0 ELSE g1[n - 1] + widths[n - 1]
  BY <1>3
<1> DEFINE Wrong == {n \in SliceIds : g1[n] # Start(wd, n)}
<1> HIDE DEF g1
<1>5. CASE Wrong # {}
  <2>0. Wrong \subseteq Nat
    BY <1>0
  <2>1. PICK m \in Wrong : \A k \in Wrong : m <= k
    BY <1>5, <2>0, LeastNumber
  <2>2. m \in SliceIds /\ g1[m] # Start(wd, m)
    OBVIOUS
  <2>3. m # 0
    BY <1>2, <1>4, <2>2
  <2>4. m - 1 \in SliceIds /\ m - 1 \notin Wrong
    BY <1>0, <2>1, <2>2, <2>3
  <2>5. g1[m - 1] = Start(wd, m - 1)
    BY <2>4
  <2>6. Start(wd, (m - 1) + 1) = Start(wd, m - 1) + Columns(wd, m - 1)
    BY <2>4, NextStart
  <2>7. (m - 1) + 1 = m
    BY <1>0, <2>2
  <2>8. g1[m] = Start(wd, m)
    BY <1>4, <2>2, <2>3, <2>4, <2>5, <2>6, <2>7
  <2>9. QED
    BY <2>2, <2>8
<1>6. QED
  BY <1>5 DEF g1

(* Two slices do not overlap.                                              *)
LEMMA StartsApart ==
  ASSUME NEW wd \in Nat, NEW m \in SliceIds, NEW n \in SliceIds, m < n
  PROVE  Start(wd, m) + Columns(wd, m) <= Start(wd, n)
<1> DEFINE q == wd \div Threads
           r == wd % Threads
<1>1. q \in Nat /\ r \in Nat /\ m \in Nat /\ n \in Nat
  BY Ids, Shares
<1> HIDE DEF q, r
<1>2. /\ Start(wd, m + 1) = (m + 1) * q + (IF m + 1 < r THEN m + 1 ELSE r)
      /\ Start(wd, n) = n * q + (IF n < r THEN n ELSE r)
  BY DEF Start, Wider, q, r
<1>3. (m + 1) * q <= n * q /\ (m + 1) * q \in Nat /\ n * q \in Nat
  <2>1. PICK d \in Nat : n = (m + 1) + d
    <3>1. n - (m + 1) \in Nat /\ n = (m + 1) + (n - (m + 1))
      BY <1>1
    <3>2. QED
      BY <3>1
  <2>2. n * q = (m + 1) * q + d * q
    BY <1>1, <2>1
  <2>3. d * q \in Nat /\ (m + 1) * q \in Nat
    BY <1>1
  <2>4. QED
    BY <2>2, <2>3
<1>4. Start(wd, m + 1) <= Start(wd, n)
  BY <1>1, <1>2, <1>3
<1>5. QED
  BY <1>4, NextStart

(* The slices cover the image.                                             *)
LEMMA WholeWidth ==
  ASSUME NEW wd \in Nat
  PROVE  Start(wd, 0) = 0 /\ Start(wd, Threads) = wd
<1>1. Threads \in Nat \ {0}
  BY SlicesAssumption
<1>2. wd \div Threads \in Nat /\ wd % Threads \in Nat /\ wd % Threads < Threads
      /\ wd = Threads * (wd \div Threads) + (wd % Threads)
  BY Shares
<1>3. QED
  BY <1>1, <1>2 DEF Start, Wider

(* Each column lies in a slice.                                            *)
LEMMA SliceOf ==
  ASSUME NEW wd \in Nat, NEW x \in 0 .. wd - 1
  PROVE  \E n \in SliceIds : x - Start(wd, n) \in 0 .. Columns(wd, n) - 1
<1> DEFINE T == {n \in 0 .. Threads : x < Start(wd, n)}
<1>1. Threads \in Nat /\ SliceIds = 0 .. Threads - 1
  BY SlicesAssumption DEF SliceIds
<1>2. Threads \in T
  BY <1>1, WholeWidth
<1>3. T \subseteq Nat /\ T # {}
  BY <1>1, <1>2
<1>4. PICK m \in T : \A k \in T : m <= k
  BY <1>3, LeastNumber
<1>5. m \in 0 .. Threads /\ x < Start(wd, m)
  OBVIOUS
<1>6. m # 0
  BY <1>5, WholeWidth
<1>7. m - 1 \in SliceIds /\ m - 1 \in 0 .. Threads /\ ~ (m <= m - 1)
  BY <1>1, <1>5, <1>6
<1>8. ~ (x < Start(wd, m - 1))
  BY <1>4, <1>7
<1>9. Start(wd, m - 1) \in Nat /\ Start(wd, (m - 1) + 1) = Start(wd, m - 1) + Columns(wd, m - 1)
  BY <1>7, NextStart
<1>10. (m - 1) + 1 = m
  BY <1>1, <1>5
<1>11. Columns(wd, m - 1) \in Nat
  BY <1>7, ColumnsType
<1>12. x - Start(wd, m - 1) \in 0 .. Columns(wd, m - 1) - 1
  BY <1>5, <1>8, <1>9, <1>10, <1>11
<1>13. QED
  BY <1>7, <1>12

(* It lies in only one.                                                    *)
LEMMA OneSlice ==
  ASSUME NEW wd \in Nat, NEW x \in Int, NEW m \in SliceIds, NEW n \in SliceIds,
         x - Start(wd, m) \in 0 .. Columns(wd, m) - 1,
         x - Start(wd, n) \in 0 .. Columns(wd, n) - 1
  PROVE  m = n
<1>1. Start(wd, m) \in Nat /\ Start(wd, n) \in Nat /\ m \in Nat /\ n \in Nat
  BY NextStart, Ids
<1>2. Columns(wd, m) \in Nat /\ Columns(wd, n) \in Nat
  BY ColumnsType
<1>3. ~ (m < n) /\ ~ (n < m)
  BY <1>1, <1>2, StartsApart
<1>4. QED
  BY <1>1, <1>3

(* A slice is inside the image, and it is at least as wide as a border.    *)
LEMMA ColumnsOf ==
  ASSUME NEW wd \in Widths, NEW n \in SliceIds
  PROVE  /\ wd \in Nat
         /\ Columns(wd, n) \in Nat /\ Columns(wd, n) >= 1 /\ Columns(wd, n) >= Border
         /\ Start(wd, n) \in Nat
         /\ Start(wd, n) + Columns(wd, n) <= wd
         /\ n = 0 => Start(wd, n) = 0
         /\ n # 0 => Start(wd, n) >= Border
         /\ n # Threads - 1 => Start(wd, n) + Columns(wd, n) + Border <= wd
         /\ n = Threads - 1 => Start(wd, n) + Columns(wd, n) = wd
<1> DEFINE T == Threads - 1
<1>0. /\ wd \in Nat /\ wd >= Threads /\ wd \div Threads >= Border
      /\ Threads \in Nat \ {0} /\ Threads > 1 /\ Border \in Nat \ {0}
  BY CellCVAssumption, SlicesAssumption
<1>1. wd \div Threads \in Nat /\ wd \div Threads >= 1
  BY <1>0
<1>2. \A k \in SliceIds : /\ Columns(wd, k) \in Nat
                          /\ Columns(wd, k) >= 1 /\ Columns(wd, k) >= Border
                          /\ Start(wd, k) \in Nat
                          /\ Start(wd, k + 1) = Start(wd, k) + Columns(wd, k)
  <2>1. ASSUME NEW k \in SliceIds
        PROVE  Columns(wd, k) \in Nat /\ Columns(wd, k) >= wd \div Threads
    BY <1>0, ColumnsType
  <2>2. QED
    BY <1>0, <1>1, <2>1, NextStart
<1>3. 0 \in SliceIds /\ T \in SliceIds /\ T + 1 = Threads /\ n \in Nat /\ n <= T /\ T \in Nat
  BY <1>0 DEF SliceIds
<1>4. Start(wd, T) + Columns(wd, T) = wd
  BY <1>0, <1>2, <1>3, WholeWidth
<1>5. n # T => Start(wd, n) + Columns(wd, n) <= Start(wd, T)
  BY <1>0, <1>3, StartsApart
<1>6. n # 0 => Start(wd, 0) + Columns(wd, 0) <= Start(wd, n)
  BY <1>0, <1>3, StartsApart
<1>7. Start(wd, 0) = 0
  BY <1>0, WholeWidth
<1> HIDE DEF T
<1>8. n # T => Start(wd, n) + Columns(wd, n) + Border <= wd
  BY <1>0, <1>2, <1>3, <1>4, <1>5
<1>9. n # 0 => Start(wd, n) >= Border
  BY <1>0, <1>2, <1>3, <1>6, <1>7
<1>10. Start(wd, n) + Columns(wd, n) <= wd
  BY <1>0, <1>2, <1>3, <1>4, <1>5
<1>11. QED
  BY <1>0, <1>2, <1>4, <1>7, <1>8, <1>9, <1>10 DEF T
-----------------------------------------------------------------------------
(* The image of frame f, the width of a slice with its borders, and where  *)
(* its place j comes from.                                                 *)
Row(wd, f) == [x \in 0 .. wd - 1 |-> Pixel(f, x)]
Wide(wd, n) == Columns(wd, n) + Borders(n)
Size(wd, n) == NextMultiple(Wide(wd, n))
Origin(wd, n, j) == Start(wd, n) + j - LeftBorder(n)
Given(wd, f, n) == SliceData(Row(wd, f), wd, n)
Made(wd, f, n) == Elaborate(Given(wd, f, n), Wide(wd, n))

(* The struct of a slice says so.                                          *)
LEMMA StructFields ==
  ASSUME NEW wd, NEW n, NEW b
  PROVE  /\ SliceStruct(wd, n, b).data = b
         /\ SliceStruct(wd, n, b).w = Wide(wd, n)
         /\ SliceStruct(wd, n, b).bytesAllocated = Size(wd, n)
         /\ SliceStruct(wd, n, b) = [data |-> b, w |-> Wide(wd, n), bytesAllocated |-> Size(wd, n)]
BY DEF SliceStruct, Wide, Size

(* The size is rounded up to what a transfer can move.                     *)
LEMMA Rounded ==
  ASSUME NEW size \in Nat
  PROVE  /\ NextMultiple(size) \in Nat /\ NextMultiple(size) >= size
         /\ \E q \in Nat : NextMultiple(size) = q * Alignment
<1> DEFINE a == size + Alignment - 1
           q == a \div Alignment
<1>1. Alignment \in Nat \ {0} /\ a \in Nat
  BY SlicesAssumption
<1>2. NextMultiple(size) = q * Alignment
  BY DEF NextMultiple
<1>3. q \in Nat /\ a % Alignment \in 0 .. Alignment - 1
      /\ a = Alignment * q + (a % Alignment)
  BY <1>1, Division
<1>4. a = size + Alignment - 1
  OBVIOUS
<1> HIDE DEF a, q
<1>5. q * Alignment = Alignment * q /\ q * Alignment \in Nat
  BY <1>1, <1>3
<1>6. q * Alignment >= size
  BY <1>1, <1>3, <1>4, <1>5
<1>7. QED
  BY <1>2, <1>3, <1>5, <1>6

(* Where the place of a slice comes from is inside the image.              *)
LEMMA Origins ==
  ASSUME NEW wd \in Widths, NEW n \in SliceIds
  PROVE  /\ Wide(wd, n) \in Nat /\ Wide(wd, n) >= 1
         /\ \A j \in 0 .. Wide(wd, n) - 1 : Origin(wd, n, j) \in 0 .. wd - 1
<1>1. /\ Threads \in Nat \ {0} /\ Threads > 1 /\ Border \in Nat \ {0}
      /\ n \in Nat /\ n <= Threads - 1
  BY Ids, SlicesAssumption
<1>2. /\ Borders(n) = IF n = 0 \/ n = Threads - 1 THEN Border ELSE 2 * Border
      /\ LeftBorder(n) = IF n = 0 THEN 0 ELSE Border
  BY DEF Borders, LeftBorder
<1>3. /\ wd \in Nat
      /\ Columns(wd, n) \in Nat /\ Columns(wd, n) >= 1
      /\ Start(wd, n) \in Nat
      /\ n = 0 => Start(wd, n) = 0
      /\ n # 0 => Start(wd, n) >= Border
      /\ n # Threads - 1 => Start(wd, n) + Columns(wd, n) + Border <= wd
      /\ n = Threads - 1 => Start(wd, n) + Columns(wd, n) = wd
  BY ColumnsOf
<1>4. Wide(wd, n) \in Nat /\ Wide(wd, n) >= 1
  BY <1>1, <1>2, <1>3 DEF Wide
<1>5. ASSUME NEW j \in 0 .. Wide(wd, n) - 1
      PROVE  Origin(wd, n, j) \in 0 .. wd - 1
  <2>1. j \in Nat /\ j < Columns(wd, n) + Borders(n)
    BY <1>4 DEF Wide
  <2>2. Origin(wd, n, j) = Start(wd, n) + j - LeftBorder(n)
    BY DEF Origin
  <2>3. CASE n = 0
    BY <1>1, <1>2, <1>3, <2>1, <2>2, <2>3
  <2>4. CASE n = Threads - 1
    BY <1>1, <1>2, <1>3, <2>1, <2>2, <2>4
  <2>5. CASE n # 0 /\ n # Threads - 1
    BY <1>1, <1>2, <1>3, <2>1, <2>2, <2>5
  <2>6. QED
    BY <2>3, <2>4, <2>5
<1>6. QED
  BY <1>4, <1>5

(* What a slice is made of.                                                *)
LEMMA GivenValues ==
  ASSUME NEW wd \in Widths, NEW f, NEW n \in SliceIds
  PROVE  /\ Size(wd, n) \in Nat /\ Size(wd, n) >= Wide(wd, n)
         /\ DOMAIN Given(wd, f, n) = 0 .. Size(wd, n) - 1
         /\ \A j \in 0 .. Wide(wd, n) - 1 : Given(wd, f, n)[j] = Pixel(f, Origin(wd, n, j))
         /\ \A j \in Wide(wd, n) .. Size(wd, n) - 1 : Given(wd, f, n)[j] = Unset
<1> DEFINE s == SliceStruct(wd, n, 0)
           xstart == Starts([k \in SliceIds |-> Columns(wd, k)])[n]
<1>1. s.w = Wide(wd, n) /\ s.bytesAllocated = Size(wd, n)
  BY StructFields
<1>2. xstart = Start(wd, n)
  <2> DEFINE widths == [k \in SliceIds |-> Columns(wd, k)]
  <2>1. wd \in Nat /\ \A k \in SliceIds : widths[k] = Columns(wd, k)
    BY CellCVAssumption
  <2> HIDE DEF widths
  <2>2. Starts(widths)[n] = Start(wd, n)
    BY <2>1, StartsClosed
  <2>3. QED
    BY <2>2 DEF widths
<1>3. Given(wd, f, n) =
        [j \in 0 .. s.bytesAllocated - 1 |->
           IF j < s.w THEN GetPixel(Row(wd, f), xstart + j - LeftBorder(n)) ELSE Unset]
  BY DEF Given, SliceData
<1> HIDE DEF s, xstart
<1>4. Given(wd, f, n) =
        [j \in 0 .. Size(wd, n) - 1 |->
           IF j < Wide(wd, n) THEN GetPixel(Row(wd, f), Start(wd, n) + j - LeftBorder(n)) ELSE Unset]
  BY <1>1, <1>2, <1>3
<1>5. /\ Wide(wd, n) \in Nat
      /\ \A j \in 0 .. Wide(wd, n) - 1 : Origin(wd, n, j) \in 0 .. wd - 1
  BY Origins
<1>6. Size(wd, n) \in Nat /\ Size(wd, n) >= Wide(wd, n)
  BY <1>5, Rounded DEF Size
<1>7. ASSUME NEW j \in 0 .. Wide(wd, n) - 1
      PROVE  Given(wd, f, n)[j] = Pixel(f, Origin(wd, n, j))
  <2>1. j \in 0 .. Size(wd, n) - 1 /\ j < Wide(wd, n)
    BY <1>5, <1>6
  <2>2. Given(wd, f, n)[j] = GetPixel(Row(wd, f), Origin(wd, n, j))
    BY <1>4, <2>1 DEF Origin
  <2>3. QED
    BY <1>5, <2>2 DEF GetPixel, Row
<1>8. ASSUME NEW j \in Wide(wd, n) .. Size(wd, n) - 1
      PROVE  Given(wd, f, n)[j] = Unset
  <2>1. j \in 0 .. Size(wd, n) - 1 /\ ~ (j < Wide(wd, n))
    BY <1>5, <1>6
  <2>2. QED
    BY <1>4, <2>1
<1>9. QED
  BY <1>4, <1>6, <1>7, <1>8

(* What the elaboration makes of it.                                       *)
LEMMA MadeValues ==
  ASSUME NEW wd \in Widths, NEW f, NEW n \in SliceIds
  PROVE  /\ DOMAIN Made(wd, f, n) = 0 .. Size(wd, n) - 1
         /\ \A j \in 0 .. Wide(wd, n) - 2 :
              Made(wd, f, n)[j] = Differ(Pixel(f, Origin(wd, n, j)), Pixel(f, Origin(wd, n, j) + 1))
         /\ Made(wd, f, n)[Wide(wd, n) - 1] = Pixel(f, Origin(wd, n, Wide(wd, n) - 1))
         /\ \A j \in Wide(wd, n) .. Size(wd, n) - 1 : Made(wd, f, n)[j] = Unset
<1> DEFINE w == Wide(wd, n)
           d == Given(wd, f, n)
<1>1. /\ w \in Nat /\ w >= 1
      /\ \A j \in 0 .. w - 1 : Origin(wd, n, j) \in 0 .. wd - 1
  BY Origins
<1>2. /\ Size(wd, n) \in Nat /\ Size(wd, n) >= w
      /\ DOMAIN d = 0 .. Size(wd, n) - 1
      /\ \A j \in 0 .. w - 1 : d[j] = Pixel(f, Origin(wd, n, j))
      /\ \A j \in w .. Size(wd, n) - 1 : d[j] = Unset
  BY GivenValues
<1>3. Made(wd, f, n) = [j \in DOMAIN d |-> IF j < w - 1 THEN Differ(d[j], d[j + 1]) ELSE d[j]]
  BY DEF Made, Elaborate
<1> HIDE DEF w, d
<1>4. ASSUME NEW j \in 0 .. w - 2
      PROVE  Made(wd, f, n)[j] = Differ(Pixel(f, Origin(wd, n, j)), Pixel(f, Origin(wd, n, j) + 1))
  <2>1. j \in DOMAIN d /\ j < w - 1 /\ j \in 0 .. w - 1 /\ j + 1 \in 0 .. w - 1
    BY <1>1, <1>2
  <2>2. Origin(wd, n, j + 1) = Origin(wd, n, j) + 1
    <3>1. Start(wd, n) \in Nat /\ LeftBorder(n) \in Nat /\ j \in Nat
      BY <2>1, ColumnsOf, SlicesAssumption DEF LeftBorder
    <3>2. QED
      BY <3>1 DEF Origin
  <2>3. d[j] = Pixel(f, Origin(wd, n, j)) /\ d[j + 1] = Pixel(f, Origin(wd, n, j) + 1)
    BY <1>2, <2>1, <2>2
  <2>4. QED
    BY <1>3, <2>1, <2>3
<1>5. Made(wd, f, n)[w - 1] = Pixel(f, Origin(wd, n, w - 1))
  <2>1. w - 1 \in DOMAIN d /\ ~ (w - 1 < w - 1) /\ w - 1 \in 0 .. w - 1
    BY <1>1, <1>2
  <2>2. QED
    BY <1>2, <1>3, <2>1
<1>6. ASSUME NEW j \in w .. Size(wd, n) - 1
      PROVE  Made(wd, f, n)[j] = Unset
  <2>1. j \in DOMAIN d /\ ~ (j < w - 1)
    BY <1>1, <1>2
  <2>2. QED
    BY <1>2, <1>3, <2>1
<1>7. QED
  BY <1>2, <1>3, <1>4, <1>5, <1>6 DEF w
-----------------------------------------------------------------------------
(* A pixel of an image, or what is made of two, is not from next to it.    *)
LEMMA PixelsInside ==
  ASSUME NEW f, NEW x \in Nat, NEW y
  PROVE  Unset # Outside /\ Pixel(f, x) # Outside /\ Differ(Pixel(f, x), Pixel(f, y)) # Outside
<1>1. Len(Outside) = 1 /\ Len(Unset) = 0 /\ Len(Differ(Pixel(f, x), Pixel(f, y))) = 2
  BY DEF Outside, Unset, Differ, Pixel
<1>2. Pixel(f, x) # Outside
  <2>1. Pixel(f, x)[1].x = x /\ Outside[1].x = -1
    BY DEF Pixel, Outside
  <2>2. QED
    BY <2>1
<1>3. Unset # Outside
  BY <1>1
<1>4. Differ(Pixel(f, x), Pixel(f, y)) # Outside
  BY <1>1
<1>5. QED
  BY <1>2, <1>3, <1>4

(* No slice reaches beyond its image.                                      *)
LEMMA SlicesInside ==
  ASSUME NEW wd \in Widths, NEW f, NEW n \in SliceIds, NEW j \in 0 .. Size(wd, n) - 1
  PROVE  Given(wd, f, n)[j] # Outside /\ Made(wd, f, n)[j] # Outside
<1>1. /\ Wide(wd, n) \in Nat /\ Wide(wd, n) >= 1
      /\ \A k \in 0 .. Wide(wd, n) - 1 : Origin(wd, n, k) \in Nat
      /\ Size(wd, n) \in Nat
  <2>1. wd \in Nat
    BY CellCVAssumption
  <2>2. 0 .. wd - 1 \subseteq Nat
    BY <2>1
  <2>3. QED
    BY <2>2, Origins, GivenValues
<1>2. CASE j \in 0 .. Wide(wd, n) - 2
  <2>1. j \in 0 .. Wide(wd, n) - 1 /\ Origin(wd, n, j) \in Nat
    BY <1>1, <1>2
  <2>2. QED
    BY <1>2, <2>1, GivenValues, MadeValues, PixelsInside
<1>3. CASE j = Wide(wd, n) - 1
  <2>1. j \in 0 .. Wide(wd, n) - 1 /\ Origin(wd, n, j) \in Nat
    BY <1>1, <1>3
  <2>2. QED
    BY <1>3, <2>1, GivenValues, MadeValues, PixelsInside
<1>4. CASE j \in Wide(wd, n) .. Size(wd, n) - 1
  BY <1>4, GivenValues, MadeValues, PixelsInside
<1>5. QED
  BY <1>1, <1>2, <1>3, <1>4

(* The largest number of an interval from 0 on.                            *)
LEMMA MaxOfRange ==
  ASSUME NEW a \in Int, NEW b \in Int, a <= b
  PROVE  Max(a .. b) = b
<1>1. Max(a .. b) = CHOOSE x \in a .. b : \A y \in a .. b : x >= y
  BY DEF Max
<1>2. b \in a .. b /\ \A y \in a .. b : b >= y
  OBVIOUS
<1>3. \A x \in a .. b : (\A y \in a .. b : x >= y) => x = b
  OBVIOUS
<1>4. QED
  BY <1>1, <1>2, <1>3

(* The largest of one number.                                              *)
LEMMA MaxOfOne ==
  ASSUME NEW a \in Int
  PROVE  Max({a}) = a
BY DEF Max

(* The place of a column in its slice holds what the whole is to have      *)
(* there.                                                                  *)
LEMMA SlicePixel ==
  ASSUME NEW wd \in Widths, NEW f, NEW n \in SliceIds, NEW x \in 0 .. wd - 1,
         NEW i \in 0 .. Columns(wd, n) - 1, x = Start(wd, n) + i
  PROVE  /\ i + LeftBorder(n) \in 0 .. Size(wd, n) - 1
         /\ x < wd - 1 => Made(wd, f, n)[i + LeftBorder(n)] = Differ(Pixel(f, x), Pixel(f, x + 1))
         /\ ~ (x < wd - 1) => Made(wd, f, n)[i + LeftBorder(n)] = Pixel(f, x)
<1> DEFINE j == i + LeftBorder(n)
           last == n = Threads - 1
<1>1. /\ wd \in Nat /\ Columns(wd, n) \in Nat /\ Start(wd, n) \in Nat
      /\ last => Start(wd, n) + Columns(wd, n) = wd
      /\ ~last => Start(wd, n) + Columns(wd, n) + Border <= wd
  BY ColumnsOf
<1>2. /\ Border \in Nat \ {0} /\ LeftBorder(n) \in Nat
      /\ last => Borders(n) = LeftBorder(n)
      /\ ~last => Borders(n) = LeftBorder(n) + Border
  <2>1. Border \in Nat \ {0} /\ Threads > 1 /\ Threads \in Nat
    BY SlicesAssumption
  <2>2. QED
    BY <2>1 DEF LeftBorder, Borders
<1>3. Wide(wd, n) = Columns(wd, n) + Borders(n)
  BY DEF Wide
<1>4. Size(wd, n) \in Nat /\ Size(wd, n) >= Wide(wd, n)
  BY GivenValues
<1>5. i \in Nat /\ i < Columns(wd, n) /\ j = i + LeftBorder(n) /\ j \in Nat
  BY <1>1, <1>2
<1>6. Origin(wd, n, j) = x
  BY <1>1, <1>2, <1>5 DEF Origin
<1> HIDE DEF j, last
<1>7. Wide(wd, n) \in Nat /\ j < Wide(wd, n) /\ (x < wd - 1 <=> j < Wide(wd, n) - 1)
  <2>1. CASE last
    BY <1>1, <1>2, <1>3, <1>5, <2>1
  <2>2. CASE ~last
    BY <1>1, <1>2, <1>3, <1>5, <2>2
  <2>3. QED
    BY <2>1, <2>2
<1>8. j \in 0 .. Size(wd, n) - 1
  BY <1>4, <1>5, <1>7
<1>9. CASE x < wd - 1
  <2>1. j \in 0 .. Wide(wd, n) - 2
    BY <1>5, <1>7, <1>9
  <2>2. QED
    BY <1>6, <1>8, <1>9, <2>1, MadeValues DEF j
<1>10. CASE ~ (x < wd - 1)
  <2>1. j = Wide(wd, n) - 1
    BY <1>5, <1>7, <1>10
  <2>2. QED
    BY <1>6, <1>8, <1>10, <2>1, MadeValues DEF j
<1>11. QED
  BY <1>9, <1>10

(* The elaborated slices, joined, are the elaborated image: each column of *)
(* it is in one slice, and the border holds the column next to the last.   *)
THEOREM JoinedSlices ==
  ASSUME NEW wd \in Widths, NEW f, NEW s, NEW data, NEW img,
         DOMAIN img = 0 .. wd - 1,
         \A n \in SliceIds : s[n].w = Wide(wd, n) /\ data[n] = Made(wd, f, n)
  PROVE  Join(s, data, img) = Result(Row(wd, f))
<1>0. /\ wd \in Nat /\ wd >= 1 /\ SliceIds \subseteq Nat /\ Threads \in Nat
      /\ Threads > 1 /\ Border \in Nat \ {0}
  BY Ids, CellCVAssumption, SlicesAssumption
<1>1. ASSUME NEW n \in SliceIds
      PROVE  RealWidth(s, n) = Columns(wd, n) /\ Columns(wd, n) \in Nat /\ Borders(n) \in Nat
  <2>1. Columns(wd, n) \in Nat /\ Borders(n) \in Nat
    BY <1>0, ColumnsOf DEF Borders
  <2>2. QED
    BY <2>1 DEF RealWidth, Wide
<1>2. \A n \in SliceIds : JoinStart(s, n) = Start(wd, n)
  <2> DEFINE widths == [k \in SliceIds |-> RealWidth(s, k)]
  <2>1. \A k \in SliceIds : widths[k] = Columns(wd, k)
    BY <1>1
  <2>2. \A n \in SliceIds : JoinStart(s, n) = Starts(widths)[n]
    BY DEF JoinStart
  <2> HIDE DEF widths
  <2>3. QED
    BY <1>0, <2>1, <2>2, StartsClosed
<1> DEFINE last == wd - 1
           row == Row(wd, f)
           slices(x) == {n \in SliceIds : x - JoinStart(s, n) \in 0 .. RealWidth(s, n) - 1}
           from(x) == Max(slices(x))
<1>3. Join(s, data, img) =
        [x \in 0 .. wd - 1 |->
           IF slices(x) = {} THEN img[x]
           ELSE GetPixel(data[from(x)], x - JoinStart(s, from(x)) + LeftBorder(from(x)))]
  BY DEF Join
<1>4. Result(row) = [x \in 0 .. wd - 1 |-> IF x < last THEN Differ(row[x], row[x + 1]) ELSE row[x]]
  <2>1. DOMAIN row = 0 .. wd - 1 /\ Max(0 .. wd - 1) = last
    BY <1>0, MaxOfRange DEF Row
  <2>2. QED
    BY <2>1 DEF Result
<1>5. ASSUME NEW x \in 0 .. wd - 1
      PROVE  \E n \in SliceIds : /\ slices(x) # {} /\ from(x) = n
                                 /\ x - Start(wd, n) \in 0 .. Columns(wd, n) - 1
  <2>1. PICK n \in SliceIds : x - Start(wd, n) \in 0 .. Columns(wd, n) - 1
    BY <1>0, SliceOf
  <2>2. \A m \in SliceIds : x - Start(wd, m) \in 0 .. Columns(wd, m) - 1 => m = n
    BY <1>0, <2>1, OneSlice
  <2>3. slices(x) = {n}
    BY <1>1, <1>2, <2>1, <2>2
  <2>4. n \in Int
    BY <1>0
  <2>5. QED
    BY <2>1, <2>3, <2>4, MaxOfOne
<1>6. ASSUME NEW n \in SliceIds, NEW x \in 0 .. wd - 1,
             x - Start(wd, n) \in 0 .. Columns(wd, n) - 1
      PROVE  GetPixel(data[n], x - Start(wd, n) + LeftBorder(n)) = Result(row)[x]
  <2> DEFINE i == x - Start(wd, n)
  <2>1. i \in 0 .. Columns(wd, n) - 1 /\ x = Start(wd, n) + i
    <3>1. Start(wd, n) \in Nat /\ x \in Int
      BY <1>0, ColumnsOf
    <3>2. x = Start(wd, n) + (x - Start(wd, n))
      BY <3>1
    <3>3. i \in 0 .. Columns(wd, n) - 1
      BY <1>6
    <3>4. QED
      BY <3>2, <3>3
  <2>2. row[x] = Pixel(f, x) /\ (x < last => row[x + 1] = Pixel(f, x + 1))
    BY <1>0 DEF Row
  <2> HIDE DEF i
  <2>3. GetPixel(data[n], i + LeftBorder(n)) = Made(wd, f, n)[i + LeftBorder(n)]
    <3>1. i + LeftBorder(n) \in DOMAIN data[n]
      <4>1. DOMAIN data[n] = 0 .. Size(wd, n) - 1
        BY MadeValues
      <4>2. QED
        BY <2>1, <4>1, SlicePixel
    <3>2. QED
      BY <3>1 DEF GetPixel
  <2> HIDE DEF row
  <2>4. Result(row)[x] = IF x < last THEN Differ(Pixel(f, x), Pixel(f, x + 1)) ELSE Pixel(f, x)
    BY <1>4, <2>2
  <2>5. QED
    BY <2>1, <2>3, <2>4, SlicePixel DEF i
<1> HIDE DEF slices, last, row
<1>7. ASSUME NEW x \in 0 .. wd - 1
      PROVE  Join(s, data, img)[x] = Result(row)[x]
  <2>1. PICK n \in SliceIds : /\ slices(x) # {} /\ from(x) = n
                              /\ x - Start(wd, n) \in 0 .. Columns(wd, n) - 1
    BY <1>5
  <2>2. Join(s, data, img)[x] = GetPixel(data[n], x - Start(wd, n) + LeftBorder(n))
    BY <1>2, <1>3, <2>1
  <2>3. QED
    BY <1>6, <2>1, <2>2
<1>8. QED
  BY <1>3, <1>4, <1>7 DEF row
-----------------------------------------------------------------------------
(* A multiple of a number leaves no rest.                                  *)
LEMMA MultipleRest ==
  ASSUME NEW d \in Nat \ {0}, NEW q \in Nat
  PROVE  (q * d) % d = 0
<1> DEFINE n == q * d
           a == n \div d
           r == n % d
<1>1. n \in Nat
  OBVIOUS
<1>2. a \in Nat /\ r \in 0 .. d - 1 /\ n = d * a + r
  BY <1>1, Division
<1>3. n = d * q
  OBVIOUS
<1> HIDE DEF n, a, r
<1>4. ASSUME a < q PROVE FALSE
  <2>1. PICK e \in Nat : q = a + 1 + e
    <3>1. q - (a + 1) \in Nat /\ q = a + 1 + (q - (a + 1))
      BY <1>2, <1>4
    <3>2. QED
      BY <3>1
  <2>2. d * q = d * a + d + d * e
    BY <1>2, <2>1
  <2>3. d * a \in Nat /\ d * e \in Nat /\ d * q \in Nat
    BY <1>2, <2>1
  <2>4. QED
    BY <1>2, <1>3, <2>2, <2>3
<1>5. ASSUME q < a PROVE FALSE
  <2>1. PICK e \in Nat : a = q + 1 + e
    <3>1. a - (q + 1) \in Nat /\ a = q + 1 + (a - (q + 1))
      BY <1>2, <1>5
    <3>2. QED
      BY <3>1
  <2>2. d * a = d * q + d + d * e
    BY <1>2, <2>1
  <2>3. d * a \in Nat /\ d * e \in Nat /\ d * q \in Nat
    BY <1>2, <2>1
  <2>4. QED
    BY <1>2, <1>3, <2>2, <2>3
<1>6. a = q
  BY <1>2, <1>4, <1>5
<1>7. r = 0
  <2>1. d * q \in Nat /\ d * q = d * q + r
    BY <1>2, <1>3, <1>6
  <2>2. QED
    BY <1>2, <2>1
<1>8. QED
  BY <1>7 DEF r, n

(* The smaller of two numbers.                                             *)
LEMMA MinOfTwo ==
  ASSUME NEW a \in Int, NEW b \in Int
  PROVE  Min({a, b}) = IF a <= b THEN a ELSE b
<1> DEFINE m == IF a <= b THEN a ELSE b
<1>1. Min({a, b}) = CHOOSE x \in {a, b} : \A y \in {a, b} : x <= y
  BY DEF Min
<1>2. m \in {a, b} /\ \A y \in {a, b} : m <= y
  OBVIOUS
<1>3. \A x \in {a, b} : (\A y \in {a, b} : x <= y) => x = m
  OBVIOUS
<1>4. QED
  BY <1>1, <1>2, <1>3

Aligned(k) == \E q \in Nat : k = q * Alignment

(* What lies between two aligned places has a size that DMA allows.        *)
LEMMA AlignedRest ==
  ASSUME NEW a \in Nat, NEW b \in Nat, a <= b, Aligned(a), Aligned(b)
  PROVE  (b - a) % Alignment = 0
<1>1. PICK p \in Nat : a = p * Alignment
  BY DEF Aligned
<1>2. PICK q \in Nat : b = q * Alignment
  BY DEF Aligned
<1>3. Alignment \in Nat \ {0}
  BY SlicesAssumption
<1>4. CASE q < p
  <2>1. PICK e \in Nat : p = q + 1 + e
    <3>1. p - (q + 1) \in Nat /\ p = q + 1 + (p - (q + 1))
      BY <1>4
    <3>2. QED
      BY <3>1
  <2>2. p * Alignment = q * Alignment + Alignment + e * Alignment
    BY <1>3, <2>1
  <2>3. q * Alignment \in Nat /\ e * Alignment \in Nat
    BY <1>3
  <2>4. QED
    BY <1>1, <1>2, <1>3, <2>2, <2>3
<1>5. CASE p <= q
  <2>1. PICK e \in Nat : q = p + e
    <3>1. q - p \in Nat /\ q = p + (q - p)
      BY <1>5
    <3>2. QED
      BY <3>1
  <2>2. q * Alignment = p * Alignment + e * Alignment
    BY <1>3, <2>1
  <2>3. p * Alignment \in Nat /\ e * Alignment \in Nat
    BY <1>3
  <2>4. b - a = e * Alignment
    BY <1>1, <1>2, <2>2, <2>3
  <2>5. QED
    BY <1>3, <2>4, MultipleRest
<1>6. QED
  BY <1>4, <1>5

(* Where a transfer from c ends: at the limit, or at the end of the data.  *)
End(c, size) == IF c + Transfer <= size THEN c + Transfer ELSE size

(* It moves a whole number of units, as many as it has room for.           *)
LEMMA OneTransfer ==
  ASSUME NEW c \in Nat, NEW size \in Nat, c < size, Aligned(c), Aligned(size)
  PROVE  /\ Min({c + Transfer, size}) = End(c, size)
         /\ End(c, size) \in Nat /\ c < End(c, size) /\ End(c, size) <= size
         /\ Aligned(End(c, size))
         /\ Max(c .. End(c, size) - 1) = End(c, size) - 1
         /\ Cardinality(c .. End(c, size) - 1) = End(c, size) - c
<1> DEFINE e == End(c, size)
<1>1. Transfer \in Nat \ {0} /\ Transfer % Alignment = 0 /\ Alignment \in Nat \ {0}
  BY CellCVAssumption, SlicesAssumption
<1>2. Min({c + Transfer, size}) = e
  BY <1>1, MinOfTwo DEF End
<1>3. e \in Nat /\ c < e /\ e <= size
  BY <1>1 DEF End
<1>4. Aligned(e)
  <2>1. Aligned(c + Transfer)
    <3>1. PICK p \in Nat : c = p * Alignment
      BY DEF Aligned
    <3> DEFINE t == Transfer \div Alignment
    <3>2. t \in Nat /\ Transfer = Alignment * t + (Transfer % Alignment)
      BY <1>1, Division
    <3> HIDE DEF t
    <3>3. Alignment * t \in Nat
      BY <1>1, <3>2
    <3>4. Transfer = Alignment * t
      BY <1>1, <3>2, <3>3
    <3>5. c + Transfer = (p + t) * Alignment
      BY <1>1, <3>1, <3>2, <3>4
    <3>6. p + t \in Nat
      BY <3>2
    <3>7. QED
      BY <3>5, <3>6 DEF Aligned
  <2>2. QED
    BY <2>1 DEF End
<1> HIDE DEF e
<1>5. Max(c .. e - 1) = e - 1
  BY <1>3, MaxOfRange
<1>6. Cardinality(c .. e - 1) = e - c
  <2>1. Cardinality(c .. e - 1) = IF c > e - 1 THEN 0 ELSE (e - 1) - c + 1
    BY <1>3, FS_Interval
  <2>2. QED
    BY <1>3, <2>1
<1>7. QED
  BY <1>2, <1>3, <1>4, <1>5, <1>6 DEF e
=============================================================================
