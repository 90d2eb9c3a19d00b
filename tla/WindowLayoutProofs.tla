--------------------------- MODULE WindowLayoutProofs ---------------------------
(***************************************************************************)
(* Theorems about WindowLayout, for any number of slots and rows, any      *)
(* screens and any settings.                                               *)
(***************************************************************************)
EXTENDS WindowLayout, FiniteSetTheorems, WellFoundedInduction, TLAPS

\* Induction over the naturals, in the form the provers can use: the least exception.
LEMMA LeastSlot ==
  ASSUME NEW T \in SUBSET Nat, T # {}
  PROVE  \E n \in T : \A m \in T : n <= m
<1>. DEFINE Less == {pair \in Nat \X Nat : pair[1] < pair[2]}
<1>1. IsWellFoundedOn(Less, Nat)
  BY NatLessThanWellFounded DEF OpToRel
<1>2. PICK n \in T : \A m \in T : <<m, n>> \notin Less
  BY <1>1, WFMin, Zenon
<1>3. ASSUME NEW m \in T PROVE n <= m
  <2>1. m \in Nat /\ n \in Nat
    OBVIOUS
  <2>2. ~(m < n)
    BY <1>2, <2>1
  <2>. QED
    BY <2>1, <2>2
<1>. QED
  BY <1>3

\* Where the workers, the windows and the lock may be.
LayoutPlaces ==
  /\ hand \in [Slots -> HandPc]
  /\ shown \subseteq Slots /\ lane \in Slots \cup {-1} /\ halted \in BOOLEAN
  /\ slots = 0 => shown = {} /\ lane = -1 /\ \A s \in Slots : hand[s] = "none"
  /\ \A s \in Slots :
       /\ lane = s => hand[s] \in {"enter", "leave"}
       /\ s \in shown => hand[s] \in {"enter", "work", "closing"}

\* Windows that the last arrangement did not read are another worker's to arrange.
SomebodyWillLook ==
  ~halted /\ shown # {} /\ tiled # shown =>
    \E s \in Slots : hand[s] \in {"enter", "leave"} /\ lane # s

LayoutInv == LayoutPlaces /\ SomebodyWillLook

LEMMA NoSlotIsNone == -1 \notin Slots
BY LayoutAssumption DEF Slots

LEMMA InitLayout == LayoutInit => LayoutInv
BY NoSlotIsNone DEF LayoutInit, LayoutInv, LayoutPlaces, SomebodyWillLook, HandPc

LEMMA PlacesStep ==
  ASSUME LayoutPlaces, [LayoutNext]_layoutVars
  PROVE  LayoutPlaces'
<1>1. CASE \E sc \in Screens \cup {NoScreen}, want \in Wishes, asked \in Requested,
              native, os \in BOOLEAN : LayRun(sc, want, asked, native, os)
  <2>1. /\ slots = 0 /\ hand' = [s \in Slots |-> IF s < slots' THEN "free" ELSE "none"]
        /\ UNCHANGED <<undone, shown, lane, tiled, halted>>
    BY <1>1 DEF LayRun
  <2>. QED
    BY <2>1, NoSlotIsNone, LayoutAssumption DEF LayoutPlaces, HandPc, Slots
<1>2. ASSUME NEW s \in Slots, LayoutStep(s)
      PROVE  LayoutPlaces'
  <2>0. UNCHANGED slots
    BY <1>2
    DEF LayoutStep, OpenedWindow, LeavesPool, ClosedWindow, TakeLane, NothingToLay, Arranged,
        HaltWorker, planVars
  <2>1. CASE OpenedWindow(s)
    BY <2>0, <2>1, NoSlotIsNone DEF OpenedWindow, Put, LayoutPlaces, HandPc
  <2>2. CASE LeavesPool(s)
    BY <2>0, <2>2, NoSlotIsNone DEF LeavesPool, Put, LayoutPlaces, HandPc
  <2>3. CASE ClosedWindow(s)
    BY <2>0, <2>3, NoSlotIsNone DEF ClosedWindow, Put, LayoutPlaces, HandPc
  <2>4. CASE TakeLane(s)
    BY <2>0, <2>4, NoSlotIsNone DEF TakeLane, Waits, LayoutPlaces, HandPc
  <2>5. CASE NothingToLay(s)
    BY <2>0, <2>5, NoSlotIsNone DEF NothingToLay, Waits, GoOn, Put, LayoutPlaces, HandPc
  <2>6. CASE Arranged(s)
    BY <2>0, <2>6, NoSlotIsNone DEF Arranged, GoOn, Put, LayoutPlaces, HandPc
  <2>7. CASE HaltWorker(s)
    BY <2>0, <2>7, NoSlotIsNone DEF HaltWorker, Put, LayoutPlaces, HandPc
  <2>. QED
    BY <1>2, <2>1, <2>2, <2>3, <2>4, <2>5, <2>6, <2>7 DEF LayoutStep
<1>3. CASE HaltBatch
  BY <1>3 DEF HaltBatch, planVars, LayoutPlaces
<1>4. CASE UNCHANGED layoutVars
  BY <1>4 DEF layoutVars, LayoutPlaces
<1>. QED
  BY <1>1, <1>2, <1>3, <1>4 DEF LayoutNext

\* Whoever changes the windows, or waits for the lock, arranges them later.
LEMMA LookStep ==
  ASSUME LayoutInv, [LayoutNext]_layoutVars
  PROVE  SomebodyWillLook'
<1>0. LayoutPlaces /\ SomebodyWillLook
  BY DEF LayoutInv
<1>1. CASE \E sc \in Screens \cup {NoScreen}, want \in Wishes, asked \in Requested,
              native, os \in BOOLEAN : LayRun(sc, want, asked, native, os)
  <2>1. slots = 0 /\ shown' = shown
    BY <1>1 DEF LayRun
  <2>. QED
    BY <1>0, <2>1 DEF LayoutPlaces, SomebodyWillLook
<1>2. ASSUME NEW s \in Slots, LayoutStep(s)
      PROVE  SomebodyWillLook'
  <2>1. CASE OpenedWindow(s)
    <3>1. hand'[s] = "enter" /\ lane' # s
      BY <1>0, <2>1 DEF OpenedWindow, Put, LayoutPlaces
    <3>. QED
      BY <3>1 DEF SomebodyWillLook
  <2>2. CASE LeavesPool(s)
    BY <1>0, <2>2 DEF LeavesPool, Put, LayoutPlaces, SomebodyWillLook
  <2>3. CASE ClosedWindow(s)
    <3>1. hand'[s] = "leave" /\ lane' # s
      BY <1>0, <2>3 DEF ClosedWindow, Put, LayoutPlaces
    <3>. QED
      BY <3>1 DEF SomebodyWillLook
  <2>4. CASE TakeLane(s)
    BY <2>4 DEF TakeLane, SomebodyWillLook
  <2>5. CASE NothingToLay(s)
    BY <2>5 DEF NothingToLay, SomebodyWillLook
  <2>6. CASE Arranged(s)
    BY <1>0, <2>6, NoSlotIsNone DEF Arranged, GoOn, Put, LayoutPlaces, SomebodyWillLook
  <2>7. CASE HaltWorker(s)
    BY <2>7 DEF HaltWorker, SomebodyWillLook
  <2>. QED
    BY <1>2, <2>1, <2>2, <2>3, <2>4, <2>5, <2>6, <2>7 DEF LayoutStep
<1>3. CASE HaltBatch
  BY <1>3 DEF HaltBatch, SomebodyWillLook
<1>4. CASE UNCHANGED layoutVars
  BY <1>0, <1>4 DEF layoutVars, SomebodyWillLook
<1>. QED
  BY <1>1, <1>2, <1>3, <1>4 DEF LayoutNext

LEMMA LayoutInvariance == LayoutSpec => []LayoutInv
<1>1. LayoutInv /\ [LayoutNext]_layoutVars => LayoutInv'
  BY PlacesStep, LookStep DEF LayoutInv
<1>. QED
  BY <1>1, InitLayout, PTL DEF LayoutSpec

\* At rest the last arrangement was about just the active windows, for any number of
\* slots and rows (arrange_active_windows).  A worker of a cancelled batch may leave
\* without its arrangement, but then the windows still active are being closed.
THEOREM ArrangementCatchesUp == LayoutSpec => []LayoutCatchesUp
<1>1. LayoutInv => LayoutCatchesUp
  <2>. SUFFICES ASSUME LayoutInv, AtRest, shown # {}, tiled # shown PROVE FALSE
    BY DEF LayoutCatchesUp
  <2>1. CASE halted
    <3>1. PICK s \in Slots : s \in shown
      BY DEF LayoutInv, LayoutPlaces
    <3>. QED
      BY <2>1, <3>1 DEF LayoutInv, LayoutPlaces, AtRest
  <2>2. CASE ~halted
    BY <2>2 DEF LayoutInv, SomebodyWillLook, AtRest
  <2>. QED
    BY <2>1, <2>2
<1>. QED
  BY <1>1, LayoutInvariance, PTL

\* A window is never larger than its cell, and never without extent (_fit_dimension).
LEMMA FitsCell ==
  ASSUME NEW cell \in Nat \ {0}, NEW wished \in Int, NEW least \in Nat \ {0}
  PROVE  FitDimension(cell, wished, least) \in 1..cell
BY DEF FitDimension, AtLeast, AtMost

\* Cells have an extent, even on a screen without room for them.
LEMMA CellHasExtent ==
  ASSUME NEW c \in Nat \ {0}, NEW r \in Nat \ {0}, NEW sc,
         Bounds(sc) \in [left : Int, top : Int, right : Int, bottom : Int]
  PROVE  Cell(c, r, sc).w \in Nat \ {0} /\ Cell(c, r, sc).h \in Nat \ {0}
<1>1. Width(sc) \in Int /\ Height(sc) \in Int
  BY DEF Width, Height, AtLeast
<1>2. \A n \in Nat \ {0}, i \in Int : AtLeast(1, AtLeast(1, i) \div n) \in Nat \ {0}
  BY DEF AtLeast
<1>3. Width(sc) - Margin * (c + 1) \in Int
  BY <1>1, LayoutAssumption
<1>4. Height(sc) - TopOffset - BottomReserved - Margin * (r + 1) \in Int
  BY <1>1, LayoutAssumption
<1>. QED
  BY <1>2, <1>3, <1>4 DEF Cell

LEMMA NextCell ==
  ASSUME NEW i \in Nat, NEW k \in Nat, i < k, NEW d \in Nat
  PROVE  i * d + d <= k * d
OBVIOUS

\* Two places a line apart, in cells of this size with the margin between them.
LEMMA LineApart ==
  ASSUME NEW a \in Nat, NEW b \in Nat, a < b, NEW o \in Int,
         NEW size \in Nat \ {0}, NEW m \in 1..size
  PROVE  o + a * (size + Margin) + m <= o + b * (size + Margin)
<1>1. size + Margin \in Nat /\ m <= size + Margin
  BY LayoutAssumption
<1>2. a * (size + Margin) + (size + Margin) <= b * (size + Margin)
  BY <1>1, NextCell
<1>3. a * (size + Margin) \in Nat /\ b * (size + Margin) \in Nat
  BY <1>1
<1>. QED
  BY <1>1, <1>2, <1>3

\* Two places of a grid are apart, whatever its columns and the size of its cells are.
LEMMA GridApart ==
  ASSUME NEW c \in Nat \ {0}, NEW x \in Int, NEW y \in Int,
         NEW p \in Nat \ {0}, NEW q \in Nat \ {0}, NEW w \in 1..p, NEW h \in 1..q,
         NEW i \in Nat, NEW k \in Nat, i # k
  PROVE  Apart([x |-> x + (i % c) * (p + Margin), y |-> y + (i \div c) * (q + Margin), w |-> w, h |-> h],
               [x |-> x + (k % c) * (p + Margin), y |-> y + (k \div c) * (q + Margin), w |-> w, h |-> h])
<1>1. /\ i % c \in Nat /\ k % c \in Nat /\ i \div c \in Nat /\ k \div c \in Nat
      /\ i = c * (i \div c) + (i % c) /\ k = c * (k \div c) + (k % c)
  OBVIOUS
<1>2. i % c # k % c \/ i \div c # k \div c
  BY <1>1
<1>3. CASE i % c # k % c
  <2>1. i % c < k % c \/ k % c < i % c
    BY <1>1, <1>3
  <2>2. \/ x + (i % c) * (p + Margin) + w <= x + (k % c) * (p + Margin)
        \/ x + (k % c) * (p + Margin) + w <= x + (i % c) * (p + Margin)
    BY <1>1, <2>1, LineApart
  <2>. QED
    BY <2>2 DEF Apart
<1>4. CASE i \div c # k \div c
  <2>1. i \div c < k \div c \/ k \div c < i \div c
    BY <1>1, <1>4
  <2>2. \/ y + (i \div c) * (q + Margin) + h <= y + (k \div c) * (q + Margin)
        \/ y + (k \div c) * (q + Margin) + h <= y + (i \div c) * (q + Margin)
    BY <1>1, <2>1, LineApart
  <2>. QED
    BY <2>2 DEF Apart
<1>. QED
  BY <1>2, <1>3, <1>4

\* The window of a slot within its cell.
LEMMA WindowInCell ==
  ASSUME NEW c \in Nat \ {0}, NEW r \in Nat \ {0}, NEW sc,
         Bounds(sc) \in [left : Int, top : Int, right : Int, bottom : Int],
         NEW want \in [w : Int, h : Int], NEW slot
  PROVE  LET cell == Cell(c, r, sc)
             rect == RectIn(slot, c, cell, want, sc)
         IN /\ cell.w \in Nat \ {0} /\ cell.h \in Nat \ {0}
            /\ rect.w \in 1..cell.w /\ rect.h \in 1..cell.h
            /\ rect.w = RectIn(0, c, cell, want, sc).w /\ rect.h = RectIn(0, c, cell, want, sc).h
            /\ rect = [x |-> Bounds(sc).left + Margin + (slot % c) * (cell.w + Margin),
                       y |-> Bounds(sc).top + TopOffset + Margin + (slot \div c) * (cell.h + Margin),
                       w |-> rect.w, h |-> rect.h]
<1>. DEFINE cell == Cell(c, r, sc)
            w == FitDimension(cell.w, AtLeast(MinWidth, want.w), MinWidth)
            h == FitDimension(cell.h, AtLeast(MinHeight, want.h), MinHeight)
<1>1. cell.w \in Nat \ {0} /\ cell.h \in Nat \ {0}
  BY CellHasExtent
<1>2. AtLeast(MinWidth, want.w) \in Int /\ AtLeast(MinHeight, want.h) \in Int
  BY LayoutAssumption DEF AtLeast
<1>3. w \in 1..cell.w
  BY <1>1, <1>2, FitsCell, LayoutAssumption
<1>4. h \in 1..cell.h
  BY <1>1, <1>2, FitsCell, LayoutAssumption
<1>. HIDE DEF w, h, cell
<1>5. \A s : RectIn(s, c, cell, want, sc)
        = [x |-> Bounds(sc).left + Margin + (s % c) * (cell.w + Margin),
           y |-> Bounds(sc).top + TopOffset + Margin + (s \div c) * (cell.h + Margin),
           w |-> w, h |-> h]
  BY DEF RectIn, w, h
<1>. QED
  BY <1>1, <1>3, <1>4, <1>5 DEF cell

\* No two slots of a grid have rectangles that overlap, whatever its number of columns,
\* the screen, the sizes and the settings are (build_plan).
THEOREM SlotsApart ==
  ASSUME NEW c \in Nat \ {0}, NEW r \in Nat \ {0}, NEW sc,
         Bounds(sc) \in [left : Int, top : Int, right : Int, bottom : Int],
         NEW want \in [w : Int, h : Int],
         NEW i \in Nat, NEW k \in Nat, i # k
  PROVE  Apart(RectIn(i, c, Cell(c, r, sc), want, sc), RectIn(k, c, Cell(c, r, sc), want, sc))
<1>. DEFINE cell == Cell(c, r, sc)
            w == RectIn(0, c, cell, want, sc).w
            h == RectIn(0, c, cell, want, sc).h
            x == Bounds(sc).left + Margin
            y == Bounds(sc).top + TopOffset + Margin
<1>1. /\ cell.w \in Nat \ {0} /\ cell.h \in Nat \ {0} /\ w \in 1..cell.w /\ h \in 1..cell.h
      /\ \A s : RectIn(s, c, cell, want, sc)
           = [x |-> x + (s % c) * (cell.w + Margin), y |-> y + (s \div c) * (cell.h + Margin), w |-> w, h |-> h]
  BY WindowInCell
<1>2. x \in Int /\ y \in Int
  BY LayoutAssumption
<1>. HIDE DEF cell, w, h, x, y
<1>3. Apart([x |-> x + (i % c) * (cell.w + Margin), y |-> y + (i \div c) * (cell.h + Margin), w |-> w, h |-> h],
            [x |-> x + (k % c) * (cell.w + Margin), y |-> y + (k \div c) * (cell.h + Margin), w |-> w, h |-> h])
  BY <1>1, <1>2, GridApart
<1>. QED
  BY <1>1, <1>3 DEF cell
----------------------------------------------------------------------------
(***************************************************************************)
(* The columns of the grid: there is a best number of them.                *)
(***************************************************************************)
LEMMA BoundsTyped ==
  ASSUME NEW sc \in Screens \cup {NoScreen}
  PROVE  /\ Bounds(sc) \in [left : Int, top : Int, right : Int, bottom : Int]
         /\ Width(sc) \in Nat \ {0} /\ Height(sc) \in Nat \ {0}
<1>1. Bounds(sc) \in [left : Int, top : Int, right : Int, bottom : Int]
  BY LayoutAssumption DEF Bounds
<1>. QED
  BY <1>1 DEF Width, Height, AtLeast

LEMMA CeilTyped ==
  ASSUME NEW a \in Nat \ {0}, NEW b \in Nat \ {0}
  PROVE  /\ Ceil(a, b) \in Nat \ {0} /\ a <= b * Ceil(a, b)
         /\ \A s \in 0..(a - 1) : s \div b <= Ceil(a, b) - 1
<1>1. Ceil(a, b) \in Nat /\ a + b - 1 = b * Ceil(a, b) + ((a + b - 1) % b) /\ (a + b - 1) % b \in 0..(b - 1)
  BY DEF Ceil
<1>2. a <= b * Ceil(a, b)
  BY <1>1
<1>3. Ceil(a, b) # 0
  BY <1>2
<1>4. ASSUME NEW s \in 0..(a - 1) PROVE s \div b <= Ceil(a, b) - 1
  <2>1. s \div b \in Nat /\ b * (s \div b) <= s
    OBVIOUS
  <2>2. b * (s \div b) < b * Ceil(a, b)
    BY <1>1, <1>2, <2>1
  <2>. QED
    BY <1>1, <2>1, <2>2
<1>. QED
  BY <1>1, <1>2, <1>3, <1>4

LEMMA ScoreTyped ==
  ASSUME NEW sc \in Screens \cup {NoScreen}, NEW limit \in Nat \ {0}, NEW c \in Nat \ {0}
  PROVE  Score(limit, c, sc) \in Int
<1>1. Aspect(sc).w \in Nat /\ Aspect(sc).h \in Nat
  BY BoundsTyped DEF Aspect
<1>2. Ceil(limit, c) \in Nat
  BY CeilTyped
<1>3. c * Aspect(sc).h - Ceil(limit, c) * Aspect(sc).w \in Int
  BY <1>1, <1>2
<1>4. (80 * (c * Ceil(limit, c) - limit) + 15 * Ceil(limit, c)) * Ceil(limit, c) * Aspect(sc).h \in Int
  BY <1>1, <1>2
<1>. QED
  BY <1>3, <1>4 DEF Score

LEMMA MoreTimes ==
  /\ \A a, b \in Int, n \in Nat \ {0} : a < b => a * n < b * n
  /\ \A a, b \in Int, n \in Nat \ {0} : a <= b => a * n <= b * n
OBVIOUS

\* A fraction below one that is not above a third is below the third.
LEMMA FractionsLess ==
  ASSUME NEW a \in Int, NEW b \in Int, NEW e \in Int,
         NEW p \in Nat \ {0}, NEW q \in Nat \ {0}, NEW r \in Nat \ {0},
         a * q < b * p, b * r <= e * q
  PROVE  a * r < e * p
<1>1. a * q \in Int /\ b * p \in Int /\ b * r \in Int /\ e * q \in Int /\ a * r \in Int /\ e * p \in Int
  OBVIOUS
<1>2. (a * q) * r < (b * p) * r
  BY <1>1, MoreTimes
<1>3. (b * r) * p <= (e * q) * p
  BY <1>1, MoreTimes
<1>4. (a * q) * r = (a * r) * q /\ (b * p) * r = (b * r) * p /\ (e * q) * p = (e * p) * q
  OBVIOUS
<1>5. (a * r) * q < (e * p) * q
  <2>1. (a * r) * q \in Int /\ (b * r) * p \in Int /\ (e * p) * q \in Int
    BY <1>1
  <2>. QED
    BY <1>2, <1>3, <1>4, <2>1
<1>6. e * p <= a * r => (e * p) * q <= (a * r) * q
  BY <1>1, MoreTimes
<1>7. (e * p) * q \in Int /\ (a * r) * q \in Int
  BY <1>1
<1>. QED
  BY <1>1, <1>5, <1>6, <1>7

\* The first of the best among the first n.
BestOf(c, n, limit, sc) ==
  c \in 1..n /\ \A d \in 1..n : ~Better(limit, d, c, sc) /\ (d < c => Better(limit, c, d, sc))

LEMMA BestGoesOn ==
  ASSUME NEW sc \in Screens \cup {NoScreen}, NEW limit \in Nat \ {0}, NEW n \in Nat \ {0},
         NEW c, BestOf(c, n, limit, sc)
  PROVE  \E b : BestOf(b, n + 1, limit, sc)
<1>0. c \in 1..n
  BY DEF BestOf
<1>1. \A d \in 1..(n + 1) : Score(limit, d, sc) \in Int /\ Ceil(limit, d) \in Nat \ {0}
  <2>1. ASSUME NEW d \in 1..(n + 1) PROVE Score(limit, d, sc) \in Int /\ Ceil(limit, d) \in Nat \ {0}
    <3>1. d \in Nat \ {0}
      OBVIOUS
    <3>. QED
      BY <3>1, ScoreTyped, CeilTyped
  <2>. QED
    BY <2>1
<1>2. CASE Better(limit, n + 1, c, sc)
  <2>1. ASSUME NEW d \in 1..n PROVE Better(limit, n + 1, d, sc)
    <3>1. ~Better(limit, d, c, sc)
      BY DEF BestOf
    <3>2. Score(limit, c, sc) * Ceil(limit, d) <= Score(limit, d, sc) * Ceil(limit, c)
      BY <1>0, <1>1, <3>1 DEF Better
    <3>3. Score(limit, n + 1, sc) * Ceil(limit, c) < Score(limit, c, sc) * Ceil(limit, n + 1)
      BY <1>2 DEF Better
    <3>4. Score(limit, n + 1, sc) * Ceil(limit, d) < Score(limit, d, sc) * Ceil(limit, n + 1)
      BY <1>0, <1>1, <3>2, <3>3, FractionsLess
    <3>. QED
      BY <3>4 DEF Better
  <2>2. ASSUME NEW d \in 1..(n + 1) PROVE ~Better(limit, d, n + 1, sc)
    <3>1. Score(limit, d, sc) * Ceil(limit, n + 1) \in Int /\ Score(limit, n + 1, sc) * Ceil(limit, d) \in Int
      BY <1>1
    <3>2. CASE d = n + 1
      BY <3>1, <3>2 DEF Better
    <3>3. CASE d # n + 1
      <4>1. Better(limit, n + 1, d, sc)
        BY <2>1, <3>3
      <4>. QED
        BY <3>1, <4>1 DEF Better
    <3>. QED
      BY <3>2, <3>3
  <2>3. BestOf(n + 1, n + 1, limit, sc)
    <3>1. \A d \in 1..(n + 1) : d < n + 1 => d \in 1..n
      OBVIOUS
    <3>. QED
      BY <2>1, <2>2, <3>1 DEF BestOf
  <2>. QED
    BY <2>3
<1>3. CASE ~Better(limit, n + 1, c, sc)
  <2>1. \A d \in 1..(n + 1) : d \in 1..n \/ (d = n + 1 /\ ~(d < c))
    BY <1>0
  <2>. QED
    BY <1>0, <1>3, <2>1 DEF BestOf
<1>. QED
  BY <1>2, <1>3

LEMMA BestExists ==
  ASSUME NEW sc \in Screens \cup {NoScreen}, NEW limit \in Nat \ {0}
  PROVE  \A n \in Nat \ {0} : \E c : BestOf(c, n, limit, sc)
<1>. DEFINE Without == {n \in Nat \ {0} : ~\E c : BestOf(c, n, limit, sc)}
<1>. SUFFICES ASSUME Without # {} PROVE FALSE
  OBVIOUS
<1>1. PICK n \in Without : \A m \in Without : n <= m
  BY LeastSlot
<1>2. CASE n = 1
  <2>1. ~Better(limit, 1, 1, sc)
    <3>1. Score(limit, 1, sc) * Ceil(limit, 1) \in Int
      <4>1. 1 \in Nat \ {0}
        OBVIOUS
      <4>2. Score(limit, 1, sc) \in Int
        BY <4>1, ScoreTyped
      <4>3. Ceil(limit, 1) \in Nat \ {0}
        BY <4>1, CeilTyped
      <4>. QED
        BY <4>2, <4>3
    <3>. QED
      BY <3>1 DEF Better
  <2>2. BestOf(1, 1, limit, sc)
    BY <2>1 DEF BestOf
  <2>. QED
    BY <1>2, <2>2
<1>3. CASE n # 1
  <2>1. n - 1 \in Nat \ {0} /\ n - 1 \notin Without /\ (n - 1) + 1 = n
    BY <1>1, <1>3
  <2>2. PICK c : BestOf(c, n - 1, limit, sc)
    BY <2>1
  <2>3. \E b : BestOf(b, (n - 1) + 1, limit, sc)
    BY <2>1, <2>2, BestGoesOn
  <2>. QED
    BY <2>1, <2>3
<1>. QED
  BY <1>2, <1>3

\* grid_for_slots chooses a number of columns, at most as many as slots.
LEMMA ColumnsTyped ==
  ASSUME NEW sc \in Screens \cup {NoScreen}, NEW limit \in Nat \ {0}
  PROVE  Columns(limit, sc) \in 1..limit
<1>1. \E c \in 1..limit : \A d \in 1..limit :
        ~Better(limit, d, c, sc) /\ (d < c => Better(limit, c, d, sc))
  BY BestExists DEF BestOf
<1>. QED
  BY <1>1, Zenon DEF Columns
----------------------------------------------------------------------------
(***************************************************************************)
(* What the run lays out: windows of its slots only, on a screen it read.  *)
(***************************************************************************)
LayoutPlan ==
  /\ screen \in Screens \cup {NoScreen} /\ wish \in [w : Int, h : Int]
  /\ works \in [native : BOOLEAN, os : BOOLEAN]
  /\ slots \in 0..MaxSlotLimit /\ undone \in 0..Tasks /\ tiled \subseteq Slots
  /\ \A s \in Slots : hand[s] # "none" => s < slots

LEMMA CapacityTyped ==
  ASSUME NEW sc \in Screens \cup {NoScreen}
  PROVE  Capacity(sc) \in 1..MaxSlotLimit
<1>1. CASE sc = NoScreen
  BY <1>1, LayoutAssumption DEF Capacity
<1>2. CASE sc # NoScreen
  <2>. DEFINE c == AtLeast(1, AtLeast(1, Width(sc) - Margin) \div (MinWidth + Margin))
              r == AtLeast(1, AtLeast(1, Height(sc) - TopOffset - BottomReserved - Margin) \div (MinHeight + Margin))
  <2>1. \A i \in Int, d \in Nat \ {0} : AtLeast(1, AtLeast(1, i) \div d) \in Nat \ {0}
    BY DEF AtLeast
  <2>2. Width(sc) - Margin \in Int /\ MinWidth + Margin \in Nat \ {0}
        /\ Height(sc) - TopOffset - BottomReserved - Margin \in Int /\ MinHeight + Margin \in Nat \ {0}
    BY BoundsTyped, LayoutAssumption
  <2>3. c \in Nat \ {0} /\ r \in Nat \ {0}
    BY <2>1, <2>2
  <2>4. Capacity(sc) = AtLeast(1, AtMost(MaxSlotLimit, c * r))
    BY <1>2 DEF Capacity
  <2>. HIDE DEF c, r
  <2>5. c * r \in Int
    BY <2>3
  <2>. QED
    BY <2>4, <2>5, LayoutAssumption DEF AtLeast, AtMost
<1>. QED
  BY <1>1, <1>2

LEMMA PlanStep ==
  ASSUME LayoutPlaces, LayoutPlan, [LayoutNext]_layoutVars
  PROVE  LayoutPlan'
<1>1. ASSUME NEW sc \in Screens \cup {NoScreen}, NEW want \in Wishes, NEW asked \in Requested,
             NEW native \in BOOLEAN, NEW os \in BOOLEAN, LayRun(sc, want, asked, native, os)
      PROVE  LayoutPlan'
  <2>1. /\ screen' = sc /\ wish' = want /\ works' = [native |-> native, os |-> os]
        /\ hand' = [s \in Slots |-> IF s < slots' THEN "free" ELSE "none"]
        /\ UNCHANGED <<undone, tiled>>
    BY <1>1 DEF LayRun
  <2>2. slots' \in 0..MaxSlotLimit
    BY <1>1, CapacityTyped, LayoutAssumption DEF LayRun, AtLeast, AtMost
  <2>3. wish' \in [w : Int, h : Int] /\ screen' \in Screens \cup {NoScreen}
    BY <2>1, LayoutAssumption
  <2>4. works' \in [native : BOOLEAN, os : BOOLEAN]
    BY <2>1
  <2>5. \A s \in Slots : hand'[s] # "none" => s < slots'
    BY <2>1
  <2>. QED
    BY <2>1, <2>2, <2>3, <2>4, <2>5 DEF LayoutPlan
<1>2. ASSUME NEW s \in Slots, LayoutStep(s) PROVE LayoutPlan'
  <2>1. /\ UNCHANGED planVars /\ tiled' \in {tiled, shown}
        /\ undone' = undone \/ (undone > 0 /\ undone' = undone - 1)
    BY <1>2
    DEF LayoutStep, OpenedWindow, LeavesPool, ClosedWindow, TakeLane, NothingToLay, Arranged,
        HaltWorker
  <2>2. \A k \in Slots : hand'[k] # "none" => hand[k] # "none"
    BY <1>2
    DEF LayoutStep, OpenedWindow, LeavesPool, ClosedWindow, TakeLane, Waits, NothingToLay, Arranged,
        HaltWorker, GoOn, Put, LayoutPlaces
  <2>3. undone' \in 0..Tasks
    BY <2>1, LayoutAssumption DEF LayoutPlan
  <2>4. tiled' \subseteq Slots
    BY <2>1 DEF LayoutPlan, LayoutPlaces
  <2>. QED
    BY <2>1, <2>2, <2>3, <2>4 DEF LayoutPlan, planVars
<1>3. CASE HaltBatch
  BY <1>3 DEF HaltBatch, planVars, LayoutPlan
<1>4. CASE UNCHANGED layoutVars
  BY <1>4 DEF layoutVars, LayoutPlan
<1>. QED
  BY <1>1, <1>2, <1>3, <1>4 DEF LayoutNext

LEMMA PlanHolds == LayoutSpec => [](LayoutInv /\ LayoutPlan)
<1>1. LayoutInit => LayoutPlan
  BY LayoutAssumption DEF LayoutInit, LayoutPlan
<1>2. LayoutInv /\ LayoutPlan /\ [LayoutNext]_layoutVars => LayoutPlan'
  BY PlanStep DEF LayoutInv
<1>. QED
  BY <1>1, <1>2, LayoutInvariance, PTL DEF LayoutSpec

\* Every variable keeps its type, whatever the screens and the settings are.
THEOREM LayoutIsTyped == LayoutSpec => []LayoutTypeOK
<1>1. LayoutInv /\ LayoutPlan => LayoutTypeOK
  BY DEF LayoutInv, LayoutPlaces, LayoutPlan, LayoutTypeOK
<1>. QED
  BY <1>1, PlanHolds, PTL

(***************************************************************************)
(* Where the windows are.                                                  *)
(***************************************************************************)
\* The windows that the provider tiles are in as many places.
Earlier(s) == {k \in shown : k < s}

LEMMA PlacesOfProvider ==
  ASSUME LayoutInv, LayoutPlan, NEW s \in shown
  PROVE  /\ Cardinality(Earlier(s)) \in 0..(slots - 1)
         /\ \A t \in shown : s < t => Cardinality(Earlier(s)) < Cardinality(Earlier(t))
<1>1. slots \in Nat /\ shown \subseteq 0..(slots - 1)
  BY LayoutAssumption DEF LayoutInv, LayoutPlaces, LayoutPlan, Slots
<1>2. IsFiniteSet(shown) /\ IsFiniteSet(0..(slots - 1)) /\ Cardinality(0..(slots - 1)) = slots
  <2>1. IsFiniteSet(0..(slots - 1)) /\ Cardinality(0..(slots - 1)) = slots
    BY <1>1, FS_Interval
  <2>. QED
    BY <1>1, <2>1, FS_Subset
<1>3. \A t \in shown : IsFiniteSet(Earlier(t)) /\ Cardinality(Earlier(t)) \in Nat
  BY <1>2, FS_Subset, FS_CardinalityType DEF Earlier
<1>4. Cardinality(Earlier(s)) < slots
  <2>0. s \in 0..(slots - 1) /\ ~(s < s)
    BY <1>1
  <2>1. Earlier(s) \subseteq 0..(slots - 1) /\ s \in 0..(slots - 1) /\ s \notin Earlier(s)
    BY <1>1, <2>0, Zenon DEF Earlier
  <2>2. Cardinality(Earlier(s)) <= slots /\ Cardinality(Earlier(s)) # slots
    BY <1>2, <2>1, FS_Subset, Zenon
  <2>. QED
    BY <1>1, <1>3, <2>2
<1>5. ASSUME NEW t \in shown, s < t PROVE Cardinality(Earlier(s)) < Cardinality(Earlier(t))
  <2>0. ~(s < s) /\ \A k \in shown : k < s => k < t
    <3>1. s \in Nat /\ t \in Nat /\ shown \subseteq Nat
      BY <1>1
    <3>. QED
      BY <1>5, <3>1
  <2>1. Earlier(s) \subseteq Earlier(t) /\ s \in Earlier(t) /\ s \notin Earlier(s)
    BY <1>5, <2>0, Zenon DEF Earlier
  <2>2. Cardinality(Earlier(s)) <= Cardinality(Earlier(t)) /\ Cardinality(Earlier(s)) # Cardinality(Earlier(t))
    BY <1>3, <2>1, FS_Subset, Zenon
  <2>. QED
    BY <1>3, <2>2
<1>. QED
  BY <1>1, <1>3, <1>4, <1>5

\* At rest a window is where a grid of the run's slots has it: in its own slot of it, or in
\* the lines of the provider, which go on from the first slot with the size of the window.
LEMMA SpotsKnown ==
  ASSUME LayoutInv, LayoutPlan, LayoutCatchesUp, AtRest, NEW s \in shown,
         NEW c, c = Columns(slots, screen)
  PROVE  LET cell == Cell(c, Ceil(slots, c), screen)
             rect == RectIn(0, c, cell, wish, screen)
             x == Bounds(screen).left + Margin
             y == Bounds(screen).top + TopOffset + Margin
             n == Cardinality(Earlier(s))
         IN /\ works.os => Spot(s) = [x |-> x + (s % c) * (cell.w + Margin), y |-> y + (s \div c) * (cell.h + Margin),
                                      w |-> rect.w, h |-> rect.h]
            /\ ~works.os => Spot(s) = [x |-> x + (n % c) * (rect.w + Margin), y |-> y + (n \div c) * (rect.h + Margin),
                                       w |-> rect.w, h |-> rect.h]
            /\ c \in 1..slots /\ slots \in Nat \ {0}
            /\ cell.w \in Nat \ {0} /\ cell.h \in Nat \ {0} /\ rect.w \in 1..cell.w /\ rect.h \in 1..cell.h
            /\ x \in Int /\ y \in Int /\ s \in 0..(slots - 1) /\ n \in 0..(slots - 1)
<1>. DEFINE cell == Cell(c, Ceil(slots, c), screen)
            rect == RectIn(0, c, cell, wish, screen)
            x == Bounds(screen).left + Margin
            y == Bounds(screen).top + TopOffset + Margin
            n == Cardinality(Earlier(s))
<1>1. /\ s \in 0..(slots - 1) /\ slots \in Nat \ {0} /\ screen \in Screens \cup {NoScreen}
      /\ wish \in [w : Int, h : Int] /\ shown # {} /\ shown \subseteq 0..(slots - 1)
  BY LayoutAssumption DEF LayoutInv, LayoutPlaces, LayoutPlan, Slots
<1>2. c \in 1..slots /\ Ceil(slots, c) \in Nat \ {0}
  <2>1. c \in 1..slots
    BY <1>1, ColumnsTyped
  <2>2. c \in Nat \ {0}
    BY <1>1, <2>1
  <2>. QED
    BY <1>1, <2>1, <2>2, CeilTyped
<1>3. Bounds(screen) \in [left : Int, top : Int, right : Int, bottom : Int]
  BY <1>1, BoundsTyped
<1>4. x \in Int /\ y \in Int
  BY <1>3, LayoutAssumption
<1>5. /\ cell.w \in Nat \ {0} /\ cell.h \in Nat \ {0} /\ rect.w \in 1..cell.w /\ rect.h \in 1..cell.h
      /\ \A k : RectIn(k, c, cell, wish, screen)
           = [x |-> x + (k % c) * (cell.w + Margin), y |-> y + (k \div c) * (cell.h + Margin),
              w |-> rect.w, h |-> rect.h]
  <2>1. c \in Nat \ {0}
    BY <1>1, <1>2
  <2>. QED
    BY <1>1, <1>2, <1>3, <2>1, WindowInCell
<1>6. n \in 0..(slots - 1)
  BY PlacesOfProvider
<1>7. tiled = shown /\ AtLeast(Cardinality(tiled), slots) = slots
  <2>1. tiled = shown
    BY <1>1 DEF LayoutCatchesUp
  <2>0. 0 \in Int /\ slots - 1 \in Int /\ ~(0 > slots - 1) /\ slots - 1 - 0 + 1 = slots
    BY <1>1
  <2>2. IsFiniteSet(0..(slots - 1)) /\ Cardinality(0..(slots - 1)) = slots
    BY <2>0, FS_Interval
  <2>3. Cardinality(shown) <= slots /\ IsFiniteSet(shown)
    BY <1>1, <2>2, FS_Subset
  <2>4. Cardinality(shown) \in Nat
    BY <2>3, FS_CardinalityType
  <2>. QED
    BY <1>1, <2>1, <2>3, <2>4 DEF AtLeast
<1>8. \A k : Rect(k, slots, wish, screen) = RectIn(k, c, cell, wish, screen)
  BY DEF Rect
<1>. HIDE DEF cell, rect, x, y
<1>9. works.os => Spot(s) = [x |-> x + (s % c) * (cell.w + Margin), y |-> y + (s \div c) * (cell.h + Margin),
                             w |-> rect.w, h |-> rect.h]
  BY <1>5, <1>8 DEF Spot
<1>10. ~works.os => Spot(s) = [x |-> x + (n % c) * (rect.w + Margin), y |-> y + (n \div c) * (rect.h + Margin),
                               w |-> rect.w, h |-> rect.h]
  <2>1. {k \in tiled : k < s} = Earlier(s)
    BY <1>7 DEF Earlier
  <2>2. Tile(n) = [Rect(0, slots, wish, screen)
                     EXCEPT !.x = @ + (n % c) * (Rect(0, slots, wish, screen).w + Margin),
                            !.y = @ + (n \div c) * (Rect(0, slots, wish, screen).h + Margin)]
    BY <1>7 DEF Tile
  <2>3. Rect(0, slots, wish, screen) = [x |-> x, y |-> y, w |-> rect.w, h |-> rect.h]
    <3>1. 0 % c = 0 /\ 0 \div c = 0 /\ cell.w + Margin \in Int /\ cell.h + Margin \in Int
      BY <1>1, <1>2, <1>5, LayoutAssumption
    <3>2. x + (0 % c) * (cell.w + Margin) = x /\ y + (0 \div c) * (cell.h + Margin) = y
      BY <1>4, <3>1
    <3>. QED
      BY <1>5, <1>8, <3>2
  <2>4. Tile(n) = [x |-> x + (n % c) * (rect.w + Margin), y |-> y + (n \div c) * (rect.h + Margin),
                   w |-> rect.w, h |-> rect.h]
    <3>. DEFINE first == Rect(0, slots, wish, screen)
    <3>. HIDE DEF first
    <3>1. first = [x |-> x, y |-> y, w |-> rect.w, h |-> rect.h]
      BY <2>3 DEF first
    <3>2. Tile(n) = [first EXCEPT !.x = @ + (n % c) * (first.w + Margin), !.y = @ + (n \div c) * (first.h + Margin)]
      BY <2>2 DEF first
    <3>. DEFINE dx == (n % c) * (rect.w + Margin)
                dy == (n \div c) * (rect.h + Margin)
    <3>3. Tile(n) = [first EXCEPT !.x = @ + dx, !.y = @ + dy]
      BY <3>1, <3>2
    <3>. HIDE DEF dx, dy
    <3>4. Tile(n) = [x |-> x + dx, y |-> y + dy, w |-> rect.w, h |-> rect.h]
      BY <3>1, <3>3
    <3>. QED
      BY <3>4 DEF dx, dy
  <2>. QED
    BY <2>1, <2>4 DEF Spot
<1>. QED
  BY <1>1, <1>2, <1>4, <1>5, <1>6, <1>9, <1>10 DEF cell, rect, x, y

LEMMA SpotsApart ==
  ASSUME LayoutInv, LayoutPlan, LayoutCatchesUp, AtRest,
         NEW i \in shown, NEW k \in shown, i # k
  PROVE  Apart(Spot(i), Spot(k))
<1>. DEFINE c == Columns(slots, screen)
            cell == Cell(c, Ceil(slots, c), screen)
            rect == RectIn(0, c, cell, wish, screen)
            x == Bounds(screen).left + Margin
            y == Bounds(screen).top + TopOffset + Margin
            place(s) == IF works.os THEN s ELSE Cardinality(Earlier(s))
            w == IF works.os THEN cell.w ELSE rect.w
            h == IF works.os THEN cell.h ELSE rect.h
<1>1. \A s \in shown :
        /\ Spot(s) = [x |-> x + (place(s) % c) * (w + Margin), y |-> y + (place(s) \div c) * (h + Margin),
                      w |-> rect.w, h |-> rect.h]
        /\ place(s) \in Nat /\ s \in Nat
  BY SpotsKnown
<1>2. /\ c \in Nat \ {0} /\ x \in Int /\ y \in Int /\ cell.w \in Nat \ {0} /\ cell.h \in Nat \ {0}
      /\ rect.w \in 1..cell.w /\ rect.h \in 1..cell.h
  BY SpotsKnown
<1>3. w \in Nat \ {0} /\ h \in Nat \ {0} /\ rect.w \in 1..w /\ rect.h \in 1..h
  BY <1>2
<1>4. place(i) # place(k)
  <2>1. i < k \/ k < i
    BY <1>1
  <2>2. CASE works.os
    BY <2>2
  <2>3. CASE ~works.os
    <3>1. Cardinality(Earlier(i)) \in Nat /\ Cardinality(Earlier(k)) \in Nat
      BY <1>1, <2>3
    <3>2. \/ Cardinality(Earlier(i)) < Cardinality(Earlier(k))
          \/ Cardinality(Earlier(k)) < Cardinality(Earlier(i))
      BY <2>1, PlacesOfProvider
    <3>. QED
      BY <2>3, <3>1, <3>2
  <2>. QED
    BY <2>2, <2>3
<1>. HIDE DEF c, cell, rect, x, y, place, w, h
<1>5. Apart([x |-> x + (place(i) % c) * (w + Margin), y |-> y + (place(i) \div c) * (h + Margin), w |-> rect.w, h |-> rect.h],
            [x |-> x + (place(k) % c) * (w + Margin), y |-> y + (place(k) \div c) * (h + Margin), w |-> rect.w, h |-> rect.h])
  BY <1>1, <1>2, <1>3, <1>4, GridApart
<1>. QED
  BY <1>1, <1>5

\* So many cells as there is room for, and a window in one of them.
LEMMA LineInside ==
  ASSUME NEW n \in Nat \ {0}, NEW room \in Int, room - Margin * (n + 1) >= n,
         NEW size \in Nat \ {0}, size = AtLeast(1, AtLeast(1, room - Margin * (n + 1)) \div n),
         NEW pitch \in 1..size, NEW m \in 1..pitch, NEW a \in 0..(n - 1)
  PROVE  /\ 0 <= Margin + a * (pitch + Margin)
         /\ Margin + a * (pitch + Margin) + m <= room
<1>. DEFINE net == room - Margin * (n + 1)
<1>0. Margin \in Nat /\ net \in Int /\ net >= n /\ net >= 1 /\ a \in Nat /\ n \in Nat
  BY LayoutAssumption
<1>1. size = net \div n /\ n * size <= net
  <2>1. AtLeast(1, net) = net
    BY <1>0 DEF AtLeast
  <2>2. net = n * (net \div n) + (net % n) /\ net % n \in Nat /\ net % n < n /\ net \div n \in Nat
    BY <1>0
  <2>3. net \div n >= 1
    <3>1. CASE net \div n = 0
      BY <1>0, <2>2, <3>1
    <3>. QED
      BY <2>2, <3>1
  <2>4. size = net \div n
    BY <2>1, <2>3, <2>2 DEF AtLeast
  <2>. QED
    BY <1>0, <2>2, <2>4
<1>2. a * (pitch + Margin) <= (n - 1) * (size + Margin)
  <2>1. a * (pitch + Margin) <= a * (size + Margin)
    <3>1. pitch + Margin \in Int /\ size + Margin \in Int /\ pitch + Margin <= size + Margin
      BY <1>0
    <3>2. (pitch + Margin) * a <= (size + Margin) * a
      <4>1. CASE a = 0
        BY <3>1, <4>1
      <4>2. CASE a # 0
        BY <1>0, <3>1, <4>2, MoreTimes
      <4>. QED
        BY <4>1, <4>2
    <3>. QED
      BY <1>0, <3>1, <3>2
  <2>2. a * (size + Margin) <= (n - 1) * (size + Margin)
    <3>1. size + Margin \in Nat \ {0} /\ a <= n - 1 /\ n - 1 \in Int
      BY <1>0
    <3>. QED
      BY <1>0, <3>1, MoreTimes
  <2>3. a * (pitch + Margin) \in Int /\ a * (size + Margin) \in Int /\ (n - 1) * (size + Margin) \in Int
    BY <1>0
  <2>. QED
    BY <2>1, <2>2, <2>3
<1>3. (n - 1) * (size + Margin) + size = n * size + Margin * (n - 1)
  BY <1>0
<1>4. Margin + (n - 1) * (size + Margin) + size <= room
  <2>. DEFINE inner == (n - 1) * (size + Margin)
              filled == n * size
              some == Margin * (n - 1)
              all == Margin * (n + 1)
  <2>1. inner \in Int /\ filled \in Int /\ some \in Int /\ all \in Int /\ some = all - 2 * Margin
    BY <1>0
  <2>2. inner + size = filled + some /\ filled <= room - all
    BY <1>1, <1>3
  <2>. HIDE DEF inner, filled, some, all
  <2>3. Margin + inner + size <= room
    BY <1>0, <2>1, <2>2
  <2>. QED
    BY <2>3 DEF inner
<1>5. a * (pitch + Margin) \in Nat /\ (n - 1) * (size + Margin) \in Int
  BY <1>0
<1>. QED
  BY <1>0, <1>2, <1>4, <1>5

LEMMA SpotsOnScreen ==
  ASSUME LayoutInv, LayoutPlan, LayoutCatchesUp, AtRest, Fits(screen, slots), NEW s \in shown
  PROVE  OnScreen(Spot(s), screen)
<1>. DEFINE c == Columns(slots, screen)
            r == Ceil(slots, c)
            cell == Cell(c, r, screen)
            rect == RectIn(0, c, cell, wish, screen)
            left == Bounds(screen).left
            top == Bounds(screen).top
            place == IF works.os THEN s ELSE Cardinality(Earlier(s))
            w == IF works.os THEN cell.w ELSE rect.w
            h == IF works.os THEN cell.h ELSE rect.h
            wide == Bounds(screen).right - left
            high == Bounds(screen).bottom - top - TopOffset - BottomReserved
<1>1. Spot(s) = [x |-> left + Margin + (place % c) * (w + Margin), y |-> top + TopOffset + Margin + (place \div c) * (h + Margin),
                 w |-> rect.w, h |-> rect.h]
  BY SpotsKnown
<1>2. /\ c \in 1..slots /\ slots \in Nat \ {0} /\ place \in 0..(slots - 1)
      /\ cell.w \in Nat \ {0} /\ cell.h \in Nat \ {0}
      /\ rect.w \in 1..cell.w /\ rect.h \in 1..cell.h
  BY SpotsKnown
<1>3. w \in 1..cell.w /\ h \in 1..cell.h /\ rect.w \in 1..w /\ rect.h \in 1..h
  BY <1>2
<1>4. /\ left \in Int /\ top \in Int /\ Bounds(screen).right \in Int /\ Bounds(screen).bottom \in Int
      /\ wide \in Int /\ high \in Int /\ Margin \in Nat /\ TopOffset \in Nat /\ BottomReserved \in Nat
  BY BoundsTyped, LayoutAssumption DEF LayoutPlan
<1>5. r \in Nat \ {0} /\ place \div c <= r - 1 /\ place % c \in 0..(c - 1) /\ place \div c \in 0..(r - 1)
      /\ c \in Nat \ {0}
  <2>0. c \in Nat \ {0}
    BY <1>2
  <2>1. r \in Nat \ {0} /\ \A k \in 0..(slots - 1) : k \div c <= r - 1
    BY <1>2, <2>0, CeilTyped
  <2>2. place \in Nat /\ place % c \in 0..(c - 1) /\ place \div c \in Nat
    BY <1>2, <2>0
  <2>. QED
    BY <1>2, <2>0, <2>1, <2>2
<1>6. wide - Margin * (c + 1) >= c /\ high - Margin * (r + 1) >= r
  BY DEF Fits
<1>7. wide >= 1 /\ high >= 1
  <2>1. Margin * (c + 1) \in Nat /\ Margin * (r + 1) \in Nat
    BY <1>4, <1>5
  <2>. QED
    BY <1>4, <1>5, <1>6, <2>1
<1>8. Width(screen) = wide /\ Height(screen) - TopOffset - BottomReserved = high
  BY <1>4, <1>7 DEF Width, Height, AtLeast
<1>9. /\ cell.w = AtLeast(1, AtLeast(1, wide - Margin * (c + 1)) \div c)
      /\ cell.h = AtLeast(1, AtLeast(1, high - Margin * (r + 1)) \div r)
  BY <1>8 DEF Cell
<1>. HIDE DEF c, r, cell, rect, left, top, place, w, h, wide, high
<1>10. /\ 0 <= Margin + (place % c) * (w + Margin)
       /\ Margin + (place % c) * (w + Margin) + rect.w <= wide
  BY <1>2, <1>3, <1>4, <1>5, <1>6, <1>9, LineInside
<1>11. /\ 0 <= Margin + (place \div c) * (h + Margin)
       /\ Margin + (place \div c) * (h + Margin) + rect.h <= high
  BY <1>2, <1>3, <1>4, <1>5, <1>6, <1>9, LineInside
<1>12. (place % c) * (w + Margin) \in Int /\ (place \div c) * (h + Margin) \in Int /\ rect.w \in Int /\ rect.h \in Int
  BY <1>2, <1>3, <1>4, <1>5
<1>13. left + wide = Bounds(screen).right /\ top + TopOffset + high <= Bounds(screen).bottom
  BY <1>4 DEF wide, high, left, top
<1>14. /\ Spot(s).x >= left /\ Spot(s).x + Spot(s).w <= left + wide
       /\ Spot(s).y >= top /\ Spot(s).y + Spot(s).h <= top + TopOffset + high
  <2>1. /\ Spot(s).x = left + Margin + (place % c) * (w + Margin) /\ Spot(s).w = rect.w
        /\ Spot(s).y = top + TopOffset + Margin + (place \div c) * (h + Margin) /\ Spot(s).h = rect.h
    BY <1>1
  <2>. QED
    BY <1>4, <1>10, <1>11, <1>12, <2>1
<1>. QED
  BY <1>4, <1>12, <1>13, <1>14, <1>1 DEF OnScreen, left, top

\* At rest no two active windows overlap, whether the driver or the provider placed them,
\* and none reaches over a screen with room for the grid: for any number of slots, any
\* screens, sizes and settings (build_plan, grid_for_slots, provider_tile_payload).
THEOREM TilesAreApart == LayoutSpec => []TilesApart
<1>1. LayoutInv /\ LayoutPlan /\ LayoutCatchesUp => TilesApart
  BY SpotsApart, SpotsOnScreen DEF TilesApart
<1>. QED
  BY <1>1, PlanHolds, ArrangementCatchesUp, PTL
=============================================================================
