---------------------------- MODULE WindowLayout ----------------------------
(***************************************************************************)
(* Tiling the browser windows of a batch: the grid and the rectangles of   *)
(* SlotLayoutCalculator (services/window_layout), and                      *)
(* arrange_active_windows of _run_batch (services/batch_service), which    *)
(* each worker calls after it opened a window and after it closed one.     *)
(*                                                                         *)
(* One arrangement runs at a time, under layout_lock: it reads the windows *)
(* that are active, asks the provider to tile them, then has the driver of *)
(* the system move each window, by its process id, to the rectangle of its *)
(* slot.  It reads nothing after these two awaits and swallows their       *)
(* errors, so that they are one step here; whether the provider tiles, and *)
(* whether it tells process ids and there is a driver, is the same for all *)
(* windows of a run.                                                       *)
(* Workers open and close windows meanwhile; a cancel ends their turn.     *)
(***************************************************************************)
EXTENDS Integers, FiniteSets

CONSTANTS
  Screens,     \* bounds a desktop may have: [left, top, right, bottom]
  NoScreen,    \* the bounds could not be read
  DefaultScreen,
  Wishes,      \* window sizes a workflow may ask for: [w, h]
  Requested,   \* numbers of slots a start may ask for
  MaxSlotLimit, Margin, TopOffset, BottomReserved, MinWidth, MinHeight,  \* settings
  Tasks        \* rows with a profile

ASSUME LayoutAssumption ==
  /\ Margin \in Nat /\ TopOffset \in Nat /\ BottomReserved \in Nat
  /\ MinWidth \in Nat \ {0} /\ MinHeight \in Nat \ {0}
  /\ MaxSlotLimit \in Nat \ {0} /\ Tasks \in Nat \ {0}
  /\ Screens \cup {DefaultScreen} \subseteq [left : Int, top : Int, right : Int, bottom : Int]
  /\ Wishes \subseteq [w : Int, h : Int] /\ Requested \subseteq Int

VARIABLES
  screen,    \* screen_bounds, or NoScreen
  wish,      \* min_window_width and min_window_height of the runtime policy
  works,     \* [native, os]: the provider tiles windows; the driver moves them
  slots,     \* slot_limit; 0 before the run has set it
  hand,      \* where the worker of a slot is
  undone,    \* tasks still queued
  shown,     \* active_sessions: slots with an active window
  lane,      \* the slot whose worker holds layout_lock, -1 for none
  tiled,     \* the active windows that the last arrangement read
  halted     \* cancel_batch was called

layoutVars == <<screen, wish, works, slots, hand, undone, shown, lane, tiled, halted>>
planVars == <<screen, wish, works, slots>>

Slots == 0..(MaxSlotLimit - 1)

LayoutInit ==
  /\ screen = NoScreen /\ wish = [w |-> MinWidth, h |-> MinHeight]
  /\ works = [native |-> FALSE, os |-> FALSE]
  /\ slots = 0 /\ hand = [s \in Slots |-> "none"] /\ undone = Tasks
  /\ shown = {} /\ lane = -1 /\ tiled = {}
  /\ halted = FALSE
----------------------------------------------------------------------------
(* SlotLayoutCalculator *)

AtLeast(a, b) == IF a > b THEN a ELSE b
AtMost(a, b) == IF a < b THEN a ELSE b
Ceil(a, b) == (a + b - 1) \div b

Bounds(sc) == IF sc = NoScreen THEN DefaultScreen ELSE sc
Width(sc) == AtLeast(1, Bounds(sc).right - Bounds(sc).left)
Height(sc) == AtLeast(1, Bounds(sc).bottom - Bounds(sc).top)

\* The score of a grid of c columns, times 1000 * rows * height of the target aspect.
\* The code compares the same numbers as floats.
Aspect(sc) ==
  IF 2 * Width(sc) < Height(sc) THEN [w |-> 1, h |-> 2]
  ELSE IF 2 * Width(sc) > 7 * Height(sc) THEN [w |-> 7, h |-> 2]
  ELSE [w |-> Width(sc), h |-> Height(sc)]

Score(limit, c, sc) ==
  LET r == Ceil(limit, c)
      a == Aspect(sc)
      off == c * a.h - r * a.w
  IN 1000 * (IF off < 0 THEN -off ELSE off) + (80 * (c * r - limit) + 15 * r) * r * a.h

Better(limit, c, d, sc) ==
  Score(limit, c, sc) * Ceil(limit, d) < Score(limit, d, sc) * Ceil(limit, c)

\* grid_for_slots: the first of the best grids
Columns(limit, sc) ==
  CHOOSE c \in 1..limit : \A d \in 1..limit :
    ~Better(limit, d, c, sc) /\ (d < c => Better(limit, c, d, sc))

\* Mutant of FitDimension: the wish counts even where the cell is smaller.
FitWish(cell, wished, least) == AtLeast(least, AtMost(wished, AtLeast(cell, least)))

FitDimension(cell, wished, least) ==
  IF cell < least THEN AtLeast(1, cell) ELSE AtLeast(least, AtMost(wished, cell))

Cell(c, r, sc) ==
  [w |-> AtLeast(1, AtLeast(1, Width(sc) - Margin * (c + 1)) \div c),
   h |-> AtLeast(1, AtLeast(1, Height(sc) - TopOffset - BottomReserved - Margin * (r + 1)) \div r)]

\* build_plan: the rectangle of a slot in a grid whose cells are of this size
RectIn(slot, c, cell, want, sc) ==
  [x |-> Bounds(sc).left + Margin + (slot % c) * (cell.w + Margin),
   y |-> Bounds(sc).top + TopOffset + Margin + (slot \div c) * (cell.h + Margin),
   w |-> FitDimension(cell.w, AtLeast(MinWidth, want.w), MinWidth),
   h |-> FitDimension(cell.h, AtLeast(MinHeight, want.h), MinHeight)]

Rect(slot, limit, want, sc) ==
  LET c == Columns(limit, sc)
  IN RectIn(slot, c, Cell(c, Ceil(limit, c), sc), want, sc)

\* provider_tile_payload, and the k-th of the windows of a provider that lays out windows
\* of one size with spacing Margin, so many per line, from where the first is to be
Tile(k) ==
  LET limit == AtLeast(Cardinality(tiled), slots)
      first == Rect(0, limit, wish, screen)
      c == Columns(limit, screen)
  IN [first EXCEPT !.x = @ + (k % c) * (first.w + Margin),
                   !.y = @ + (k \div c) * (first.h + Margin)]

\* Where the last arrangement left the window of a slot.
Spot(s) ==
  IF works.os THEN Rect(s, slots, wish, screen)
  ELSE Tile(Cardinality({k \in tiled : k < s}))

\* estimate_capacity
Capacity(sc) ==
  IF sc = NoScreen THEN MaxSlotLimit
  ELSE LET c == AtLeast(1, AtLeast(1, Width(sc) - Margin) \div (MinWidth + Margin))
           r == AtLeast(1, AtLeast(1, Height(sc) - TopOffset - BottomReserved - Margin)
                             \div (MinHeight + Margin))
       IN AtLeast(1, AtMost(MaxSlotLimit, c * r))
----------------------------------------------------------------------------
(* The run and its workers *)

LayRun(sc, want, asked, native, os) ==
  /\ slots = 0
  /\ screen' = sc /\ wish' = want /\ works' = [native |-> native, os |-> os]
  /\ slots' = AtLeast(1, AtMost(AtMost(asked, MaxSlotLimit), AtMost(Capacity(sc), Tasks)))
  /\ hand' = [s \in Slots |-> IF s < slots' THEN "free" ELSE "none"]
  /\ UNCHANGED <<undone, shown, lane, tiled, halted>>

Put(s, where) == hand' = [hand EXCEPT ![s] = where]

\* The window is open: on_session_opened registers it and waits for its turn.
OpenedWindow(s) ==
  /\ hand[s] = "free" /\ ~halted /\ undone > 0
  /\ undone' = undone - 1
  /\ shown' = shown \cup {s}
  /\ Put(s, "enter")
  /\ UNCHANGED <<planVars, lane, tiled, halted>>

LeavesPool(s) ==
  /\ hand[s] = "free" /\ (halted \/ undone = 0)
  /\ Put(s, "done")
  /\ UNCHANGED <<planVars, undone, shown, lane, tiled, halted>>

\* The task is over and close_profile has been tried: on_session_closed forgets the window.
ClosedWindow(s) ==
  /\ hand[s] \in {"work", "closing"}
  /\ shown' = shown \ {s}
  /\ Put(s, "leave")
  /\ UNCHANGED <<planVars, undone, lane, tiled, halted>>

Waits(s) == lane = -1 /\ hand[s] \in {"enter", "leave"}

\* Mutant of TakeLane: the windows are those of the last turn, and the one that came.
TakeLaneBlind(s) ==
  /\ Waits(s) /\ shown # {}
  /\ lane' = s
  /\ tiled' = tiled \cup {s}
  /\ UNCHANGED <<planVars, hand, undone, shown, halted>>

TakeLane(s) ==
  /\ Waits(s) /\ shown # {}
  /\ lane' = s
  /\ tiled' = shown
  /\ UNCHANGED <<planVars, hand, undone, shown, halted>>

GoOn(s) == Put(s, IF hand[s] = "enter" THEN "work" ELSE "free")

NothingToLay(s) ==
  /\ Waits(s) /\ shown = {}
  /\ GoOn(s)
  /\ UNCHANGED <<planVars, undone, shown, lane, tiled, halted>>

Arranged(s) ==
  /\ lane = s /\ lane' = -1
  /\ GoOn(s)
  /\ UNCHANGED <<planVars, undone, shown, tiled, halted>>

\* cancel_batch, and the CancelledError in a worker: on its way in it closes the window it
\* opened; in on_session_closed nothing catches it.
HaltBatch ==
  /\ slots > 0 /\ ~halted /\ halted' = TRUE
  /\ UNCHANGED <<planVars, hand, undone, shown, lane, tiled>>

HaltWorker(s) ==
  /\ halted /\ hand[s] \in {"enter", "work", "leave"}
  /\ Put(s, IF hand[s] = "leave" THEN "done" ELSE "closing")
  /\ lane' = IF lane = s THEN -1 ELSE lane
  /\ UNCHANGED <<planVars, undone, shown, tiled, halted>>
----------------------------------------------------------------------------
LayoutStep(s) ==
  \/ OpenedWindow(s) \/ LeavesPool(s) \/ ClosedWindow(s)
  \/ TakeLane(s) \/ NothingToLay(s) \/ Arranged(s)
  \/ HaltWorker(s)

LayoutNext ==
  \/ \E sc \in Screens \cup {NoScreen}, want \in Wishes, asked \in Requested,
       native, os \in BOOLEAN : LayRun(sc, want, asked, native, os)
  \/ \E s \in Slots : LayoutStep(s)
  \/ HaltBatch

LayoutSpec == LayoutInit /\ [][LayoutNext]_layoutVars
----------------------------------------------------------------------------
HandPc == {"none", "free", "enter", "work", "closing", "leave", "done"}

LayoutTypeOK ==
  /\ slots \in 0..MaxSlotLimit
  /\ hand \in [Slots -> HandPc]
  /\ undone \in 0..Tasks
  /\ shown \subseteq Slots /\ tiled \subseteq Slots
  /\ lane \in Slots \cup {-1}
  /\ works \in [native : BOOLEAN, os : BOOLEAN] /\ halted \in BOOLEAN

\* No worker has something to arrange, or is about to be told that it is cancelled.
AtRest ==
  /\ lane = -1
  /\ \A s \in Slots : hand[s] \in {"none", "free", "done"} \/ (hand[s] = "work" /\ ~halted)

\* When nothing is being arranged, the last arrangement was about just the windows that
\* are active, however the workers opened and closed theirs while others were arranged
\* (arrange_active_windows reads the sessions under the lock, and each worker calls it).
LayoutCatchesUp == AtRest /\ shown # {} => tiled = shown

Apart(a, b) ==
  \/ a.x + a.w <= b.x \/ b.x + b.w <= a.x
  \/ a.y + a.h <= b.y \/ b.y + b.h <= a.y

Fits(sc, limit) ==
  LET c == Columns(limit, sc)
      r == Ceil(limit, c)
  IN /\ Bounds(sc).right - Bounds(sc).left - Margin * (c + 1) >= c
     /\ Bounds(sc).bottom - Bounds(sc).top - TopOffset - BottomReserved - Margin * (r + 1) >= r

OnScreen(a, sc) ==
  /\ a.x >= Bounds(sc).left /\ a.x + a.w <= Bounds(sc).right
  /\ a.y >= Bounds(sc).top /\ a.y + a.h <= Bounds(sc).bottom

Placed == works.os \/ works.native

\* Once an arrangement went through, no two active windows overlap, and none reaches over
\* the screen where there is room for the grid at all: the grid, the cells, the size of a
\* window and the provider's own tiling agree (build_plan, _fit_dimension,
\* provider_tile_payload).
TilesApart ==
  AtRest /\ Placed =>
    /\ \A i, k \in shown : i # k => Apart(Spot(i), Spot(k))
    /\ Fits(screen, slots) => \A i \in shown : OnScreen(Spot(i), screen)
=============================================================================
