----------------------------- MODULE LayoutRepair -----------------------------
(***************************************************************************)
(* Repair, for one candidate: the coordinates that mutation and crossover  *)
(* produced are turned into a feasible layout.  There are four of them.    *)
(* hpc/fode_cpp/src/optimizer.cpp and hpc/wflop_cpp/src/algorithms.cpp     *)
(* take as many coordinates as there are turbines, on a grid with blocked  *)
(* cells; the first falls back to the first free cell when its draws are   *)
(* used up, the second draws until it hits one.  repair and repair_ordered *)
(* of hpc/gga_cpp/src/main.cpp (GGA and GeoGA, T-MOEA) take any number of  *)
(* candidates, none of them blocked; the first drops drawn ones of too     *)
(* many, the second all but the first.  The random stream may draw any     *)
(* cell at any time.                                                       *)
(***************************************************************************)
EXTENDS Integers, FiniteSets

CONSTANTS
  Grid,       \* rows * cols
  Blocked,    \* unavailable cells
  Turbines,   \* dimension
  DrawLimit,  \* 10000 * grid_dimension
  Proposed,   \* the cells a coordinate may round to, on the grid or not
  Longest     \* bound on the coordinates of a GGA candidate

Cells == 1 .. Grid

\* initialize_population refuses a case without room for its turbines.
ASSUME RepairAssumption ==
  /\ Grid \in Nat /\ DrawLimit \in Nat
  /\ Blocked \subseteq Cells
  /\ Turbines \in 1 .. Cardinality(Cells \ Blocked)
  /\ Proposed \subseteq Int
  /\ Longest \in Nat

OnGrid == {"fode", "wflop"}

VARIABLES
  program,   \* whose repair it is: "fode", "wflop", "gga" or "tmoea"
  asked,     \* coordinates of the candidate
  pc,        \* "mark", "fill" or "done"
  marked,    \* d: coordinates looked at
  occupied,  \* occupied cells, the blocked ones left out
  placed,    \* placed
  draw,      \* draw, where a limit asks for it
  layout,    \* the cells written back
  wanted     \* history variable: available cells a coordinate asked for

vars == <<program, asked, pc, marked, occupied, placed, draw, layout, wanted>>

\* The cells program may use.
Available == IF program \in OnGrid THEN Cells \ Blocked ELSE Cells

Init ==
  /\ program \in OnGrid \cup {"gga", "tmoea"}
  /\ asked \in IF program = "gga" THEN 0 .. Longest ELSE {Turbines}
  /\ pc = "mark"
  /\ marked = 0 /\ occupied = {} /\ placed = 0 /\ draw = 0
  /\ layout = {} /\ wanted = {}

\* One coordinate: a blocked cell is ignored, and so is one off the grid, unless it is
\* drawn again; T-MOEA takes no more than there are turbines.
MarkCell(cell) ==
  LET Fits(c) ==
        occupied' = IF program = "tmoea" /\ Cardinality(occupied) = Turbines
                      THEN occupied ELSE occupied \cup ({c} \cap Available)
  IN /\ wanted' = wanted \cup ({cell} \cap Available)
     /\ IF cell \in Cells \/ program \notin OnGrid
          THEN Fits(cell)
          ELSE \E c \in Cells : Fits(c)

Mark ==
  /\ pc = "mark" /\ marked < asked
  /\ \E cell \in Proposed : MarkCell(cell)
  /\ marked' = marked + 1
  /\ UNCHANGED <<program, asked, pc, placed, draw, layout>>

CountPlaced ==
  /\ pc = "mark" /\ marked = asked
  /\ placed' = Cardinality(occupied)
  /\ pc' = "fill"
  /\ UNCHANGED <<program, asked, marked, occupied, draw, layout, wanted>>

\* The cells that are neither occupied nor blocked, for a given occupation.
FreeCells(taken) == Available \ taken

FirstOf(cells) == {c \in cells : \A x \in cells : c <= x}

Take(cells) ==
  /\ occupied' = occupied \cup cells
  /\ placed' = placed + Cardinality(cells)

\* Faulty variant of Fallback: it does not wait for the limit.
FallbackAlways(taken) == FirstOf(FreeCells(taken))

\* Past the limit the first free cell is taken as well.
Fallback(taken) == IF draw' > DrawLimit THEN FirstOf(FreeCells(taken)) ELSE {}

\* Faulty variant of Fill: past the limit the count of draws starts over.
FillByChance ==
  /\ program = "fode"
  /\ pc = "fill" /\ placed < Turbines
  /\ draw' = (draw + 1) % (DrawLimit + 1)
  /\ \E cell \in Cells : Take({cell} \cap FreeCells(occupied))
  /\ UNCHANGED <<program, asked, pc, marked, layout, wanted>>

\* FODE: one draw, and the fallback, also when the draw had just placed the last one
\* that was missing.
Fill ==
  /\ program = "fode"
  /\ pc = "fill" /\ placed < Turbines
  /\ draw' = draw + 1
  /\ \E cell \in Cells :
       LET drawn == {cell} \cap FreeCells(occupied)
       IN Take(drawn \cup Fallback(occupied \cup drawn))
  /\ UNCHANGED <<program, asked, pc, marked, layout, wanted>>

\* The others: a draw that hits a used or blocked cell changes nothing.
Draw(cell) ==
  /\ program # "fode"
  /\ pc = "fill" /\ placed < Turbines
  /\ Take({cell} \cap FreeCells(occupied))
  /\ UNCHANGED <<program, asked, pc, marked, draw, layout, wanted>>

\* GGA has more than it needs: one drawn cell goes.
Drop ==
  /\ program = "gga"
  /\ pc = "fill" /\ placed > Turbines
  /\ \E cell \in occupied : occupied' = occupied \ {cell}
  /\ placed' = placed - 1
  /\ UNCHANGED <<program, asked, pc, marked, draw, layout, wanted>>

\* Faulty variant of Output: the loop does not stop at the dimension.
OutputEverything == occupied

\* The first cells, in order, as many as there are turbines.
Output == {c \in occupied : Cardinality({x \in occupied : x < c}) < Turbines}

Emit ==
  /\ pc = "fill" /\ placed >= Turbines
  /\ program = "gga" => placed = Turbines
  /\ layout' = Output
  /\ pc' = "done"
  /\ UNCHANGED <<program, asked, marked, occupied, placed, draw, wanted>>

Done == pc = "done" /\ UNCHANGED vars

Next ==
  \/ Mark \/ CountPlaced \/ Fill \/ Drop \/ Emit \/ Done
  \/ \E cell \in Cells : Draw(cell)

Spec == Init /\ [][Next]_vars

\* The loops are scheduled.  Of what the stream draws, nothing is assumed for FODE; in
\* the others it leaves no cell out for ever, drawing each with the same probability.
FairSpec ==
  /\ Spec
  /\ WF_vars(Mark \/ CountPlaced \/ Fill \/ Drop \/ Emit)
  /\ \A cell \in Cells : WF_vars(Draw(cell))
-----------------------------------------------------------------------------
(* Properties.                                                             *)

\* What the evaluator requires of a row: exactly one cell per turbine, all
\* different (a set here), on the grid and available, whatever was drawn.
Feasible ==
  pc = "done" =>
    /\ layout \subseteq Available
    /\ Cardinality(layout) = Turbines

\* Repair respects what the search asked for: all available cells of a candidate survive
\* when there is room for them, and nothing else is put in when there is not.  Only the
\* fallback of FODE may push out one of them, and only once the draws are used up.
ProposalKept ==
  pc = "done" =>
    /\ draw <= DrawLimit => wanted \subseteq layout \/ layout \subseteq wanted
    /\ program \in OnGrid => Cardinality(wanted \ layout) <= 1

\* Repair ends: with the fallback even when the stream keeps drawing occupied cells,
\* without it on every stream that leaves no cell out, whatever is blocked.
RepairEnds == <>(pc = "done")
=============================================================================
