------------------------------ MODULE Curriculum ------------------------------
(***************************************************************************)
(* The order of a course's modules, of a module's lessons, of a lesson's   *)
(* content blocks and of a quiz's questions: the create, delete and        *)
(* reorder requests of CurriculumService (internal/service/curriculum.go)  *)
(* and AssessmentService (AddQuestion, DeleteQuestion, ReorderQuestions)   *)
(* over internal/repository/postgres, which are four times the same.  The  *)
(* items here are those of one parent.                                     *)
(*                                                                         *)
(* A unique index keeps positions of a parent apart, row by row.  Titles,  *)
(* slugs and contents decide nothing about positions.                      *)
(***************************************************************************)
EXTENDS Requests, Sequences

CONSTANTS
    Items,     \* modules, lessons, blocks or questions; a row that is deleted may come back
    ListBound, \* bound on the length of a reorder list
    LastPlace  \* bound on positions

ASSUME CurriculumAssumption ==
    /\ IsFiniteSet(Items)
    /\ ListBound \in Nat /\ LastPlace \in Nat
    /\ ListBound <= LastPlace + 1  \* a list fills places within the bound

VARIABLE place  \* position of the items that are there

curriculumVars == <<requests, place>>

Placed == {i \in Items : place[i] # Nothing}

CurriculumInit ==
    /\ RequestsInit
    /\ place = [i \in Items |-> Nothing]

\* As if it were COALESCE(MAX(position), -1).
NextPositionWithoutOne ==
    IF Placed = {} THEN -1
    ELSE CHOOSE n \in 0..LastPlace :
            /\ \A i \in Placed : place[i] <= n
            /\ \E i \in Placed : place[i] = n

\* As if it were COUNT(*).
NextPositionByCount == Cardinality(Placed)

\* NextPosition: COALESCE(MAX(position), -1) + 1
NextPosition ==
    CHOOSE n \in 0..(LastPlace + 1) :
        /\ \A i \in Placed : place[i] < n
        /\ n > 0 => \E i \in Placed : place[i] = n - 1

\* CreateModule, CreateLesson, CreateBlock, AddQuestion: NextPosition
BeginCreateItem(w) ==
    /\ Idle(w)
    /\ NextPosition <= LastPlace
    /\ Hold(w, "item.insert", NextPosition)
    /\ UNCHANGED place

\* modules.Create and its like: the unique index refuses a place that was taken
\* since.
InsertItem(w) ==
    /\ At(w, "item.insert")
    /\ IF \E i \in Placed : place[i] = loc[w]
       THEN UNCHANGED place
       ELSE \E i \in Items \ Placed : place' = [place EXCEPT ![i] = loc[w]]
    /\ Finish(w)

\* DeleteModule, DeleteLesson, DeleteBlock: the places of the others stay.
DeleteItem(w, i) ==
    /\ AtOnce(w)
    /\ i \in Placed
    /\ place' = [place EXCEPT ![i] = Nothing]

\* What an ids list leaves: each row is moved out of the way, then to its index
\* in the list, the last one if it is listed twice.  A list is not required to
\* name every item.
Reordered(ids) ==
    LET listed  == {ids[k] : k \in 1..Len(ids)}
        last(i) == CHOOSE k \in 1..Len(ids) :
                        /\ ids[k] = i
                        /\ \A m \in (k + 1)..Len(ids) : ids[m] # i
    IN  [i \in Items |-> IF i \in listed THEN last(i) - 1 ELSE place[i]]

\* reorderPositions fails, and its transaction changes nothing, when an id is
\* not an item of the parent, or an item that is not listed has one of the
\* places 0, 1, ... the list fills.
Reorderable(ids) ==
    /\ \A k \in 1..Len(ids) : ids[k] \in Placed
    /\ \A i \in Placed :
        (\A k \in 1..Len(ids) : ids[k] # i) => place[i] >= Len(ids)

\* reorderPositions: one transaction, which row locks and the unique index make
\* atomic towards the other statements.
Reorder(w, ids) ==
    /\ AtOnce(w)
    /\ Reorderable(ids)
    /\ place' = Reordered(ids)

AbortCurriculum(w) == Abort(w) /\ UNCHANGED place

\* The ids lists of the requests.
Lists == UNION {[1..n -> Items] : n \in 1..ListBound}

CurriculumNext == \E w \in setting.workers :
    \/ BeginCreateItem(w) \/ InsertItem(w)
    \/ \E i \in Items : DeleteItem(w, i)
    \/ \E ids \in Lists : Reorder(w, ids)
    \/ AbortCurriculum(w)

CurriculumSpec == CurriculumInit /\ [][CurriculumNext]_curriculumVars

-------------------------------------------------------------------------------
(* Properties                                                              *)

\* Positions are numbers from 0; a worker under way holds the one it read.
CurriculumTypeOK ==
    /\ place \in [Items -> 0..LastPlace \cup {Nothing}]
    /\ \A w \in setting.workers :
        \/ pc[w] = "idle" /\ loc[w] = Nothing
        \/ pc[w] = "item.insert" /\ loc[w] \in 0..LastPlace

\* Two authors insert, delete and reorder at the same time (curriculum.go:94,
\* :165, :270 read a place the insert uses later), lists may repeat or leave out
\* items: two items never share a place, so the order learners see is one.
PlacesDistinct ==
    \A i, j \in Placed : place[i] = place[j] => i = j

\* A list that leaves items out, or names one twice (curriculum.go:388 of the
\* repository checks neither): what moves ends up before everything that does
\* not, and what does not move keeps its place.  A request at a time, a new item
\* comes after all others, whatever gaps deletions and reorders left.  And, however
\* they race, PlacesDistinct.
PlacesKeepOrder ==
    [][/\ \A w \in setting.workers, ids \in Lists : Reorder(w, ids) =>
            \A i \in Placed, k \in 1..Len(ids) :
                (\A m \in 1..Len(ids) : ids[m] # i) =>
                    place'[i] = place[i] /\ place'[ids[k]] < place'[i]
       /\ Alone => \A i \in Items :
            place[i] = Nothing /\ place'[i] # Nothing =>
                \A j \in Placed : place[j] < place'[i]
       /\ PlacesDistinct']_curriculumVars
===============================================================================
