----------------------------- MODULE CourseProofs -----------------------------
(***************************************************************************)
(* Theorems about a course: its catalogue entry, its curriculum, what it   *)
(* shows, its announcements and discussions, its assignments, the progress *)
(* and certificates of its learners and the reports about them, and of all *)
(* of these in one system, for every number of items, learners and         *)
(* requests at a time, with or without failing requests.                   *)
(***************************************************************************)
EXTENDS Areas, RequestsProofs, SequenceTheorems

-------------------------------------------------------------------------------
(* Numbers: what NextPosition and the last index of an item rest on        *)

LEMMA GreatestIndex ==
    ASSUME NEW N \in Nat, NEW T \in SUBSET (1..N), T # {}
    PROVE  \E k \in T : \A m \in (k + 1)..N : m \notin T
<1> DEFINE D == {N - k : k \in T}
<1>1. D \in SUBSET Nat /\ D # {}
  <2>1. \A k \in T : N - k \in Nat
    OBVIOUS
  <2>2. PICK k \in T : TRUE
    OBVIOUS
  <2>3. N - k \in D
    BY <2>2
  <2>4. \A d \in D : d \in Nat
    BY <2>1
  <2> QED
    BY <2>3, <2>4
<1>2. PICK d \in D : \A e \in D : d <= e
  BY <1>1, LeastNumber
<1>3. PICK k \in T : d = N - k
  OBVIOUS
<1>4. ASSUME NEW m \in (k + 1)..N, m \in T PROVE FALSE
  <2>1. N - m \in D
    BY <1>4
  <2>2. N - k <= N - m
    BY <1>2, <1>3, <2>1
  <2> QED
    BY <1>3, <1>4, <2>2
<1> QED
  BY <1>4

-------------------------------------------------------------------------------
(* The curriculum: what a list leaves, and the place a new item gets       *)

\* A list puts what it names at the index it names it at, before all the rest.
LEMMA ReorderedPlaces ==
    ASSUME NEW n \in Nat, NEW ids \in [1..n -> Items], Reorderable(ids),
           place \in [Items -> 0..LastPlace \cup {Nothing}]
    PROVE  /\ Reordered(ids) = [i \in Items |-> Reordered(ids)[i]]
           /\ \A i \in Items : \/ /\ \A k \in 1..n : ids[k] # i
                                  /\ Reordered(ids)[i] = place[i]
                               \/ \E k \in 1..n : ids[k] = i /\ Reordered(ids)[i] = k - 1
           /\ \A k \in 1..n : Reordered(ids)[ids[k]] \in 0..(n - 1)
           /\ \A i \in Placed : (\A k \in 1..n : ids[k] # i) => place[i] >= n
<1>1. Len(ids) = n /\ ids \in Seq(Items)
  OBVIOUS
<1> DEFINE listed  == {ids[k] : k \in 1..Len(ids)}
           last(i) == CHOOSE k \in 1..Len(ids) :
                           /\ ids[k] = i
                           /\ \A m \in (k + 1)..Len(ids) : ids[m] # i
<1>2. Reordered(ids) = [i \in Items |-> IF i \in listed THEN last(i) - 1 ELSE place[i]]
  BY DEF Reordered
<1>3. ASSUME NEW i \in listed PROVE last(i) \in 1..n /\ ids[last(i)] = i
  <2> DEFINE T == {k \in 1..n : ids[k] = i}
  <2>1. T \in SUBSET (1..n) /\ T # {}
    BY <1>1, <1>3
  <2>2. PICK k \in T : \A m \in (k + 1)..n : m \notin T
    BY <2>1, GreatestIndex
  <2>3. /\ k \in 1..Len(ids) /\ ids[k] = i
        /\ \A m \in (k + 1)..Len(ids) : ids[m] # i
    BY <1>1, <2>2
  <2> QED
    BY <1>1, <2>3
<1> HIDE DEF last
<1>4. ASSUME NEW i \in Items
      PROVE  \/ /\ \A k \in 1..n : ids[k] # i
                /\ Reordered(ids)[i] = place[i]
             \/ \E k \in 1..n : ids[k] = i /\ Reordered(ids)[i] = k - 1
  <2>1. CASE i \in listed
    <3>1. last(i) \in 1..n /\ ids[last(i)] = i /\ Reordered(ids)[i] = last(i) - 1
      BY <1>2, <1>3, <2>1
    <3> QED
      BY <3>1
  <2>2. CASE i \notin listed
    BY <1>1, <1>2, <2>2
  <2> QED
    BY <2>1, <2>2
<1>5. ASSUME NEW k \in 1..n PROVE Reordered(ids)[ids[k]] \in 0..(n - 1)
  <2>1. ids[k] \in Items
    OBVIOUS
  <2>2. PICK m \in 1..n : ids[m] = ids[k] /\ Reordered(ids)[ids[k]] = m - 1
    BY <1>4, <2>1
  <2> QED
    BY <2>2
<1>6. \A i \in Placed : (\A k \in 1..n : ids[k] # i) => place[i] >= n
  BY <1>1 DEF Reorderable
<1> QED
  BY <1>2, <1>4, <1>5, <1>6

\* NextPosition comes after every place in use.
LEMMA NextPositionAfter ==
    ASSUME place \in [Items -> 0..LastPlace \cup {Nothing}]
    PROVE  NextPosition \in 0..(LastPlace + 1) /\ \A i \in Placed : place[i] < NextPosition
<1>1. LastPlace \in Nat
  BY CurriculumAssumption
<1> DEFINE T == {n \in 0..(LastPlace + 1) : \A i \in Placed : place[i] < n}
<1>2. \A i \in Placed : place[i] \in 0..LastPlace
  BY DEF Placed
<1>3. LastPlace + 1 \in T /\ T \in SUBSET Nat
  BY <1>1, <1>2
<1>4. PICK n \in T : \A m \in T : n <= m
  BY <1>3, LeastNumber
<1>5. n > 0 => \E i \in Placed : place[i] = n - 1
  <2> SUFFICES ASSUME n > 0, \A i \in Placed : place[i] # n - 1 PROVE FALSE
    OBVIOUS
  <2>1. n \in 0..(LastPlace + 1) /\ \A i \in Placed : place[i] < n
    OBVIOUS
  <2>2. \A i \in Placed : place[i] < n - 1
    BY <1>2, <2>1
  <2>3. n - 1 \in T
    BY <1>1, <2>1, <2>2
  <2> QED
    BY <1>4, <2>1, <2>3
<1>6. \E m \in 0..(LastPlace + 1) :
        /\ \A i \in Placed : place[i] < m
        /\ m > 0 => \E i \in Placed : place[i] = m - 1
  BY <1>5
<1> QED
  BY <1>6 DEF NextPosition

\* What makes both properties inductive: a request that is alone holds a place
\* after all others until it uses it.
PlaceAfterAll ==
    Alone => \A w \in setting.workers :
        pc[w] = "item.insert" => \A i \in Placed : place[i] < loc[w]

CurriculumInv == Shaped /\ CurriculumTypeOK /\ PlacesDistinct /\ PlaceAfterAll

LEMMA CurriculumInitInv == CurriculumInit => CurriculumInv
<1> SUFFICES ASSUME CurriculumInit PROVE CurriculumInv
  OBVIOUS
<1>1. Shaped
  BY ShapedInit DEF CurriculumInit
<1> QED
  BY <1>1
  DEF CurriculumInit, RequestsInit, CurriculumInv, CurriculumTypeOK, PlacesDistinct,
      PlaceAfterAll, Placed

\* A worker that comes to hold a place, or nothing, keeps the others' types.
LEMMA HeldPlaces ==
    ASSUME CurriculumInv, NEW w \in setting.workers, NEW label, NEW l, Moved(w, label, l),
           \/ label = "idle" /\ l = Nothing
           \/ label = "item.insert" /\ l \in 0..LastPlace
    PROVE  \A v \in setting'.workers :
               \/ pc'[v] = "idle" /\ loc'[v] = Nothing
               \/ pc'[v] = "item.insert" /\ loc'[v] \in 0..LastPlace
BY DEF CurriculumInv, CurriculumTypeOK, Moved

LEMMA CurriculumBegin ==
    ASSUME CurriculumInv, NEW w \in setting.workers, BeginCreateItem(w)
    PROVE  CurriculumInv'
<1>1. /\ Shaped /\ place \in [Items -> 0..LastPlace \cup {Nothing}]
      /\ PlacesDistinct /\ LastPlace \in Nat
  BY CurriculumAssumption DEF CurriculumInv, CurriculumTypeOK
<1>2. Shaped' /\ Moved(w, "item.insert", NextPosition) /\ place' = place
  BY <1>1, HoldMoves DEF BeginCreateItem
<1>3. NextPosition \in 0..LastPlace /\ \A i \in Placed : place[i] < NextPosition
  BY <1>1, NextPositionAfter DEF BeginCreateItem
<1>4. CurriculumTypeOK'
  BY <1>1, <1>2, <1>3, HeldPlaces DEF CurriculumTypeOK
<1>5. PlacesDistinct' /\ Placed' = Placed
  BY <1>1, <1>2 DEF PlacesDistinct, Placed
<1>6. PlaceAfterAll'
  <2>1. ASSUME Alone, NEW v \in setting.workers PROVE loc'[v] = NextPosition
    BY <1>1, <1>2, <2>1, AloneOne DEF Moved
  <2> QED
    BY <1>2, <1>3, <1>5, <2>1 DEF PlaceAfterAll, Moved, Alone
<1> QED
  BY <1>2, <1>4, <1>5, <1>6 DEF CurriculumInv

LEMMA CurriculumInsert ==
    ASSUME CurriculumInv, NEW w \in setting.workers, InsertItem(w)
    PROVE  CurriculumInv'
<1>1. /\ Shaped /\ place \in [Items -> 0..LastPlace \cup {Nothing}]
      /\ PlacesDistinct
  BY DEF CurriculumInv, CurriculumTypeOK
<1>2. Shaped' /\ Moved(w, "idle", Nothing) /\ loc[w] \in 0..LastPlace
  BY <1>1, FinishMoves DEF InsertItem, At, CurriculumInv, CurriculumTypeOK
<1>3. \/ place' = place
      \/ \E i \in Items \ Placed :
            place' = [place EXCEPT ![i] = loc[w]] /\ \A j \in Placed : place[j] # loc[w]
  BY DEF InsertItem
<1>4. place' \in [Items -> 0..LastPlace \cup {Nothing}] /\ PlacesDistinct'
  BY <1>1, <1>2, <1>3 DEF PlacesDistinct, Placed
<1>5. CurriculumTypeOK'
  BY <1>2, <1>4, HeldPlaces DEF CurriculumTypeOK
<1>6. PlaceAfterAll'
  BY <1>1, <1>2, AloneOne DEF PlaceAfterAll, Moved, Alone
<1> QED
  BY <1>2, <1>4, <1>5, <1>6 DEF CurriculumInv

LEMMA CurriculumDelete ==
    ASSUME CurriculumInv, NEW w \in setting.workers, NEW i \in Items, DeleteItem(w, i)
    PROVE  CurriculumInv'
<1>1. /\ Shaped /\ place \in [Items -> 0..LastPlace \cup {Nothing}]
      /\ PlacesDistinct /\ CurriculumTypeOK
  BY DEF CurriculumInv, CurriculumTypeOK
<1>2. Shaped' /\ setting' = setting /\ pc' = pc /\ loc' = loc /\ pc[w] = "idle"
  BY <1>1, StayShaped DEF DeleteItem, AtOnce, Idle
<1>3. place' = [place EXCEPT ![i] = Nothing]
  BY DEF DeleteItem
<1>4. CurriculumTypeOK' /\ PlacesDistinct'
  BY <1>1, <1>2, <1>3 DEF CurriculumTypeOK, PlacesDistinct, Placed
<1>5. PlaceAfterAll'
  BY <1>1, <1>2, AloneOne DEF PlaceAfterAll, Alone
<1> QED
  BY <1>2, <1>4, <1>5 DEF CurriculumInv

LEMMA CurriculumReorder ==
    ASSUME CurriculumInv, NEW w \in setting.workers, NEW ids \in Lists, Reorder(w, ids)
    PROVE  CurriculumInv'
<1>1. /\ Shaped /\ place \in [Items -> 0..LastPlace \cup {Nothing}]
      /\ PlacesDistinct /\ CurriculumTypeOK
      /\ ListBound \in Nat /\ LastPlace \in Nat /\ ListBound <= LastPlace + 1
  BY CurriculumAssumption DEF CurriculumInv, CurriculumTypeOK
<1>2. Shaped' /\ setting' = setting /\ pc' = pc /\ loc' = loc /\ pc[w] = "idle"
  BY <1>1, StayShaped DEF Reorder, AtOnce, Idle
<1>3. Reorderable(ids) /\ place' = Reordered(ids)
  BY DEF Reorder
<1>4. PICK n \in 1..ListBound : ids \in [1..n -> Items]
  BY DEF Lists
<1>5. /\ place' = [i \in Items |-> place'[i]]
      /\ \A i \in Items : \/ (\A k \in 1..n : ids[k] # i) /\ place'[i] = place[i]
                          \/ \E k \in 1..n : ids[k] = i /\ place'[i] = k - 1
      /\ \A i \in Placed : (\A k \in 1..n : ids[k] # i) => place[i] >= n
  BY <1>1, <1>3, <1>4, ReorderedPlaces
<1>6. \A i \in Items : place'[i] \in 0..LastPlace \cup {Nothing}
  BY <1>1, <1>5
<1>7. PlacesDistinct'
  <2> SUFFICES ASSUME NEW i \in Items, NEW j \in Items,
                      place'[i] # Nothing, place'[i] = place'[j]
               PROVE  i = j
    BY DEF PlacesDistinct, Placed
  <2>1. CASE /\ \A k \in 1..n : ids[k] # i
             /\ \A k \in 1..n : ids[k] # j
    BY <1>1, <1>5, <2>1 DEF PlacesDistinct, Placed
  <2>2. ASSUME NEW x \in Items, NEW k \in 1..n, place'[x] = k - 1,
               place'[x] # Nothing, \A m \in 1..n : ids[m] # x
        PROVE  FALSE
    <3>1. place[x] = k - 1 /\ place[x] \in 0..LastPlace \cup {Nothing}
      BY <1>1, <1>5, <2>2
    <3>2. CASE place[x] # Nothing
      BY <1>5, <2>2, <3>1, <3>2 DEF Placed
    <3> QED
      BY <2>2, <3>1, <3>2
  <2> QED
    BY <1>5, <2>1, <2>2
<1>8. CurriculumTypeOK'
  BY <1>1, <1>2, <1>5, <1>6 DEF CurriculumTypeOK
<1>9. PlaceAfterAll'
  BY <1>1, <1>2, AloneOne DEF PlaceAfterAll, Alone
<1> QED
  BY <1>2, <1>7, <1>8, <1>9 DEF CurriculumInv

LEMMA CurriculumNextInv ==
    ASSUME CurriculumInv, [CurriculumNext]_curriculumVars
    PROVE  CurriculumInv'
<1>1. ASSUME NEW w \in setting.workers, AbortCurriculum(w) PROVE CurriculumInv'
  <2>1. Shaped /\ CurriculumTypeOK /\ PlacesDistinct /\ place' = place
    BY <1>1 DEF AbortCurriculum, CurriculumInv
  <2>2. Shaped' /\ Moved(w, "idle", Nothing)
    BY <1>1, <2>1, FinishMoves DEF AbortCurriculum, Abort
  <2>3. CurriculumTypeOK'
    BY <2>1, <2>2, HeldPlaces DEF CurriculumTypeOK
  <2>4. PlaceAfterAll'
    BY <2>1, <2>2, AloneOne DEF PlaceAfterAll, Moved, Alone
  <2> QED
    BY <2>1, <2>2, <2>3, <2>4 DEF CurriculumInv, PlacesDistinct, Placed
<1>2. CASE UNCHANGED curriculumVars
  <2>1. Shaped' /\ setting' = setting /\ pc' = pc /\ loc' = loc /\ place' = place
    BY <1>2, StayShaped DEF curriculumVars, CurriculumInv
  <2> QED
    BY <2>1 DEF CurriculumInv, CurriculumTypeOK, PlacesDistinct, PlaceAfterAll, Placed, Alone
<1> QED
  BY <1>1, <1>2, CurriculumBegin, CurriculumInsert, CurriculumDelete, CurriculumReorder
  DEF CurriculumNext

\* Creations read a place, insert and fail, deletions and reorders come in between
\* (curriculum.go:94, :165, :270), a list names an item twice or not at all: two
\* items never share a place, for any number of items, workers and list lengths.
THEOREM PlacesTheorem == CurriculumSpec => []PlacesDistinct
<1>1. CurriculumInv => PlacesDistinct
  BY DEF CurriculumInv
<1> QED
  BY <1>1, CurriculumInitInv, CurriculumNextInv, PTL DEF CurriculumSpec

\* What a reorder does to the items it names and to those it does not.
LEMMA ReorderKeepsOrder ==
    ASSUME CurriculumInv, NEW w \in setting.workers, NEW ids \in Lists, Reorder(w, ids),
           NEW i \in Placed, NEW k \in 1..Len(ids), \A m \in 1..Len(ids) : ids[m] # i
    PROVE  place'[i] = place[i] /\ place'[ids[k]] < place'[i]
<1>1. Reorderable(ids) /\ place' = Reordered(ids) /\ LastPlace \in Nat
      /\ place \in [Items -> 0..LastPlace \cup {Nothing}] /\ i \in Items
  BY CurriculumAssumption DEF Reorder, CurriculumInv, CurriculumTypeOK, Placed
<1>2. PICK n \in 1..ListBound : ids \in [1..n -> Items]
  BY DEF Lists
<1>3. Len(ids) = n /\ n \in Nat
  BY <1>2, CurriculumAssumption
<1>4. place'[i] = place[i]
  BY <1>1, <1>2, <1>3, ReorderedPlaces
<1>5. place'[ids[k]] \in 0..(n - 1) /\ place[i] >= n /\ place[i] \in 0..LastPlace
  BY <1>1, <1>2, <1>3, ReorderedPlaces DEF Placed
<1> QED
  BY <1>3, <1>4, <1>5

\* A request at a time, an item that comes to be there comes after all others.
LEMMA NewItemComesLast ==
    ASSUME CurriculumInv, [CurriculumNext]_curriculumVars, Alone,
           NEW i \in Items, place[i] = Nothing, place'[i] # Nothing, NEW j \in Placed
    PROVE  place[j] < place'[i]
<1>1. place \in [Items -> 0..LastPlace \cup {Nothing}]
  BY DEF CurriculumInv, CurriculumTypeOK
<1>2. ASSUME NEW w \in setting.workers, InsertItem(w) PROVE place[j] < place'[i]
  <2>1. pc[w] = "item.insert" /\ place'[i] = loc[w]
    BY <1>1, <1>2 DEF InsertItem, At
  <2> QED
    BY <2>1 DEF CurriculumInv, PlaceAfterAll
<1>3. ASSUME NEW w \in setting.workers, NEW ids \in Lists, Reorder(w, ids) PROVE FALSE
  <2>1. Reorderable(ids) /\ place' = Reordered(ids)
    BY <1>3 DEF Reorder
  <2>2. PICK n \in 1..ListBound : ids \in [1..n -> Items]
    BY DEF Lists
  <2>3. n \in Nat /\ Len(ids) = n
    BY <2>2, CurriculumAssumption
  <2>4. PICK k \in 1..n : ids[k] = i
    BY <1>1, <2>1, <2>2, <2>3, ReorderedPlaces
  <2> QED
    BY <2>1, <2>3, <2>4 DEF Reorderable, Placed
<1>4. ASSUME NEW w \in setting.workers, NEW k \in Items, DeleteItem(w, k) PROVE FALSE
  BY <1>1, <1>4 DEF DeleteItem
<1>5. place' # place
  OBVIOUS
<1> QED
  BY <1>2, <1>3, <1>4, <1>5
  DEF CurriculumNext, curriculumVars, BeginCreateItem, AbortCurriculum

\* Whatever gaps deletions and partial lists left (curriculum.go:388 of the
\* repository): a list moves what it names before what it does not, and leaves the
\* latter alone; of requests that run one at a time, a new item comes last.
THEOREM OrderTheorem == CurriculumSpec => PlacesKeepOrder
<1>1. ASSUME CurriculumInv, [CurriculumNext]_curriculumVars
      PROVE  [/\ \A w \in setting.workers, ids \in Lists : Reorder(w, ids) =>
                    \A i \in Placed, k \in 1..Len(ids) :
                        (\A m \in 1..Len(ids) : ids[m] # i) =>
                            place'[i] = place[i] /\ place'[ids[k]] < place'[i]
              /\ Alone => \A i \in Items :
                    place[i] = Nothing /\ place'[i] # Nothing =>
                        \A j \in Placed : place[j] < place'[i]
              /\ PlacesDistinct']_curriculumVars
  <2>1. PlacesDistinct'
    BY <1>1, CurriculumNextInv DEF CurriculumInv
  <2> QED
    BY <1>1, <2>1, ReorderKeepsOrder, NewItemComesLast
<1> QED
  BY <1>1, CurriculumInitInv, CurriculumNextInv, PTL DEF CurriculumSpec, PlacesKeepOrder

-------------------------------------------------------------------------------
(* Announcements: notices sent and notices still to send                   *)

\* Requests that may still tell u: they have tested that the announcement is a
\* draft, and not been through u.
StillToTell(u) ==
    {w \in setting.workers :
        \/ pc[w] \in {"announcement.publish", "announcement.reread", "announcement.list"}
        \/ pc[w] = "announcement.notify" /\ u \in loc[w].todo}

\* A worker that tells learners something tells them what the announcement says.
HeldText(label, l) ==
    /\ label = "announcement.list" => l = announcement.text
    /\ label = "announcement.notify" => l \in [text : {announcement.text}, todo : SUBSET Audience]
    /\ label \in {"announcement.reread", "announcement.list", "announcement.notify"} =>
          announcement.status \notin {"none", "draft"}

\* What makes NoticesSound inductive: what is told and what is still to be told
\* share one bound, and nothing is told of a draft.
NoticesInv ==
    /\ Shaped
    /\ announcement = [status |-> announcement.status, text |-> announcement.text]
    /\ notices \in [Audience -> Seq({announcement.text})]
    /\ announcement.status \in {"none", "draft"} => \A u \in Audience : notices[u] = <<>>
    /\ \A w \in setting.workers : HeldText(pc[w], loc[w])
    /\ \A u \in Audience :
          Len(notices[u]) + Cardinality(StillToTell(u)) <= Cardinality(setting.workers)

LEMMA NoticesInitInv == AnnouncementsInit => NoticesInv
<1> SUFFICES ASSUME AnnouncementsInit PROVE NoticesInv
  OBVIOUS
<1>1. Shaped
  BY ShapedInit DEF AnnouncementsInit
<1>2. /\ announcement = [status |-> "none", text |-> Nothing]
      /\ notices = [u \in Audience |-> <<>>]
      /\ \A w \in setting.workers : pc[w] = "idle"
  BY DEF AnnouncementsInit, RequestsInit
<1>3. ASSUME NEW u \in Audience
      PROVE  Len(notices[u]) + Cardinality(StillToTell(u)) <= Cardinality(setting.workers)
  <2>1. StillToTell(u) = {}
    BY <1>2 DEF StillToTell
  <2>2. Len(notices[u]) = 0 /\ Cardinality(StillToTell(u)) = 0
    BY <1>2, <2>1, FS_EmptySet
  <2>3. Cardinality(setting.workers) \in Nat
    BY <1>1, FS_CardinalityType DEF Shaped
  <2> QED
    BY <2>2, <2>3
<1>4. \A w \in setting.workers : HeldText(pc[w], loc[w])
  BY <1>2 DEF HeldText
<1>5. notices \in [Audience -> Seq({announcement.text})]
  BY <1>2
<1> QED
  BY <1>1, <1>2, <1>3, <1>4, <1>5 DEF NoticesInv

\* A worker moves, and nothing is told: whom it might tell afterwards, it might
\* have told before.
LEMMA MoveTellsNobody ==
    ASSUME NoticesInv, NEW w \in setting.workers, NEW label, NEW l, Moved(w, label, l), Shaped',
           notices' = notices, NEW u \in Audience,
           \/ w \in StillToTell(u)
           \/ label \in {"idle", "announcement.update"}
           \/ label = "announcement.notify" /\ u \notin l.todo
    PROVE  Len(notices'[u]) + Cardinality(StillToTell(u)') <= Cardinality(setting'.workers)
<1>1. StillToTell(u)' \subseteq StillToTell(u) \cup {w}
  BY DEF StillToTell, Moved
<1>2. StillToTell(u)' \subseteq StillToTell(u)
  BY <1>1 DEF StillToTell, Moved
<1>3. IsFiniteSet(StillToTell(u)) /\ StillToTell(u) \in SUBSET setting.workers
  BY WorkersCount DEF StillToTell, NoticesInv
<1>4. Cardinality(StillToTell(u)') <= Cardinality(StillToTell(u))
      /\ Cardinality(StillToTell(u)') \in Nat /\ Cardinality(StillToTell(u)) \in Nat
      /\ Cardinality(setting.workers) \in Nat
  <2>1. Shaped
    BY DEF NoticesInv
  <2>2. IsFiniteSet(StillToTell(u)')
    BY <1>2, <1>3, FS_Subset
  <2> QED
    BY <1>2, <1>3, <2>1, <2>2, FS_Subset, FS_CardinalityType DEF Shaped
<1>5. Len(notices[u]) \in Nat /\ setting' = setting
  BY DEF NoticesInv, Moved
<1> QED
  BY <1>4, <1>5 DEF NoticesInv

\* The announcement, and everything that depends on it, stays.
LEMMA NoticesMoved ==
    ASSUME NoticesInv, NEW w \in setting.workers, NEW label, NEW l, Moved(w, label, l), Shaped',
           UNCHANGED announcementTables, HeldText(label, l),
           \A u \in Audience :
               \/ w \in StillToTell(u)
               \/ label \in {"idle", "announcement.update"}
               \/ label = "announcement.notify" /\ u \notin l.todo
    PROVE  NoticesInv'
<1>1. announcement' = announcement /\ notices' = notices /\ setting' = setting
  BY DEF announcementTables, Moved
<1>2. \A v \in setting'.workers : HeldText(pc[v], loc[v])'
  BY <1>1 DEF NoticesInv, HeldText, Moved
<1>3. \A u \in Audience :
          Len(notices'[u]) + Cardinality(StillToTell(u)') <= Cardinality(setting'.workers)
  BY <1>1, MoveTellsNobody
<1> QED
  BY <1>1, <1>2, <1>3 DEF NoticesInv

\* A statement changes the announcement and nothing else: nobody may be about to
\* tell what it said, or what it says stays.
LEMMA NoticesEdited ==
    ASSUME NoticesInv, NEW w \in setting.workers, NEW label, NEW l, Moved(w, label, l), Shaped',
           notices' = notices, announcement' = [status |-> announcement'.status,
                                                text |-> announcement'.text],
           \/ announcement.status \in {"none", "draft"} /\ label \in {"idle", "announcement.update"}
           \/ announcement'.text = announcement.text,
           announcement.status \notin {"none", "draft"} =>
               announcement'.status \notin {"none", "draft"},
           HeldText(label, l)',
           \A u \in Audience : w \in StillToTell(u) \/ label \in {"idle", "announcement.update"}
    PROVE  NoticesInv'
<1>1. setting' = setting /\ notices \in [Audience -> Seq({announcement.text})]
  BY DEF Moved, NoticesInv
<1>2. notices' \in [Audience -> Seq({announcement'.text})]
  <2>1. CASE announcement.status \in {"none", "draft"}
    <3>1. \A u \in Audience : notices[u] = <<>>
      BY <2>1 DEF NoticesInv
    <3> QED
      BY <1>1, <3>1
  <2>2. CASE announcement'.text = announcement.text
    BY <1>1, <2>2
  <2>3. CASE announcement.status \notin {"none", "draft"}
    BY <2>2, <2>3
  <2> QED
    BY <2>1, <2>2, <2>3
<1>3. \A v \in setting'.workers : HeldText(pc[v], loc[v])'
  <2> SUFFICES ASSUME NEW v \in setting.workers PROVE HeldText(pc[v], loc[v])'
    BY <1>1
  <2>1. CASE v = w
    BY <2>1 DEF Moved, HeldText
  <2>2. CASE v # w
    <3>1. pc'[v] = pc[v] /\ loc'[v] = loc[v] /\ HeldText(pc[v], loc[v])
      BY <2>2 DEF Moved, NoticesInv
    <3> QED
      BY <3>1 DEF HeldText
  <2> QED
    BY <2>1, <2>2
<1>4. \A u \in Audience :
          Len(notices'[u]) + Cardinality(StillToTell(u)') <= Cardinality(setting'.workers)
  BY MoveTellsNobody
<1>5. announcement'.status \in {"none", "draft"} => \A u \in Audience : notices'[u] = <<>>
  BY DEF NoticesInv
<1> QED
  BY <1>2, <1>3, <1>4, <1>5 DEF NoticesInv

\* Nobody has been told anything of a draft: a publication may begin.
LEMMA NoticesPublish ==
    ASSUME NoticesInv, NEW w \in setting.workers, BeginPublish(w)
    PROVE  NoticesInv'
<1>1. /\ Shaped' /\ Moved(w, "announcement.publish", announcement.text)
      /\ announcement' = announcement /\ notices' = notices /\ setting' = setting
      /\ announcement.status = "draft"
  BY HoldMoves DEF NoticesInv, BeginPublish, announcementTables, Moved
<1>2. \A v \in setting'.workers : HeldText(pc[v], loc[v])'
  BY <1>1 DEF NoticesInv, HeldText, Moved
<1>3. ASSUME NEW u \in Audience
      PROVE  Len(notices'[u]) + Cardinality(StillToTell(u)') <= Cardinality(setting'.workers)
  <2>1. Len(notices'[u]) = 0
    BY <1>1 DEF NoticesInv
  <2>2. StillToTell(u)' \subseteq setting.workers
    BY <1>1 DEF StillToTell
  <2>3. /\ Cardinality(StillToTell(u)') <= Cardinality(setting.workers)
        /\ Cardinality(StillToTell(u)') \in Nat
    BY <1>1, <2>2, FS_Subset, FS_CardinalityType DEF Shaped
  <2> QED
    BY <1>1, <2>1, <2>3
<1> QED
  BY <1>1, <1>2, <1>3 DEF NoticesInv

\* A learner is told: one notice more, and one request less that will tell them.
LEMMA NoticesEnqueue ==
    ASSUME NoticesInv, NEW w \in setting.workers, EnqueueNotice(w)
    PROVE  NoticesInv'
<1>1. PICK u \in loc[w].todo :
        /\ Hold(w, "announcement.notify", [loc[w] EXCEPT !.todo = @ \ {u}])
        /\ \/ notices' = [notices EXCEPT ![u] = Append(@, loc[w].text)]
           \/ setting.failures /\ UNCHANGED notices
  BY DEF EnqueueNotice
<1>2. /\ Shaped /\ pc[w] = "announcement.notify" /\ announcement' = announcement
      /\ loc[w] \in [text : {announcement.text}, todo : SUBSET Audience]
      /\ announcement.status \notin {"none", "draft"}
      /\ notices \in [Audience -> Seq({announcement.text})]
  BY <1>1 DEF EnqueueNotice, At, NoticesInv, HeldText
<1>3. PICK todo \in SUBSET Audience : loc[w] = [text |-> announcement.text, todo |-> todo]
  BY <1>2
<1> DEFINE l == [text |-> announcement.text, todo |-> todo \ {u}]
<1>4. [loc[w] EXCEPT !.todo = @ \ {u}] = l /\ u \in Audience /\ loc[w].todo = todo
  BY <1>3
<1>5. HeldText("announcement.notify", l) /\ u \notin l.todo /\ l.todo = loc[w].todo \ {u}
  BY <1>2, <1>4 DEF HeldText
<1> HIDE DEF l
<1>6. Shaped' /\ Moved(w, "announcement.notify", l)
  BY <1>1, <1>2, <1>4, HoldMoves
<1>7. ASSUME NEW v \in Audience PROVE w \in StillToTell(v) \/ v \notin l.todo
  BY <1>2, <1>5 DEF StillToTell
<1>8. CASE UNCHANGED notices
  BY <1>2, <1>5, <1>6, <1>7, <1>8, NoticesMoved DEF announcementTables
<1>9. CASE notices' = [notices EXCEPT ![u] = Append(@, loc[w].text)]
  <2>1. /\ notices'[u] = Append(notices[u], announcement.text)
        /\ \A v \in Audience \ {u} : notices'[v] = notices[v]
        /\ notices' \in [Audience -> Seq({announcement.text})]
        /\ Len(notices'[u]) = Len(notices[u]) + 1 /\ Len(notices[u]) \in Nat
    BY <1>2, <1>9
  <2>2. \A v \in setting'.workers : HeldText(pc[v], loc[v])'
    BY <1>2, <1>5, <1>6 DEF NoticesInv, HeldText, Moved
  <2>3. ASSUME NEW v \in Audience
        PROVE  Len(notices'[v]) + Cardinality(StillToTell(v)') <= Cardinality(setting'.workers)
    <3>1. StillToTell(v)' \subseteq StillToTell(v)
      BY <1>2, <1>5, <1>6, <1>7 DEF StillToTell, Moved
    <3>2. StillToTell(v) \in SUBSET setting.workers
      BY DEF StillToTell
    <3>3. /\ IsFiniteSet(StillToTell(v)) /\ IsFiniteSet(StillToTell(v)')
          /\ Cardinality(StillToTell(v)') \in Nat /\ Cardinality(StillToTell(v)) \in Nat
          /\ Cardinality(StillToTell(v)') <= Cardinality(StillToTell(v))
          /\ Cardinality(setting.workers) \in Nat /\ setting' = setting
      BY <1>2, <1>6, <3>1, <3>2, WorkersCount, FS_Subset, FS_CardinalityType DEF Shaped, Moved
    <3>4. CASE v # u
      BY <1>2, <2>1, <3>3, <3>4 DEF NoticesInv
    <3>5. CASE v = u
      <4>1. w \in StillToTell(u) /\ w \notin StillToTell(u)'
        BY <1>1, <1>2, <1>5, <1>6 DEF StillToTell, Moved
      <4>2. StillToTell(u)' \subseteq StillToTell(u) \ {w}
        BY <3>1, <3>5, <4>1
      <4>3. /\ Cardinality(StillToTell(u) \ {w}) = Cardinality(StillToTell(u)) - 1
            /\ IsFiniteSet(StillToTell(u) \ {w})
        BY <3>3, <3>5, <4>1, FS_RemoveElement
      <4>4. Cardinality(StillToTell(u)') <= Cardinality(StillToTell(u)) - 1
        BY <4>2, <4>3, FS_Subset
      <4>5. Len(notices[u]) + Cardinality(StillToTell(u)) <= Cardinality(setting.workers)
        BY <1>2 DEF NoticesInv
      <4> QED
        BY <2>1, <3>3, <3>5, <4>4, <4>5
    <3> QED
      BY <3>4, <3>5
  <2>4. announcement'.status \in {"none", "draft"} => \A v \in Audience : notices'[v] = <<>>
    BY <1>2
  <2>5. announcement' = [status |-> announcement'.status, text |-> announcement'.text]
    BY <1>2 DEF NoticesInv
  <2> QED
    BY <1>2, <1>6, <2>1, <2>2, <2>3, <2>4, <2>5 DEF NoticesInv
<1> QED
  BY <1>1, <1>8, <1>9

LEMMA NoticesNext ==
    ASSUME NoticesInv, [AnnouncementsNext]_announcementVars
    PROVE  NoticesInv'
<1>1. Shaped /\ announcement = [status |-> announcement.status, text |-> announcement.text]
  BY DEF NoticesInv
<1>2. ASSUME NEW w \in setting.workers, NEW text, CreateAnnouncement(w, text) PROVE NoticesInv'
  <2>1. Shaped' /\ Moved(w, "idle", loc[w])
    BY <1>1, <1>2, StayShaped DEF CreateAnnouncement, AtOnce, Idle, Moved
  <2> QED
    BY <1>2, <2>1, NoticesEdited DEF CreateAnnouncement, HeldText
<1>3. ASSUME NEW w \in setting.workers, NEW text, BeginUpdateAnnouncement(w, text)
      PROVE  NoticesInv'
  BY <1>1, <1>3, HoldMoves, NoticesMoved DEF BeginUpdateAnnouncement, HeldText
<1>4. ASSUME NEW w \in setting.workers, UpdateAnnouncement(w) PROVE NoticesInv'
  <2>1. Shaped' /\ Moved(w, "idle", Nothing) /\ notices' = notices
    BY <1>1, <1>4, FinishMoves DEF UpdateAnnouncement
  <2>2. CASE announcement.status = "draft"
    <3>1. announcement' = [status |-> "draft", text |-> loc[w]]
      BY <1>1, <1>4, <2>2 DEF UpdateAnnouncement
    <3> QED
      BY <2>1, <2>2, <3>1, NoticesEdited DEF HeldText
  <2>3. CASE announcement.status # "draft"
    BY <1>1, <1>4, <2>1, <2>3, NoticesMoved DEF UpdateAnnouncement, HeldText, announcementTables
  <2> QED
    BY <2>2, <2>3
<1>5. ASSUME NEW w \in setting.workers, SetPublished(w) PROVE NoticesInv'
  <2>1. notices' = notices /\ pc[w] = "announcement.publish"
    BY <1>5 DEF SetPublished, At
  <2>2. \A u \in Audience : w \in StillToTell(u)
    BY <2>1 DEF StillToTell
  <2>3. CASE Posted
    <3>1. Shaped' /\ Moved(w, "announcement.reread", loc[w])
      BY <1>1, <1>5, <2>3, GotoMoves DEF SetPublished
    <3>2. announcement' = [status |-> "published", text |-> announcement.text]
      BY <1>1, <1>5, <2>3 DEF SetPublished
    <3> QED
      BY <2>1, <2>2, <3>1, <3>2, NoticesEdited DEF HeldText
  <2>4. CASE ~Posted
    BY <1>1, <1>5, <2>1, <2>2, <2>4, FinishMoves, NoticesMoved
    DEF SetPublished, HeldText, announcementTables
  <2> QED
    BY <2>3, <2>4
<1>6. ASSUME NEW w \in setting.workers, RereadAnnouncement(w) PROVE NoticesInv'
  <2>1. pc[w] = "announcement.reread" /\ UNCHANGED announcementTables
    BY <1>6 DEF RereadAnnouncement, At
  <2>2. (\A u \in Audience : w \in StillToTell(u)) /\ HeldText(pc[w], loc[w])
    BY <2>1 DEF StillToTell, NoticesInv
  <2>3. CASE Posted
    BY <1>1, <1>6, <2>1, <2>2, <2>3, HoldMoves, NoticesMoved
    DEF RereadAnnouncement, HeldText
  <2>4. CASE ~Posted
    BY <1>1, <1>6, <2>1, <2>2, <2>4, FinishMoves, NoticesMoved
    DEF RereadAnnouncement, HeldText
  <2> QED
    BY <2>3, <2>4
<1>7. ASSUME NEW w \in setting.workers, ListEnrollees(w) PROVE NoticesInv'
  <2>1. pc[w] = "announcement.list" /\ UNCHANGED announcementTables
    BY <1>7 DEF ListEnrollees, At
  <2>2. (\A u \in Audience : w \in StillToTell(u)) /\ HeldText(pc[w], loc[w])
    BY <2>1 DEF StillToTell, NoticesInv
  <2>3. PICK page \in Pages :
            Hold(w, "announcement.notify", [text |-> loc[w], todo |-> page])
    BY <1>7 DEF ListEnrollees
  <2>4. HeldText("announcement.notify", [text |-> loc[w], todo |-> page])
    BY <2>1, <2>2 DEF HeldText, Pages
  <2> QED
    BY <1>1, <2>1, <2>2, <2>3, <2>4, HoldMoves, NoticesMoved
<1>8. ASSUME NEW w \in setting.workers, AllNotified(w) PROVE NoticesInv'
  BY <1>1, <1>8, FinishMoves, NoticesMoved DEF AllNotified, HeldText
<1>9. ASSUME NEW w \in setting.workers, DeleteAnnouncement(w) PROVE NoticesInv'
  <2>1. /\ Shaped' /\ Moved(w, "idle", loc[w]) /\ notices' = notices
        /\ announcement' = [status |-> "deleted", text |-> announcement.text]
    BY <1>1, <1>9, StayShaped DEF DeleteAnnouncement, AtOnce, Idle, Moved
  <2> QED
    BY <2>1, NoticesEdited DEF HeldText
<1>10. ASSUME NEW w \in setting.workers, AbortAnnouncements(w) PROVE NoticesInv'
  BY <1>1, <1>10, FinishMoves, NoticesMoved DEF AbortAnnouncements, Abort, HeldText
<1>11. CASE UNCHANGED announcementVars
  <2>1. /\ Shaped' /\ setting' = setting /\ pc' = pc /\ loc' = loc
        /\ announcement' = announcement /\ notices' = notices
    BY <1>1, <1>11, StayShaped DEF announcementVars, announcementTables
  <2> QED
    BY <2>1 DEF NoticesInv, HeldText, StillToTell
<1> QED
  BY <1>2, <1>3, <1>4, <1>5, <1>6, <1>7, <1>8, <1>9, <1>10, <1>11,
     NoticesPublish, NoticesEnqueue, Zenon
  DEF AnnouncementsNext, BeginAnnouncement, AnnouncementStep

\* However edits, publications and deletions race (communication.go:117, :131,
\* :150), and whatever fails: for any number of learners, texts and requests, what
\* a learner is told is what the published announcement says, at most once for
\* each request that runs at a time.
THEOREM NoticesTheorem == AnnouncementsSpec => []NoticesSound
<1>1. ASSUME NoticesInv PROVE NoticesSound
  <2>1. ASSUME NEW u \in Audience
        PROVE  Len(notices[u]) <= Cardinality(setting.workers)
    <3>1. /\ notices[u] \in Seq({announcement.text}) /\ Len(notices[u]) \in Nat
          /\ Len(notices[u]) + Cardinality(StillToTell(u)) <= Cardinality(setting.workers)
      BY <1>1 DEF NoticesInv
    <3>2. Cardinality(StillToTell(u)) \in Nat /\ Cardinality(setting.workers) \in Nat
      BY <1>1, WorkersCount DEF NoticesInv, StillToTell
    <3> QED
      BY <3>1, <3>2
  <2>2. ASSUME NEW u \in Audience, NEW k \in DOMAIN notices[u]
        PROVE  announcement.status # "draft" /\ notices[u][k] = announcement.text
    <3>1. /\ notices[u] \in Seq({announcement.text})
          /\ announcement.status = "draft" => notices[u] = <<>>
      BY <1>1 DEF NoticesInv
    <3>2. k \in 1..Len(notices[u])
      BY <3>1
    <3>3. notices[u][k] \in {announcement.text}
      BY <3>1, <3>2
    <3> QED
      BY <3>1, <3>2, <3>3
  <2> QED
    BY <2>1, <2>2 DEF NoticesSound
<1> QED
  BY <1>1, NoticesInitInv, NoticesNext, PTL DEF AnnouncementsSpec

\* A request has read, or was sent, one of the texts.
TextHeld(label, l) ==
    \/ label = "idle" /\ l = Nothing
    \/ /\ label \in {"announcement.update", "announcement.publish",
                     "announcement.reread", "announcement.list"}
       /\ l \in Texts
    \/ label = "announcement.notify" /\ l \in [text : Texts, todo : SUBSET Audience]

\* With NoticesInv, what makes AnnouncementsTypeOK inductive.
TextsInv ==
    /\ announcement \in [status : AnnouncementStatus, text : Texts \cup {Nothing}]
    /\ announcement.status # "none" => announcement.text \in Texts
    /\ \A w \in setting.workers : TextHeld(pc[w], loc[w])

LEMMA TextsInitInv == AnnouncementsInit => TextsInv
BY DEF AnnouncementsInit, RequestsInit, TextsInv, TextHeld, AnnouncementStatus

LEMMA TextsMoved ==
    ASSUME TextsInv, NEW w \in setting.workers, NEW label, NEW l, Moved(w, label, l),
           announcement' \in [status : AnnouncementStatus, text : Texts \cup {Nothing}],
           announcement'.status # "none" => announcement'.text \in Texts, TextHeld(label, l)
    PROVE  TextsInv'
<1>1. ASSUME NEW v \in setting.workers PROVE TextHeld(pc'[v], loc'[v])
  <2>1. CASE v = w
    BY <2>1 DEF Moved
  <2>2. CASE v # w
    BY <2>2 DEF Moved, TextsInv
  <2> QED
    BY <2>1, <2>2
<1> QED
  BY <1>1 DEF TextsInv, Moved

LEMMA TextsNextInv ==
    ASSUME Shaped, TextsInv, [AnnouncementsNext]_announcementVars
    PROVE  TextsInv'
<1>1. CASE UNCHANGED announcementVars
  BY <1>1 DEF announcementVars, announcementTables, requests, TextsInv
<1>2. ASSUME NEW w \in setting.workers,
             BeginAnnouncement(w) \/ AnnouncementStep(w) \/ AbortAnnouncements(w)
      PROVE  TextsInv'
  <2>1. /\ announcement \in [status : AnnouncementStatus, text : Texts \cup {Nothing}]
        /\ announcement.status # "none" => announcement.text \in Texts
        /\ TextHeld(pc[w], loc[w])
    BY DEF TextsInv
  <2>2. TextHeld("idle", Nothing)
    BY DEF TextHeld
  <2>3. ASSUME AtOnce(w),
               announcement' \in [status : AnnouncementStatus, text : Texts \cup {Nothing}],
               announcement'.status # "none" => announcement'.text \in Texts
        PROVE  TextsInv'
    BY <2>1, <2>3, AtOnceMoves, TextsMoved
  <2>4. ASSUME Finish(w),
               announcement' \in [status : AnnouncementStatus, text : Texts \cup {Nothing}],
               announcement'.status # "none" => announcement'.text \in Texts
        PROVE  TextsInv'
    BY <2>2, <2>4, FinishMoves, TextsMoved
  <2>5. ASSUME NEW text \in Texts, CreateAnnouncement(w, text) PROVE TextsInv'
    BY <2>3, <2>5 DEF CreateAnnouncement, AnnouncementStatus
  <2>6. ASSUME NEW text \in Texts, BeginUpdateAnnouncement(w, text) PROVE TextsInv'
    BY <2>1, <2>6, HoldMoves, TextsMoved
    DEF BeginUpdateAnnouncement, announcementTables, TextHeld
  <2>7. CASE BeginPublish(w)
    BY <2>1, <2>7, HoldMoves, TextsMoved DEF BeginPublish, announcementTables, TextHeld
  <2>8. CASE DeleteAnnouncement(w)
    BY <2>1, <2>3, <2>8 DEF DeleteAnnouncement, Posted, AnnouncementStatus
  <2>9. CASE UpdateAnnouncement(w)
    <3>1. loc[w] \in Texts
      BY <2>1, <2>9 DEF UpdateAnnouncement, At, TextHeld
    <3> QED
      BY <2>1, <2>4, <2>9, <3>1 DEF UpdateAnnouncement
  <2>10. CASE SetPublished(w)
    <3>1. CASE Posted
      <4>1. loc[w] \in Texts
        BY <2>1, <2>10 DEF SetPublished, At, TextHeld
      <4>2. Shaped' /\ Moved(w, "announcement.reread", loc[w])
        BY <2>10, <3>1, GotoMoves DEF SetPublished
      <4>3. TextHeld("announcement.reread", loc[w])
        BY <4>1 DEF TextHeld
      <4>4. /\ announcement' \in [status : AnnouncementStatus, text : Texts \cup {Nothing}]
            /\ announcement'.text \in Texts
        BY <2>1, <2>10, <3>1 DEF SetPublished, Posted, AnnouncementStatus
      <4> QED
        BY <4>2, <4>3, <4>4, TextsMoved
    <3>2. CASE ~Posted
      BY <2>1, <2>4, <2>10, <3>2 DEF SetPublished
    <3> QED
      BY <3>1, <3>2
  <2>11. CASE RereadAnnouncement(w)
    <3>1. CASE Posted
      <4>1. announcement.text \in Texts
        BY <2>1, <3>1 DEF Posted
      <4>2. Shaped' /\ Moved(w, "announcement.list", announcement.text)
        BY <2>11, <3>1, HoldMoves DEF RereadAnnouncement
      <4>3. TextHeld("announcement.list", announcement.text)
        BY <4>1 DEF TextHeld
      <4>4. announcement' = announcement
        BY <2>11 DEF RereadAnnouncement, announcementTables
      <4> QED
        BY <2>1, <4>2, <4>3, <4>4, TextsMoved
    <3>2. CASE ~Posted
      BY <2>1, <2>4, <2>11, <3>2 DEF RereadAnnouncement, announcementTables
    <3> QED
      BY <3>1, <3>2
  <2>12. CASE ListEnrollees(w)
    <3>1. PICK page \in Pages :
              Hold(w, "announcement.notify", [text |-> loc[w], todo |-> page])
      BY <2>12 DEF ListEnrollees
    <3>2. loc[w] \in Texts /\ page \in SUBSET Audience /\ announcement' = announcement
      BY <2>1, <2>12 DEF ListEnrollees, At, TextHeld, Pages, announcementTables
    <3>3. TextHeld("announcement.notify", [text |-> loc[w], todo |-> page])
      BY <3>2 DEF TextHeld
    <3> QED
      BY <2>1, <3>1, <3>2, <3>3, HoldMoves, TextsMoved
  <2>13. CASE EnqueueNotice(w)
    <3>1. PICK u \in loc[w].todo :
              Hold(w, "announcement.notify", [loc[w] EXCEPT !.todo = @ \ {u}])
      BY <2>13 DEF EnqueueNotice
    <3>2. loc[w] \in [text : Texts, todo : SUBSET Audience] /\ announcement' = announcement
      BY <2>1, <2>13 DEF EnqueueNotice, At, TextHeld
    <3>3. TextHeld("announcement.notify", [loc[w] EXCEPT !.todo = @ \ {u}])
      BY <3>2 DEF TextHeld
    <3> QED
      BY <2>1, <3>1, <3>2, <3>3, HoldMoves, TextsMoved
  <2>14. CASE AllNotified(w)
    BY <2>1, <2>4, <2>14 DEF AllNotified, announcementTables
  <2>15. CASE AbortAnnouncements(w)
    BY <2>1, <2>4, <2>15 DEF AbortAnnouncements, Abort, announcementTables
  <2> QED
    BY <1>2, <2>5, <2>6, <2>7, <2>8, <2>9, <2>10, <2>11, <2>12, <2>13, <2>14, <2>15, Zenon
    DEF BeginAnnouncement, AnnouncementStep
<1> QED
  BY <1>1, <1>2 DEF AnnouncementsNext

LEMMA TextsInvTypes == NoticesInv /\ TextsInv => AnnouncementsTypeOK
<1> SUFFICES ASSUME NoticesInv, TextsInv PROVE AnnouncementsTypeOK
  OBVIOUS
<1>1. ASSUME NEW u \in Audience, NEW k \in DOMAIN notices[u] PROVE notices[u][k] \in Texts
  <2>1. /\ notices[u] \in Seq({announcement.text})
        /\ announcement.status = "none" => notices[u] = <<>>
    BY DEF NoticesInv
  <2>2. k \in 1..Len(notices[u])
    BY <2>1
  <2>3. notices[u][k] = announcement.text /\ announcement.status # "none"
    BY <2>1, <2>2
  <2> QED
    BY <2>3 DEF TextsInv
<1>2. \A w \in setting.workers : TextHeld(pc[w], loc[w])
  BY DEF TextsInv
<1> QED
  BY <1>1, <1>2 DEF TextsInv, TextHeld, AnnouncementsTypeOK

-------------------------------------------------------------------------------
(* Discussions: replies under way when the thread is locked, and whom they *)
(* are told to                                                             *)

UnderWay == {w \in setting.workers : pc[w] = "reply.insert"}

\* What makes LateRepliesBound inductive: who locks the thread is not replying,
\* and nobody starts replying afterwards.
LateInv ==
    /\ Shaped
    /\ thread \in ThreadRow
    /\ late \in Nat
    /\ thread.status # "locked" => late = 0
    /\ thread.status = "locked" =>
          late + Cardinality(UnderWay) <= Cardinality(setting.workers) - 1

LEMMA LateInitInv == DiscussionsInit => LateInv
BY ShapedInit DEF DiscussionsInit, LateInv, ThreadRow

\* The thread stays, and a worker goes where it does not start replying.
LEMMA LateMoved ==
    ASSUME LateInv, NEW w \in setting.workers, NEW label, NEW l, Moved(w, label, l), Shaped',
           thread' = thread, late' = late,
           thread.status = "locked" => label # "reply.insert"
    PROVE  LateInv'
<1>1. CASE thread.status # "locked"
  BY <1>1 DEF LateInv
<1>2. CASE thread.status = "locked"
  <2>1. UnderWay' \subseteq UnderWay /\ setting' = setting
    BY <1>2 DEF UnderWay, Moved
  <2>2. IsFiniteSet(UnderWay) /\ Cardinality(UnderWay) \in Nat
    BY WorkersCount DEF LateInv, UnderWay
  <2>3. /\ Cardinality(UnderWay') <= Cardinality(UnderWay)
        /\ Cardinality(UnderWay') \in Nat /\ Cardinality(setting.workers) \in Nat
    BY <2>1, <2>2, FS_Subset, FS_CardinalityType DEF LateInv, Shaped
  <2> QED
    BY <1>2, <2>1, <2>2, <2>3 DEF LateInv
<1> QED
  BY <1>1, <1>2

LEMMA LateNext ==
    ASSUME LateInv, [DiscussionsNext]_discussionVars
    PROVE  LateInv'
<1>1. Shaped /\ thread \in ThreadRow /\ late \in Nat
  BY DEF LateInv
<1>2. ASSUME NEW w \in setting.workers, NEW u \in Posters, CreateThread(w, u) PROVE LateInv'
  <2>1. Shaped' /\ thread' = [status |-> "open", author |-> u] /\ late' = late
    BY <1>1, <1>2, HoldMoves DEF CreateThread
  <2>2. late = 0
    BY <1>2 DEF LateInv, CreateThread
  <2> QED
    BY <2>1, <2>2 DEF LateInv, ThreadRow
<1>3. ASSUME NEW w \in setting.workers, CreateFirstPost(w) PROVE LateInv'
  BY <1>1, <1>3, FinishMoves, LateMoved DEF CreateFirstPost
<1>4. ASSUME NEW w \in setting.workers, LockThread(w) PROVE LateInv'
  <2>1. /\ Shaped' /\ setting' = setting /\ pc' = pc /\ late' = late
        /\ w \notin UnderWay /\ thread' = [thread EXCEPT !.status = "locked"]
    BY <1>1, <1>4, StayShaped DEF LockThread, AtOnce, Idle, UnderWay
  <2>2. thread' \in ThreadRow /\ thread'.status = "locked"
    BY <1>1, <2>1 DEF ThreadRow
  <2>3. UnderWay' = UnderWay /\ UnderWay \in SUBSET setting.workers
    BY <2>1 DEF UnderWay
  <2>4. /\ Cardinality(UnderWay) + 1 <= Cardinality(setting.workers)
        /\ Cardinality(UnderWay) \in Nat /\ Cardinality(setting.workers) \in Nat
    BY <1>1, <2>1, <2>3, WorkersCount
  <2> QED
    BY <2>1, <2>2, <2>3, <2>4 DEF LateInv
<1>5. ASSUME NEW w \in setting.workers, NEW u \in Posters, BeginReply(w, u) PROVE LateInv'
  BY <1>1, <1>5, HoldMoves, LateMoved DEF BeginReply, discussionTables
<1>6. ASSUME NEW w \in setting.workers, InsertReply(w) PROVE LateInv'
  <2>1. /\ Shaped' /\ Moved(w, "reply.list", loc[w]) /\ thread' = thread
        /\ late' = IF thread.status = "locked" THEN late + 1 ELSE late
        /\ w \in UnderWay
    BY <1>1, <1>6, GotoMoves DEF InsertReply, At, UnderWay
  <2>2. CASE thread.status # "locked"
    BY <2>1, <2>2 DEF LateInv
  <2>3. CASE thread.status = "locked"
    <3>1. UnderWay' = UnderWay \ {w} /\ setting' = setting
      BY <2>1 DEF UnderWay, Moved
    <3>2. UnderWay \in SUBSET setting.workers
      BY DEF UnderWay
    <3>3. /\ Cardinality(UnderWay') = Cardinality(UnderWay) - 1
          /\ Cardinality(UnderWay) \in Nat /\ Cardinality(setting.workers) \in Nat
      BY <1>1, <2>1, <3>1, <3>2, WorkersCount
    <3> QED
      BY <1>1, <2>1, <2>3, <3>1, <3>3 DEF LateInv
  <2> QED
    BY <2>2, <2>3
<1>7. ASSUME NEW w \in setting.workers, ListParticipants(w) PROVE LateInv'
  BY <1>1, <1>7, HoldMoves, LateMoved DEF ListParticipants, discussionTables
<1>8. ASSUME NEW w \in setting.workers, NotifyReply(w) PROVE LateInv'
  BY <1>1, <1>8, HoldMoves, LateMoved DEF NotifyReply
<1>9. ASSUME NEW w \in setting.workers, AllTold(w) PROVE LateInv'
  BY <1>1, <1>9, FinishMoves, LateMoved DEF AllTold, discussionTables
<1>10. ASSUME NEW w \in setting.workers, NEW u \in Posters, DeletePost(w, u) PROVE LateInv'
  <2>1. /\ Shaped' /\ Moved(w, "idle", loc[w]) /\ thread' = thread /\ late' = late
    BY <1>1, <1>10, StayShaped DEF DeletePost, AtOnce, Idle, Moved
  <2> QED
    BY <2>1, LateMoved
<1>11. ASSUME NEW w \in setting.workers, AbortDiscussions(w) PROVE LateInv'
  BY <1>1, <1>11, FinishMoves, LateMoved DEF AbortDiscussions, Abort, discussionTables
<1>12. CASE UNCHANGED discussionVars
  <2>1. /\ Shaped' /\ setting' = setting /\ pc' = pc /\ thread' = thread /\ late' = late
    BY <1>1, <1>12, StayShaped DEF discussionVars, discussionTables
  <2> QED
    BY <2>1 DEF LateInv, UnderWay
<1> QED
  BY <1>2, <1>3, <1>4, <1>5, <1>6, <1>7, <1>8, <1>9, <1>10, <1>11, <1>12, Zenon
  DEF DiscussionsNext, BeginDiscussion, DiscussionStep

\* CreatePost tests the lock in an earlier statement than the insert
\* (communication.go:225, :233): for any number of requests, at most one fewer
\* replies than requests run at a time are made after the thread was locked.
THEOREM LateTheorem == DiscussionsSpec => []LateRepliesBound
<1>1. ASSUME LateInv PROVE LateRepliesBound
  <2> DEFINE S == {w \in setting.workers : thread.status = "locked" /\ pc[w] = "reply.insert"}
  <2>1. Cardinality(setting.workers) \in Nat /\ Cardinality(setting.workers) # 0
    BY <1>1, FS_CardinalityType, FS_EmptySet DEF LateInv, Shaped
  <2>2. CASE thread.status = "locked"
    <3>1. S = UnderWay
      BY <2>2 DEF UnderWay
    <3> QED
      BY <1>1, <2>2, <3>1 DEF LateInv, LateRepliesBound
  <2>3. CASE thread.status # "locked"
    <3>1. S = {}
      BY <2>3
    <3>2. Cardinality(S) = 0 /\ late = 0
      BY <1>1, <2>3, <3>1, FS_EmptySet DEF LateInv
    <3> QED
      BY <2>1, <3>2 DEF LateRepliesBound
  <2> QED
    BY <2>2, <2>3
<1> QED
  BY <1>1, LateInitInv, LateNext, PTL DEF DiscussionsSpec

\* A request here still has to tell u of a reply.
Owing(label, l, u) ==
    \/ label = "reply.list" /\ l # u
    \/ label = "reply.notify" /\ u \in l.todo

Owes(u) == {w \in setting.workers : Owing(pc[w], loc[w], u)}

\* What u has been told and what requests still have to tell u are replies of others;
\* unless requests fail, they are all of them when u is the teacher.
OwedWithin(u) == told[u] + Cardinality(Owes(u)) <= made - replies[u]
OwedAll == Unfailing => told[Teacher] + Cardinality(Owes(Teacher)) = made - replies[Teacher]

RepliesRows ==
    /\ thread \in ThreadRow
    /\ posts \in [Posters -> 0..RepliesBound + 1]
    /\ replies \in [Posters -> 0..RepliesBound]
    /\ made \in 0..RepliesBound /\ late \in 0..RepliesBound
    /\ told \in [Posters -> Nat]
    /\ late <= made
    /\ \A u \in Posters : replies[u] <= made

ReplyHeld(label, l) ==
    \/ label = "idle" /\ l = Nothing
    \/ label \in {"thread.first", "reply.insert", "reply.list"} /\ l \in Posters
    \/ /\ label = "reply.notify" /\ l \in [actor : Posters, todo : SUBSET Posters]
       /\ \A u \in l.todo : u # Teacher => u # thread.author

\* The opening post is inserted once, by the request that made the thread.
FirstPostOnce ==
    /\ \A u \in Posters : posts[u] <= replies[u] + 1
    /\ \A v, w \in setting.workers :
          pc[v] = "thread.first" /\ pc[w] = "thread.first" => v = w
    /\ thread.status = "none" \/ (\E w \in setting.workers : pc[w] = "thread.first") =>
          \A u \in Posters : posts[u] <= replies[u]

\* Before there is a thread there is nothing to tell, and whoever opened it is told
\* nothing.
UntoldYet ==
    /\ thread.status = "none" =>
          /\ \A w \in setting.workers : pc[w] = "idle"
          /\ \A u \in Posters : told[u] = 0
    /\ \A u \in Posters : u = thread.author /\ u # Teacher => told[u] = 0

RepliesInv ==
    /\ Shaped /\ RepliesRows /\ FirstPostOnce /\ UntoldYet
    /\ \A w \in setting.workers : ReplyHeld(pc[w], loc[w])
    /\ (\A u \in Posters : OwedWithin(u)) /\ OwedAll

LEMMA RepliesInitInv == DiscussionsInit => RepliesInv
<1> SUFFICES ASSUME DiscussionsInit PROVE RepliesInv
  OBVIOUS
<1>1. Shaped /\ \A w \in setting.workers : pc[w] = "idle" /\ loc[w] = Nothing
  BY ShapedInit DEF DiscussionsInit, RequestsInit
<1>2. RepliesRows /\ UntoldYet
  BY <1>1, DiscussionsAssumption DEF DiscussionsInit, RepliesRows, ThreadRow, UntoldYet
<1>3. FirstPostOnce
  BY <1>1 DEF DiscussionsInit, FirstPostOnce
<1>4. ASSUME NEW u PROVE Cardinality(Owes(u)) = 0
  <2>1. Owes(u) = {}
    BY <1>1 DEF Owes, Owing
  <2> QED
    BY <2>1, FS_EmptySet
<1>5. (\A u \in Posters : OwedWithin(u)) /\ OwedAll
  BY <1>4, DiscussionsAssumption DEF DiscussionsInit, OwedWithin, OwedAll
<1> QED
  BY <1>1, <1>2, <1>3, <1>5 DEF RepliesInv, ReplyHeld

\* Who still has to tell u, when one worker moves.
LEMMA OwesCount ==
    ASSUME Shaped, NEW w \in setting.workers, NEW label, NEW l, Moved(w, label, l), NEW u
    PROVE  /\ Cardinality(Owes(u)) \in Nat
           /\ Owing(label, l, u) /\ Owing(pc[w], loc[w], u) =>
                 Cardinality(Owes(u)') = Cardinality(Owes(u))
           /\ Owing(label, l, u) /\ ~Owing(pc[w], loc[w], u) =>
                 Cardinality(Owes(u)') = Cardinality(Owes(u)) + 1
           /\ ~Owing(label, l, u) /\ Owing(pc[w], loc[w], u) =>
                 Cardinality(Owes(u)') = Cardinality(Owes(u)) - 1
           /\ ~Owing(label, l, u) /\ ~Owing(pc[w], loc[w], u) =>
                 Cardinality(Owes(u)') = Cardinality(Owes(u))
<1>1. Owes(u) \in SUBSET setting.workers
  BY DEF Owes
<1>2. /\ Cardinality(Owes(u)) \in Nat
      /\ w \notin Owes(u) => Cardinality(Owes(u) \cup {w}) = Cardinality(Owes(u)) + 1
      /\ w \in Owes(u) => Cardinality(Owes(u) \ {w}) = Cardinality(Owes(u)) - 1
  BY <1>1, WorkersCount
<1>3. w \in Owes(u) <=> Owing(pc[w], loc[w], u)
  BY DEF Owes
<1>4. ASSUME NEW v \in setting.workers, v # w
      PROVE  v \in Owes(u)' <=> v \in Owes(u)
  BY <1>4 DEF Owes, Owing, Moved
<1>5. w \in Owes(u)' <=> Owing(label, l, u)
  BY DEF Owes, Owing, Moved
<1>6. Owes(u)' \in SUBSET setting.workers
  BY DEF Owes, Moved
<1>7. Owing(label, l, u) => Owes(u)' = Owes(u) \cup {w}
  BY <1>1, <1>4, <1>5, <1>6
<1>8. ~Owing(label, l, u) => Owes(u)' = Owes(u) \ {w}
  BY <1>1, <1>4, <1>5, <1>6
<1>9. (w \in Owes(u) => Owes(u) \cup {w} = Owes(u)) /\ (w \notin Owes(u) => Owes(u) \ {w} = Owes(u))
  OBVIOUS
<1> QED
  BY <1>2, <1>3, <1>7, <1>8, <1>9, Zenon

\* A statement that neither inserts a reply nor tells of one, and after which nobody has
\* to be told who did not have to be before; unless requests fail, the teacher is not
\* passed over.
LEMMA OwedMoved ==
    ASSUME RepliesInv, NEW w \in setting.workers, NEW label, NEW l, Moved(w, label, l),
           UNCHANGED <<replies, made, told>>,
           \A u \in Posters : Owing(label, l, u) => Owing(pc[w], loc[w], u),
           Unfailing => (Owing(pc[w], loc[w], Teacher) => Owing(label, l, Teacher))
    PROVE  (\A u \in Posters : OwedWithin(u)') /\ OwedAll'
<1>1. Shaped /\ Teacher \in Posters /\ Unfailing' = Unfailing
  BY DiscussionsAssumption DEF RepliesInv, Moved, Unfailing
<1>2. ASSUME NEW u \in Posters
      PROVE  /\ told[u] \in Nat /\ made \in Nat /\ replies[u] \in Nat
             /\ told'[u] = told[u] /\ made' = made /\ replies'[u] = replies[u]
  BY DiscussionsAssumption DEF RepliesInv, RepliesRows
<1>3. ASSUME NEW u \in Posters PROVE OwedWithin(u)'
  <2>1. OwedWithin(u)
    BY DEF RepliesInv
  <2>2. /\ Cardinality(Owes(u)) \in Nat
        /\ \/ Cardinality(Owes(u)') = Cardinality(Owes(u))
           \/ Cardinality(Owes(u)') = Cardinality(Owes(u)) - 1
    BY <1>1, OwesCount
  <2> QED
    BY <1>2, <2>1, <2>2 DEF OwedWithin
<1>4. OwedAll'
  <2>1. OwedAll
    BY DEF RepliesInv
  <2>2. Unfailing => Cardinality(Owes(Teacher)') = Cardinality(Owes(Teacher))
    BY <1>1, OwesCount
  <2> QED
    BY <1>1, <1>2, <2>1, <2>2 DEF OwedAll
<1> QED
  BY <1>3, <1>4


\* Nobody makes a thread, and a post inserted is a reply.
LEMMA FirstStays ==
    ASSUME RepliesInv, NEW w \in setting.workers, NEW label, NEW l, Moved(w, label, l),
           RepliesRows', label # "thread.first", thread'.status = "none" => thread.status = "none",
           \A u \in Posters : posts'[u] - replies'[u] <= posts[u] - replies[u]
    PROVE  FirstPostOnce'
<1>1. setting' = setting /\ FirstPostOnce
  BY DEF Moved, RepliesInv
<1>2. ASSUME NEW v \in setting.workers, pc'[v] = "thread.first" PROVE pc[v] = "thread.first"
  BY <1>2 DEF Moved
<1>3. ASSUME NEW u \in Posters
      PROVE  /\ posts[u] \in Int /\ replies[u] \in Int /\ posts'[u] \in Int /\ replies'[u] \in Int
  BY DiscussionsAssumption DEF RepliesInv, RepliesRows
<1>4. ASSUME NEW u \in Posters
      PROVE  /\ posts[u] <= replies[u] + 1 => posts'[u] <= replies'[u] + 1
             /\ posts[u] <= replies[u] => posts'[u] <= replies'[u]
  BY <1>3
<1>5. \A u \in Posters : posts'[u] <= replies'[u] + 1
  BY <1>1, <1>4 DEF FirstPostOnce
<1>6. \A v, x \in setting.workers :
          pc'[v] = "thread.first" /\ pc'[x] = "thread.first" => v = x
  BY <1>1, <1>2 DEF FirstPostOnce
<1>7. thread'.status = "none" \/ (\E v \in setting.workers : pc'[v] = "thread.first") =>
          \A u \in Posters : posts'[u] <= replies'[u]
  BY <1>1, <1>2, <1>4 DEF FirstPostOnce
<1> QED
  BY <1>1, <1>5, <1>6, <1>7 DEF FirstPostOnce

LEMMA UntoldStays ==
    ASSUME RepliesInv, NEW w \in setting.workers, NEW label, NEW l, Moved(w, label, l),
           told' = told, thread'.author = thread.author,
           thread'.status = "none" => thread.status = "none" /\ label = "idle"
    PROVE  UntoldYet'
BY DEF RepliesInv, UntoldYet, Moved

\* One worker goes on in a thread whose author stays.
LEMMA RepliesMoved ==
    ASSUME RepliesInv, NEW w \in setting.workers, NEW label, NEW l, Moved(w, label, l), Shaped',
           RepliesRows', thread'.author = thread.author, ReplyHeld(label, l),
           FirstPostOnce', UntoldYet', \A u \in Posters : OwedWithin(u)', OwedAll'
    PROVE  RepliesInv'
<1>1. setting' = setting
  BY DEF Moved
<1>2. ASSUME NEW v \in setting.workers PROVE ReplyHeld(pc[v], loc[v])'
  <2>1. CASE v = w
    BY <2>1 DEF Moved, ReplyHeld
  <2>2. CASE v # w
    <3>1. ReplyHeld(pc[v], loc[v]) /\ pc'[v] = pc[v] /\ loc'[v] = loc[v]
      BY <2>2 DEF RepliesInv, Moved
    <3> QED
      BY <3>1 DEF ReplyHeld
  <2> QED
    BY <2>1, <2>2
<1> QED
  BY <1>1, <1>2 DEF RepliesInv

\* A statement that only reads, or ends its request.
LEMMA RepliesReads ==
    ASSUME RepliesInv, NEW w \in setting.workers, NEW label, NEW l, Moved(w, label, l), Shaped',
           UNCHANGED discussionTables, ReplyHeld(label, l), label # "thread.first",
           thread.status = "none" => label = "idle",
           \A u \in Posters : Owing(label, l, u) => Owing(pc[w], loc[w], u),
           Unfailing => (Owing(pc[w], loc[w], Teacher) => Owing(label, l, Teacher))
    PROVE  RepliesInv'
<1>1. UNCHANGED <<thread, posts, replies, made, late, told>>
  BY DEF discussionTables
<1>2. RepliesRows'
  BY <1>1 DEF RepliesInv, RepliesRows
<1>3. \A u \in Posters : posts'[u] - replies'[u] <= posts[u] - replies[u]
  BY <1>1, DiscussionsAssumption DEF RepliesInv, RepliesRows
<1>4. FirstPostOnce'
  BY <1>1, <1>2, <1>3, FirstStays
<1>5. UntoldYet'
  BY <1>1, UntoldStays
<1>6. (\A u \in Posters : OwedWithin(u)') /\ OwedAll'
  BY <1>1, OwedMoved
<1> QED
  BY <1>1, <1>2, <1>4, <1>5, <1>6, RepliesMoved

\* The thread, its lock, its opening post, and what is deleted.
LEMMA ThreadSteps ==
    ASSUME RepliesInv, NEW w \in setting.workers,
           \/ \E u \in Posters : CreateThread(w, u) \/ DeletePost(w, u)
           \/ CreateFirstPost(w) \/ LockThread(w)
    PROVE  RepliesInv'
<1>1. Shaped /\ RepliesRows /\ FirstPostOnce /\ UntoldYet
  BY DEF RepliesInv
<1>2. ASSUME NEW u \in Posters, CreateThread(w, u) PROVE RepliesInv'
  <2>1. Shaped' /\ Moved(w, "thread.first", u)
    BY <1>1, <1>2, HoldMoves DEF CreateThread
  <2>2. /\ thread' = [status |-> "open", author |-> u] /\ thread.status = "none"
        /\ UNCHANGED <<posts, replies, made, late, told>> /\ setting' = setting
    BY <1>2, <2>1 DEF CreateThread, Moved
  <2>3. (\A v \in setting.workers : pc[v] = "idle") /\ (\A v \in Posters : told[v] = 0)
    BY <1>1, <2>2 DEF UntoldYet
  <2>4. RepliesRows'
    BY <1>1, <2>2 DEF RepliesRows, ThreadRow
  <2>5. FirstPostOnce'
    BY <1>1, <2>1, <2>2, <2>3 DEF FirstPostOnce, Moved
  <2>6. UntoldYet'
    BY <2>2, <2>3 DEF UntoldYet
  <2>7. (\A v \in Posters : OwedWithin(v)') /\ OwedAll'
    BY <2>1, <2>2, <2>3, OwedMoved DEF Owing
  <2>8. ASSUME NEW v \in setting.workers PROVE ReplyHeld(pc[v], loc[v])'
    <3>1. ReplyHeld(pc[v], loc[v])
      BY DEF RepliesInv
    <3> QED
      BY <2>1, <2>3, <3>1 DEF ReplyHeld, Moved
  <2> QED
    BY <2>1, <2>2, <2>4, <2>5, <2>6, <2>7, <2>8 DEF RepliesInv
<1>3. ASSUME NEW u \in Posters, DeletePost(w, u) PROVE RepliesInv'
  <2>1. PICK l : l = loc[w]
    OBVIOUS
  <2>2. Shaped' /\ Moved(w, "idle", l) /\ pc[w] = "idle"
    BY <1>1, <1>3, <2>1, AtOnceMoves DEF DeletePost
  <2>3. /\ posts' \in [Posters -> 0..RepliesBound + 1]
        /\ \A v \in Posters : posts'[v] <= posts[v]
        /\ UNCHANGED <<thread, replies, made, late, told>>
    BY <1>3 DEF DeletePost
  <2>4. RepliesRows'
    BY <1>1, <2>3 DEF RepliesRows
  <2>5. \A v \in Posters : posts'[v] - replies'[v] <= posts[v] - replies[v]
    BY <1>1, <2>3, DiscussionsAssumption DEF RepliesRows
  <2>6. FirstPostOnce'
    BY <2>2, <2>3, <2>4, <2>5, FirstStays
  <2>7. UntoldYet'
    BY <2>2, <2>3, UntoldStays
  <2>8. ReplyHeld("idle", l)
    BY <2>1, <2>2 DEF RepliesInv, ReplyHeld
  <2>9. (\A v \in Posters : OwedWithin(v)') /\ OwedAll'
    BY <2>2, <2>3, OwedMoved DEF Owing
  <2> QED
    BY <2>2, <2>3, <2>4, <2>6, <2>7, <2>8, <2>9, RepliesMoved
<1>4. CASE CreateFirstPost(w)
  <2>1. Shaped' /\ Moved(w, "idle", Nothing)
    BY <1>1, <1>4, FinishMoves DEF CreateFirstPost
  <2>2. /\ pc[w] = "thread.first" /\ loc[w] \in Posters
        /\ UNCHANGED <<thread, replies, made, late, told>>
        /\ posts' = [posts EXCEPT ![loc[w]] = @ + 1] /\ setting' = setting
    BY <1>4, <2>1 DEF CreateFirstPost, At, RepliesInv, ReplyHeld, Moved
  <2>3. ASSUME NEW u \in Posters
        PROVE  /\ posts[u] \in Nat /\ replies[u] \in Nat /\ posts[u] <= replies[u]
               /\ posts'[u] \in Nat /\ posts'[u] <= replies[u] + 1
               /\ replies[u] <= RepliesBound /\ RepliesBound \in Nat
    <3>1. posts[u] \in Nat /\ replies[u] \in Nat /\ replies[u] <= RepliesBound
      BY <1>1, DiscussionsAssumption DEF RepliesRows
    <3>2. posts[u] <= replies[u]
      BY <1>1, <2>2 DEF FirstPostOnce
    <3>3. posts'[u] = posts[u] + 1 \/ posts'[u] = posts[u]
      BY <1>1, <2>2 DEF RepliesRows
    <3> QED
      BY <3>1, <3>2, <3>3, DiscussionsAssumption
  <2>4. posts' \in [Posters -> 0..RepliesBound + 1]
    <3>1. posts' = [u \in Posters |-> posts'[u]]
      BY <1>1, <2>2 DEF RepliesRows
    <3>2. \A u \in Posters : posts'[u] \in 0..RepliesBound + 1
      BY <2>3
    <3> QED
      BY <3>1, <3>2
  <2>5. RepliesRows'
    BY <1>1, <2>2, <2>4 DEF RepliesRows
  <2>6. FirstPostOnce'
    <3>1. \A v \in setting.workers : pc'[v] # "thread.first"
      BY <1>1, <2>1, <2>2 DEF FirstPostOnce, Moved
    <3>2. thread.status # "none"
      BY <1>1, <2>2 DEF UntoldYet
    <3> QED
      BY <2>2, <2>3, <3>1, <3>2 DEF FirstPostOnce
  <2>7. UntoldYet'
    BY <2>1, <2>2, UntoldStays
  <2>8. (\A v \in Posters : OwedWithin(v)') /\ OwedAll'
    BY <2>1, <2>2, OwedMoved DEF Owing
  <2>9. ReplyHeld("idle", Nothing)
    BY DEF ReplyHeld
  <2> QED
    BY <2>1, <2>2, <2>5, <2>6, <2>7, <2>8, <2>9, RepliesMoved
<1>5. CASE LockThread(w)
  <2>1. PICK l : l = loc[w]
    OBVIOUS
  <2>2. Shaped' /\ Moved(w, "idle", l) /\ pc[w] = "idle"
    BY <1>1, <1>5, <2>1, AtOnceMoves DEF LockThread
  <2>3. /\ thread' \in ThreadRow /\ thread'.status = "locked" /\ thread'.author = thread.author
        /\ UNCHANGED <<posts, replies, made, late, told>>
    BY <1>1, <1>5 DEF LockThread, RepliesRows, ThreadRow
  <2>4. RepliesRows'
    BY <1>1, <2>3 DEF RepliesRows
  <2>5. \A v \in Posters : posts'[v] - replies'[v] <= posts[v] - replies[v]
    BY <1>1, <2>3, DiscussionsAssumption DEF RepliesRows
  <2>6. FirstPostOnce'
    BY <2>2, <2>3, <2>4, <2>5, FirstStays
  <2>7. UntoldYet'
    BY <2>2, <2>3, UntoldStays
  <2>8. ReplyHeld("idle", l)
    BY <2>1, <2>2 DEF RepliesInv, ReplyHeld
  <2>9. (\A v \in Posters : OwedWithin(v)') /\ OwedAll'
    BY <2>2, <2>3, OwedMoved DEF Owing
  <2> QED
    BY <2>2, <2>3, <2>4, <2>6, <2>7, <2>8, <2>9, RepliesMoved
<1> QED
  BY <1>2, <1>3, <1>4, <1>5

\* A reply: everybody else is to be told of one more.
LEMMA ReplyInserted ==
    ASSUME RepliesInv, NEW w \in setting.workers, InsertReply(w)
    PROVE  RepliesInv'
<1>1. Shaped /\ RepliesRows /\ FirstPostOnce /\ UntoldYet
  BY DEF RepliesInv
<1>2. PICK a \in Posters : a = loc[w] /\ pc[w] = "reply.insert"
  BY DEF InsertReply, At, RepliesInv, ReplyHeld
<1>3. Shaped' /\ Moved(w, "reply.list", a)
  BY <1>1, <1>2, GotoMoves DEF InsertReply
<1>4. /\ posts' = [posts EXCEPT ![a] = @ + 1] /\ replies' = [replies EXCEPT ![a] = @ + 1]
      /\ made' = made + 1 /\ made < RepliesBound /\ (late' = late + 1 \/ late' = late)
      /\ UNCHANGED <<thread, told>> /\ Unfailing' = Unfailing
  BY <1>2, <1>3 DEF InsertReply, Moved, Unfailing
<1>5. ASSUME NEW u \in Posters
      PROVE  /\ posts[u] \in Nat /\ replies[u] \in Nat /\ made \in Nat /\ told[u] \in Nat
             /\ RepliesBound \in Nat /\ replies[u] <= made
             /\ posts[u] <= replies[u] + 1
             /\ u = a => posts'[u] = posts[u] + 1 /\ replies'[u] = replies[u] + 1
             /\ u # a => posts'[u] = posts[u] /\ replies'[u] = replies[u]
  BY <1>1, <1>4, DiscussionsAssumption DEF RepliesRows, FirstPostOnce
<1>6. RepliesRows'
  <2>1. \A u \in Posters : /\ posts'[u] \in 0..RepliesBound + 1
                           /\ replies'[u] \in 0..RepliesBound /\ replies'[u] <= made'
    BY <1>4, <1>5
  <2>2. /\ posts' = [u \in Posters |-> posts'[u]]
        /\ replies' = [u \in Posters |-> replies'[u]]
    BY <1>1, <1>4 DEF RepliesRows
  <2>3. posts' \in [Posters -> 0..RepliesBound + 1] /\ replies' \in [Posters -> 0..RepliesBound]
    BY <2>1, <2>2
  <2>4. made' \in 0..RepliesBound /\ late' \in 0..RepliesBound /\ late' <= made'
    BY <1>1, <1>4, DiscussionsAssumption DEF RepliesRows
  <2> QED
    BY <1>1, <1>4, <2>1, <2>3, <2>4 DEF RepliesRows
<1>7. \A u \in Posters : posts'[u] - replies'[u] <= posts[u] - replies[u]
  BY <1>5
<1>8. FirstPostOnce'
  BY <1>3, <1>4, <1>6, <1>7, FirstStays
<1>9. UntoldYet'
  <2>1. thread.status # "none"
    BY <1>1, <1>2 DEF UntoldYet
  <2> QED
    BY <1>3, <1>4, <2>1, UntoldStays
<1>10. ASSUME NEW u \in Posters
       PROVE  told'[u] + Cardinality(Owes(u)') - (made' - replies'[u]) =
                  told[u] + Cardinality(Owes(u)) - (made - replies[u])
              /\ Cardinality(Owes(u)) \in Nat /\ Cardinality(Owes(u)') \in Nat
  <2>1. ~Owing(pc[w], loc[w], u) /\ (Owing("reply.list", a, u) <=> u # a)
    BY <1>2 DEF Owing
  <2>2. /\ Cardinality(Owes(u)) \in Nat
        /\ u # a => Cardinality(Owes(u)') = Cardinality(Owes(u)) + 1
        /\ u = a => Cardinality(Owes(u)') = Cardinality(Owes(u))
    BY <1>1, <1>3, <2>1, OwesCount
  <2> QED
    BY <1>4, <1>5, <2>2
<1>11. ASSUME NEW u \in Posters PROVE OwedWithin(u)'
  <2>1. OwedWithin(u) /\ replies'[u] \in Nat /\ made' \in Nat /\ told'[u] \in Nat
    BY <1>4, <1>5 DEF RepliesInv
  <2> QED
    BY <1>5, <1>10, <2>1 DEF OwedWithin
<1>12. OwedAll'
  <2>1. /\ OwedAll /\ Teacher \in Posters
        /\ replies'[Teacher] \in Nat /\ made' \in Nat /\ told'[Teacher] \in Nat
    BY <1>4, <1>5, DiscussionsAssumption DEF RepliesInv
  <2>2. /\ told'[Teacher] + Cardinality(Owes(Teacher)') - (made' - replies'[Teacher]) =
              told[Teacher] + Cardinality(Owes(Teacher)) - (made - replies[Teacher])
        /\ Cardinality(Owes(Teacher)) \in Nat /\ Cardinality(Owes(Teacher)') \in Nat
    BY <1>10, <2>1
  <2>3. told[Teacher] \in Nat /\ made \in Nat /\ replies[Teacher] \in Nat
    BY <1>5, <2>1
  <2>4. CASE Unfailing
    <3>1. told[Teacher] + Cardinality(Owes(Teacher)) = made - replies[Teacher]
      BY <2>1, <2>4 DEF OwedAll
    <3>2. told'[Teacher] + Cardinality(Owes(Teacher)') = made' - replies'[Teacher]
      BY <2>1, <2>2, <2>3, <3>1
    <3> QED
      BY <3>2 DEF OwedAll
  <2> QED
    BY <1>4, <2>4 DEF OwedAll
<1>13. ReplyHeld("reply.list", a)
  BY DEF ReplyHeld
<1> QED
  BY <1>3, <1>4, <1>6, <1>8, <1>9, <1>11, <1>12, <1>13, RepliesMoved

\* The requests that tell of it.
LEMMA TellSteps ==
    ASSUME RepliesInv, NEW w \in setting.workers,
           \/ \E u \in Posters : BeginReply(w, u)
           \/ ListParticipants(w) \/ NotifyReply(w) \/ AllTold(w) \/ AbortDiscussions(w)
    PROVE  RepliesInv'
<1>1. Shaped /\ RepliesRows /\ FirstPostOnce /\ UntoldYet
  BY DEF RepliesInv
<1>2. ASSUME NEW u \in Posters, BeginReply(w, u) PROVE RepliesInv'
  <2>1. Shaped' /\ Moved(w, "reply.insert", u) /\ UNCHANGED discussionTables
    BY <1>1, <1>2, HoldMoves DEF BeginReply
  <2>2. pc[w] = "idle" /\ thread.status # "none"
    BY <1>2 DEF BeginReply, Idle
  <2>3. ReplyHeld("reply.insert", u)
    BY DEF ReplyHeld
  <2> QED
    BY <2>1, <2>2, <2>3, RepliesReads DEF Owing
<1>3. ASSUME pc[w] # "idle" PROVE thread.status # "none"
  BY <1>1, <1>3 DEF UntoldYet
<1>4. CASE ListParticipants(w)
  <2>1. PICK a \in Posters : a = loc[w] /\ pc[w] = "reply.list"
    BY <1>4 DEF ListParticipants, At, RepliesInv, ReplyHeld
  <2>2. PICK todo : todo = Recipients(a, {u \in Posters : posts[u] > 0})
    OBVIOUS
  <2>3. /\ todo \in SUBSET Posters /\ a \notin todo
        /\ \A u \in todo : u # Teacher => u # thread.author
        /\ a # Teacher => Teacher \in todo
    BY <2>2, DiscussionsAssumption DEF Recipients
  <2>4. PICK l : l = [actor |-> a, todo |-> todo]
    OBVIOUS
  <2>5. Shaped' /\ Moved(w, "reply.notify", l) /\ UNCHANGED discussionTables
    BY <1>1, <1>4, <2>1, <2>2, <2>4, HoldMoves DEF ListParticipants
  <2>6. ReplyHeld("reply.notify", l)
    BY <2>3, <2>4 DEF ReplyHeld
  <2>7. ASSUME NEW u PROVE Owing("reply.notify", l, u) <=> u \in todo
    BY <2>4 DEF Owing
  <2>8. ASSUME NEW u PROVE Owing(pc[w], loc[w], u) <=> u # a
    BY <2>1 DEF Owing
  <2> QED
    BY <1>3, <2>1, <2>3, <2>5, <2>6, <2>7, <2>8, RepliesReads
<1>5. CASE NotifyReply(w)
  <2>1. PICK u \in loc[w].todo :
        /\ Hold(w, "reply.notify", [loc[w] EXCEPT !.todo = @ \ {u}])
        /\ \/ told' = [told EXCEPT ![u] = @ + 1]
           \/ setting.failures /\ UNCHANGED told
    BY <1>5 DEF NotifyReply
  <2>2. PICK g : g = loc[w] /\ pc[w] = "reply.notify"
    BY <1>5 DEF NotifyReply, At
  <2>3. /\ g \in [actor : Posters, todo : SUBSET Posters]
        /\ \A v \in g.todo : v # Teacher => v # thread.author
    BY <2>2 DEF RepliesInv, ReplyHeld
  <2>4. PICK l : l = [g EXCEPT !.todo = @ \ {u}]
    OBVIOUS
  <2>5. /\ l \in [actor : Posters, todo : SUBSET Posters] /\ l.todo = g.todo \ {u}
        /\ u \in g.todo /\ u \in Posters
    BY <2>1, <2>2, <2>3, <2>4
  <2>6. Shaped' /\ Moved(w, "reply.notify", l)
    BY <1>1, <2>1, <2>2, <2>4, HoldMoves
  <2>7. UNCHANGED <<thread, posts, replies, made, late>> /\ thread.status # "none"
        /\ Unfailing' = Unfailing
    BY <1>3, <1>5, <2>2, <2>6 DEF NotifyReply, Moved, Unfailing
  <2>8. ReplyHeld("reply.notify", l)
    BY <2>3, <2>5 DEF ReplyHeld
  <2>9. ASSUME NEW v
        PROVE  /\ Owing("reply.notify", l, v) <=> v \in g.todo /\ v # u
               /\ Owing(pc[w], loc[w], v) <=> v \in g.todo
    BY <2>2, <2>5 DEF Owing
  <2>10. CASE setting.failures /\ UNCHANGED told
    <3>1. ~Unfailing /\ UNCHANGED discussionTables
      BY <2>7, <2>10 DEF Unfailing, discussionTables
    <3> QED
      BY <2>6, <2>7, <2>8, <2>9, <3>1, RepliesReads
  <2>11. CASE told' = [told EXCEPT ![u] = @ + 1]
    <3>1. ASSUME NEW v \in Posters
          PROVE  /\ told[v] \in Nat /\ made \in Nat /\ replies[v] \in Nat
                 /\ v = u => told'[v] = told[v] + 1
                 /\ v # u => told'[v] = told[v]
      BY <1>1, <2>5, <2>11, DiscussionsAssumption DEF RepliesRows
    <3>2. RepliesRows'
      <4>1. told[u] + 1 \in Nat
        BY <2>5, <3>1
      <4>2. told' \in [Posters -> Nat]
        BY <1>1, <2>11, <4>1 DEF RepliesRows
      <4> QED
        BY <1>1, <2>7, <4>2 DEF RepliesRows
    <3>3. \A v \in Posters : posts'[v] - replies'[v] <= posts[v] - replies[v]
      BY <1>1, <2>7, DiscussionsAssumption DEF RepliesRows
    <3>4. FirstPostOnce'
      BY <2>6, <2>7, <3>2, <3>3, FirstStays
    <3>5. UntoldYet'
      BY <1>1, <2>3, <2>5, <2>7, <3>1 DEF UntoldYet
    <3>6. ASSUME NEW v \in Posters
          PROVE  /\ Cardinality(Owes(v)) \in Nat
                 /\ told'[v] + Cardinality(Owes(v)') = told[v] + Cardinality(Owes(v))
      <4>1. /\ Cardinality(Owes(v)) \in Nat
            /\ v = u => Cardinality(Owes(v)') = Cardinality(Owes(v)) - 1
            /\ v # u => Cardinality(Owes(v)') = Cardinality(Owes(v))
        BY <1>1, <2>5, <2>6, <2>9, OwesCount
      <4> QED
        BY <3>1, <4>1
    <3>7. ASSUME NEW v \in Posters PROVE OwedWithin(v)'
      BY <2>7, <3>1, <3>6 DEF RepliesInv, OwedWithin
    <3>8. OwedAll'
      BY <2>7, <3>1, <3>6, DiscussionsAssumption DEF RepliesInv, OwedAll
    <3> QED
      BY <2>6, <2>7, <2>8, <3>2, <3>4, <3>5, <3>7, <3>8, RepliesMoved
  <2> QED
    BY <2>1, <2>10, <2>11
<1>6. ReplyHeld("idle", Nothing)
  BY DEF ReplyHeld
<1>7. CASE AllTold(w)
  <2>1. Shaped' /\ Moved(w, "idle", Nothing) /\ UNCHANGED discussionTables
    BY <1>1, <1>7, FinishMoves DEF AllTold
  <2>2. pc[w] = "reply.notify" /\ loc[w].todo = {}
    BY <1>7 DEF AllTold, At
  <2> QED
    BY <1>6, <2>1, <2>2, RepliesReads DEF Owing
<1>8. CASE AbortDiscussions(w)
  <2>1. Shaped' /\ Moved(w, "idle", Nothing) /\ UNCHANGED discussionTables /\ ~Unfailing
    BY <1>1, <1>8, FinishMoves DEF AbortDiscussions, Abort, Unfailing
  <2> QED
    BY <1>6, <2>1, RepliesReads DEF Owing
<1> QED
  BY <1>2, <1>4, <1>5, <1>7, <1>8

LEMMA RepliesNextInv ==
    ASSUME RepliesInv, [DiscussionsNext]_discussionVars
    PROVE  RepliesInv'
<1>1. CASE UNCHANGED discussionVars
  <2>1. Shaped' /\ setting' = setting /\ pc' = pc /\ loc' = loc
    BY <1>1, StayShaped DEF RepliesInv, discussionVars
  <2>2. PICK w \in setting.workers : TRUE
    BY DEF RepliesInv, Shaped
  <2>3. UNCHANGED <<thread, posts, replies, made, late, told>>
    BY <1>1 DEF discussionVars, discussionTables
  <2>4. RepliesRows' /\ FirstPostOnce' /\ UntoldYet'
    BY <2>1, <2>3 DEF RepliesInv, RepliesRows, FirstPostOnce, UntoldYet
  <2>5. \A v \in setting.workers : ReplyHeld(pc[v], loc[v])'
    BY <2>1, <2>3 DEF RepliesInv, ReplyHeld
  <2>6. (\A u \in Posters : OwedWithin(u)') /\ OwedAll'
    BY <2>1, <2>3 DEF RepliesInv, OwedWithin, OwedAll, Owes, Owing, Unfailing
  <2> QED
    BY <2>1, <2>4, <2>5, <2>6 DEF RepliesInv
<1>2. CASE DiscussionsNext
  BY <1>2, ThreadSteps, ReplyInserted, TellSteps
  DEF DiscussionsNext, BeginDiscussion, DiscussionStep
<1> QED
  BY <1>1, <1>2

\* What has been told is at most what was said by others.
LEMMA ToldWithin ==
    ASSUME RepliesInv, NEW u \in Posters
    PROVE  /\ told[u] \in Nat /\ made \in 0..RepliesBound /\ replies[u] \in Nat
           /\ told[u] <= made - replies[u]
<1>1. Cardinality(Owes(u)) \in Nat
  BY WorkersCount DEF RepliesInv, Owes
<1>2. OwedWithin(u) /\ told[u] \in Nat /\ made \in 0..RepliesBound /\ replies[u] \in Nat
  BY DiscussionsAssumption DEF RepliesInv, RepliesRows
<1> QED
  BY <1>1, <1>2, DiscussionsAssumption DEF OwedWithin

LEMMA RepliesInvTypes == RepliesInv => DiscussionsTypeOK
<1> SUFFICES ASSUME RepliesInv PROVE DiscussionsTypeOK
  OBVIOUS
<1>1. told \in [Posters -> 0..RepliesBound]
  <2>1. \A u \in Posters : told[u] \in 0..RepliesBound
    BY ToldWithin, DiscussionsAssumption
  <2> QED
    BY <2>1 DEF RepliesInv, RepliesRows
<1>2. \A w \in setting.workers : ReplyHeld(pc[w], loc[w])
  BY DEF RepliesInv
<1> QED
  BY <1>1, <1>2 DEF RepliesInv, RepliesRows, DiscussionsTypeOK, ReplyHeld

\* Participants are listed, and told one by one, in statements after the insert
\* (communication.go:459-480): for any number of members, replies and requests,
\* whatever is deleted or fails, nobody is told of a reply twice, of their own, or of
\* one in a thread they opened unless they teach; unless requests fail, the teacher
\* has been told of all replies of others when no request is under way.
THEOREM RepliesTheorem == DiscussionsSpec => []RepliesTold
<1>1. ASSUME RepliesInv PROVE RepliesTold
  <2>1. ASSUME NEW u \in Posters
        PROVE  told[u] <= IF u = thread.author /\ u # Teacher THEN 0 ELSE made - replies[u]
    BY <1>1, ToldWithin DEF RepliesInv, UntoldYet
  <2>2. ASSUME Unfailing, Quiet PROVE told[Teacher] = made - replies[Teacher]
    <3>1. Owes(Teacher) = {}
      BY <2>2 DEF Owes, Owing, Quiet
    <3>2. Cardinality(Owes(Teacher)) = 0
      BY <3>1, FS_EmptySet
    <3>3. told[Teacher] + Cardinality(Owes(Teacher)) = made - replies[Teacher]
      BY <1>1, <2>2 DEF RepliesInv, OwedAll
    <3>4. told[Teacher] \in Nat
      BY <1>1, DiscussionsAssumption DEF RepliesInv, RepliesRows
    <3> QED
      BY <3>2, <3>3, <3>4
  <2> QED
    BY <2>1, <2>2 DEF RepliesTold
<1>2. RepliesInv /\ [DiscussionsNext]_discussionVars => RepliesInv'
  BY RepliesNextInv
<1> QED
  BY <1>1, <1>2, RepliesInitInv, PTL DEF DiscussionsSpec

-------------------------------------------------------------------------------
(* The catalogue: courses, their publication and their tags                *)

\* What CatalogTypeOK says of a worker; that a publication dates the course, and
\* that the tags a course is about to get exist.
CatalogHeld(label, l) ==
    \/ label = "idle" /\ l = Nothing
    \/ /\ label = "course.update"
       /\ l \in [course : Courses, title : Titles, category : categories \cup {Nothing}]
    \/ /\ label = "course.status"
       /\ l \in [course : Courses, status : {"published", "archived"}, dated : BOOLEAN]
       /\ l.status = "published" => l.dated
    \/ label = "tags.names" /\ l \in [course : Courses, wanted : SUBSET Tags]
    \/ label = "tags.clear" /\ l \in [course : Courses, wanted : SUBSET tags]
    \/ /\ label = "tags.insert"
       /\ l \in [course : Courses, wanted : SUBSET tags, cleared : SUBSET tags]

\* A request that runs alone does not lose the date it has read.
DateKept(label, l) ==
    label = "course.status" /\ Stands(l.course) /\ courses[l.course].dated => l.dated

CourseRows ==
    /\ courses \in [Courses -> Course \cup {Nothing}]
    /\ \A c \in Courses : courses[c] # Nothing =>
        /\ courses[c].category \in categories \cup {Nothing}
        /\ courses[c].status = "published" => courses[c].dated
    /\ \A c \in Courses, d \in Courses :
        Stands(c) /\ Stands(d) /\ courses[c].slug = courses[d].slug => c = d

TagRows ==
    /\ categories \subseteq Slugs /\ tags \subseteq Tags
    /\ tagged \in [Courses -> SUBSET tags]

\* What makes CatalogTypeOK and CourseForward inductive.
CatalogInv ==
    /\ Shaped /\ CourseRows /\ TagRows
    /\ \A w \in setting.workers : CatalogHeld(pc[w], loc[w])
    /\ Alone => \A w \in setting.workers : DateKept(pc[w], loc[w])

LEMMA CatalogInitInv == CatalogInit => CatalogInv
<1> SUFFICES ASSUME CatalogInit PROVE CatalogInv
  OBVIOUS
<1>1. Shaped /\ \A w \in setting.workers : pc[w] = "idle" /\ loc[w] = Nothing
  BY ShapedInit DEF CatalogInit, RequestsInit
<1>2. CourseRows /\ TagRows
  BY DEF CatalogInit, CourseRows, TagRows, Stands
<1> QED
  BY <1>1, <1>2 DEF CatalogInv, CatalogHeld, DateKept

\* One worker goes on; categories and tags only get more.
LEMMA CatalogMoved ==
    ASSUME CatalogInv, NEW w \in setting.workers, NEW label, NEW l, Moved(w, label, l), Shaped',
           CourseRows', TagRows', categories \subseteq categories', tags \subseteq tags',
           CatalogHeld(label, l)', Alone => DateKept(label, l)'
    PROVE  CatalogInv'
<1>1. setting' = setting /\ Alone' = Alone
  BY DEF Moved, Alone
<1>2. ASSUME NEW v \in setting.workers PROVE CatalogHeld(pc[v], loc[v])'
  <2>1. CASE v = w
    BY <2>1 DEF Moved, CatalogHeld
  <2>2. CASE v # w
    <3>1. pc'[v] = pc[v] /\ loc'[v] = loc[v] /\ CatalogHeld(pc[v], loc[v])
      BY <2>2 DEF Moved, CatalogInv
    <3> QED
      BY <3>1 DEF CatalogHeld
  <2> QED
    BY <2>1, <2>2
<1>3. ASSUME Alone, NEW v \in setting.workers PROVE DateKept(pc[v], loc[v])'
  <2>1. v = w
    BY <1>3, AloneOne DEF CatalogInv
  <2> QED
    BY <1>3, <2>1 DEF Moved, DateKept, Stands
<1> QED
  BY <1>1, <1>2, <1>3 DEF CatalogInv

LEMMA CatalogReads ==
    ASSUME CatalogInv, NEW w \in setting.workers, NEW label, NEW l, Moved(w, label, l), Shaped',
           UNCHANGED catalogTables, CatalogHeld(label, l), Alone => DateKept(label, l)
    PROVE  CatalogInv'
<1>1. /\ courses' = courses /\ categories' = categories /\ tags' = tags /\ tagged' = tagged
  BY DEF catalogTables
<1>2. CourseRows' /\ TagRows'
  BY <1>1 DEF CatalogInv, CourseRows, TagRows, Stands
<1>3. CatalogHeld(label, l)' /\ (Alone => DateKept(label, l)')
  BY <1>1 DEF CatalogHeld, DateKept, Stands
<1> QED
  BY <1>1, <1>2, <1>3, CatalogMoved

\* A row is rewritten in place: its slug stays, and a deleted row does not come back.
LEMMA RowRewritten ==
    ASSUME CourseRows, NEW c \in Courses, courses[c] # Nothing,
           courses' \in [Courses -> Course \cup {Nothing}],
           \A d \in Courses \ {c} : courses'[d] = courses[d],
           courses'[c].slug = courses[c].slug, courses'[c].deleted \/ Stands(c),
           courses'[c].category \in categories' \cup {Nothing},
           courses'[c].status = "published" => courses'[c].dated, categories' = categories
    PROVE  CourseRows'
<1>1. \A d \in Courses : Stands(d)' => Stands(d) /\ courses'[d].slug = courses[d].slug
  BY DEF CourseRows, Stands
<1>2. ASSUME NEW d \in Courses, courses'[d] # Nothing
      PROVE  /\ courses'[d].category \in categories' \cup {Nothing}
             /\ courses'[d].status = "published" => courses'[d].dated
  BY <1>2 DEF CourseRows
<1> QED
  BY <1>1, <1>2 DEF CourseRows

LEMMA CatalogNextInv ==
    ASSUME CatalogInv, [CatalogNext]_catalogVars
    PROVE  CatalogInv'
<1>1. Shaped /\ CourseRows /\ TagRows /\ courses \in [Courses -> Course \cup {Nothing}]
  BY DEF CatalogInv, CourseRows
<1>2. ASSUME NEW w \in setting.workers, Finish(w)
      PROVE  Shaped' /\ Moved(w, "idle", Nothing) /\ CatalogHeld("idle", Nothing)'
  BY <1>1, <1>2, FinishMoves DEF CatalogHeld
<1>3. ASSUME NEW w \in setting.workers, AtOnce(w)
      PROVE  /\ Shaped' /\ Moved(w, "idle", Nothing)
             /\ pc'[w] = "idle" /\ CatalogHeld("idle", Nothing)'
  <2>1. loc[w] = Nothing
    BY <1>3 DEF CatalogInv, CatalogHeld, AtOnce, Idle
  <2> QED
    BY <1>1, <1>3, <2>1, AtOnceMoves DEF Moved, CatalogHeld
<1>4. DateKept("idle", Nothing)'
  BY DEF DateKept
<1>5. UNCHANGED <<courses, categories>> => CourseRows'
  BY <1>1 DEF CourseRows, Stands
<1>6. ASSUME NEW w \in setting.workers, NEW slug \in Slugs, CreateCategory(w, slug)
      PROVE  CatalogInv'
  <2>1. CourseRows' /\ TagRows' /\ categories \subseteq categories'
    BY <1>1, <1>6 DEF CreateCategory, CourseRows, TagRows, Stands
  <2> QED
    BY <1>3, <1>4, <1>6, <2>1, CatalogMoved DEF CreateCategory
<1>7. ASSUME NEW w \in setting.workers, NEW c \in Courses, NEW slug \in Slugs,
             NEW title \in Titles, NEW category \in Slugs \cup {Nothing},
             NEW names \in {Nothing} \cup SUBSET Tags,
             CreateCourse(w, c, slug, title, category, names)
      PROVE  CatalogInv'
  <2>1. PICK row : row = [status |-> "draft", slug |-> slug, title |-> title,
                          category |-> category, dated |-> FALSE, deleted |-> FALSE]
    OBVIOUS
  <2>2. row \in Course /\ row.status = "draft" /\ row.slug = slug /\ row.category = category
    BY <2>1 DEF Course, CourseStatus
  <2>3. /\ courses' = [courses EXCEPT ![c] = row] /\ ~SlugTaken(slug)
        /\ UNCHANGED <<categories, tags, tagged>>
    BY <1>7, <2>1 DEF CreateCourse
  <2>4. courses'[c] = row /\ \A d \in Courses \ {c} : courses'[d] = courses[d]
    BY <1>1, <2>3
  <2>5. CourseRows'
    <3>1. courses' \in [Courses -> Course \cup {Nothing}]
      BY <1>1, <2>2, <2>3
    <3>2. ASSUME NEW d \in Courses, courses'[d] # Nothing
          PROVE  /\ courses'[d].category \in categories' \cup {Nothing}
                 /\ courses'[d].status = "published" => courses'[d].dated
      BY <1>1, <1>7, <2>2, <2>3, <2>4, <3>2 DEF CourseRows, CreateCourse
    <3>3. \A d \in Courses \ {c} : Stands(d)' => Stands(d) /\ courses'[d].slug # slug
      BY <2>3, <2>4 DEF SlugTaken, Stands
    <3>4. \A d, e \in Courses :
              Stands(d)' /\ Stands(e)' /\ courses'[d].slug = courses'[e].slug => d = e
      BY <1>1, <2>2, <2>4, <3>3 DEF CourseRows
    <3> QED
      BY <3>1, <3>2, <3>4 DEF CourseRows
  <2>6. TagRows'
    BY <1>1, <2>3 DEF TagRows
  <2>7. CASE names = Nothing
    <3>1. AtOnce(w)
      BY <1>7, <2>7 DEF CreateCourse, AtOnce, requests
    <3> QED
      BY <1>3, <1>4, <2>3, <2>5, <2>6, <3>1, CatalogMoved
  <2>8. CASE names # Nothing
    <3>1. PICK h : h = [course |-> c, wanted |-> names]
      OBVIOUS
    <3>2. CatalogHeld("tags.names", h)' /\ DateKept("tags.names", h)'
      BY <2>8, <3>1 DEF CatalogHeld, DateKept
    <3>3. Hold(w, "tags.names", h)
      BY <1>7, <2>8, <3>1 DEF CreateCourse
    <3> QED
      BY <1>1, <2>3, <2>5, <2>6, <3>2, <3>3, HoldMoves, CatalogMoved
  <2> QED
    BY <2>7, <2>8
<1>8. ASSUME NEW w \in setting.workers, NEW c \in Courses,
             NEW title \in Titles, NEW category \in Slugs \cup {Nothing},
             BeginUpdateCourse(w, c, title, category)
      PROVE  CatalogInv'
  <2>1. PICK h : h = [course |-> c, title |-> title, category |-> category]
    OBVIOUS
  <2>2. category \in categories \cup {Nothing}
    BY <1>1, <1>8 DEF BeginUpdateCourse, CourseRows, Stands
  <2>3. CatalogHeld("course.update", h) /\ DateKept("course.update", h)
    BY <2>1, <2>2 DEF CatalogHeld, DateKept
  <2> QED
    BY <1>1, <1>8, <2>1, <2>3, HoldMoves, CatalogReads DEF BeginUpdateCourse
<1>9. ASSUME NEW w \in setting.workers, WriteCourse(w) PROVE CatalogInv'
  <2>1. loc[w] \in [course : Courses, title : Titles, category : categories \cup {Nothing}]
    BY <1>9 DEF WriteCourse, At, CatalogInv, CatalogHeld
  <2>2. PICK c \in Courses, title \in Titles, category \in categories \cup {Nothing} :
            loc[w] = [course |-> c, title |-> title, category |-> category]
    BY <2>1
  <2>3. Finish(w) /\ UNCHANGED <<categories, tags, tagged>> /\ TagRows'
    BY <1>1, <1>9 DEF WriteCourse, TagRows
  <2>4. CASE ~Stands(c)
    <3>1. courses' = courses
      BY <1>9, <2>2, <2>4 DEF WriteCourse
    <3> QED
      BY <1>2, <1>4, <1>5, <2>3, <3>1, CatalogMoved
  <2>5. CASE Stands(c)
    <3>1. courses' = [courses EXCEPT ![c].title = title, ![c].category = category]
      BY <1>9, <2>2, <2>5 DEF WriteCourse
    <3>2. /\ courses[c] \in Course /\ courses[c] # Nothing /\ categories \subseteq Slugs
          /\ courses[c].status = "published" => courses[c].dated
      BY <1>1, <2>5 DEF Stands, TagRows, CourseRows
    <3>3. /\ courses' \in [Courses -> Course \cup {Nothing}]
          /\ \A d \in Courses \ {c} : courses'[d] = courses[d]
      BY <1>1, <3>1, <3>2 DEF Course
    <3>4. /\ courses'[c].slug = courses[c].slug /\ courses'[c].category = category
          /\ courses'[c].status = courses[c].status /\ courses'[c].dated = courses[c].dated
      BY <1>1, <3>1, <3>2 DEF Course
    <3>5. CourseRows'
      BY <1>1, <2>3, <2>5, <3>2, <3>3, <3>4, RowRewritten
    <3> QED
      BY <1>2, <1>4, <2>3, <3>5, CatalogMoved
  <2> QED
    BY <2>4, <2>5
<1>10. ASSUME NEW w \in setting.workers, NEW c \in Courses,
              BeginPublishCourse(w, c) \/ BeginArchiveCourse(w, c)
       PROVE  CatalogInv'
  <2>1. courses[c] \in Course /\ courses[c] # Nothing
    BY <1>1, <1>10 DEF BeginPublishCourse, BeginArchiveCourse, Stands
  <2>2. PICK status \in {"published", "archived"}, dated \in BOOLEAN :
            /\ Hold(w, "course.status", [course |-> c, status |-> status, dated |-> dated])
            /\ dated = TRUE \/ (status = "archived" /\ dated = courses[c].dated)
    <3>1. courses[c].dated \in BOOLEAN
      BY <2>1 DEF Course
    <3> QED
      BY <1>10, <3>1, Zenon DEF BeginPublishCourse, BeginArchiveCourse
  <2>3. /\ CatalogHeld("course.status", [course |-> c, status |-> status, dated |-> dated])
        /\ DateKept("course.status", [course |-> c, status |-> status, dated |-> dated])
    BY <2>2 DEF CatalogHeld, DateKept
  <2> QED
    BY <1>1, <1>10, <2>2, <2>3, HoldMoves, CatalogReads
    DEF BeginPublishCourse, BeginArchiveCourse
<1>11. ASSUME NEW w \in setting.workers, SetCourseStatus(w) PROVE CatalogInv'
  <2>1. /\ loc[w] \in [course : Courses, status : {"published", "archived"}, dated : BOOLEAN]
        /\ loc[w].status = "published" => loc[w].dated
    BY <1>11 DEF SetCourseStatus, At, CatalogInv, CatalogHeld
  <2>2. PICK c \in Courses, status \in {"published", "archived"}, dated \in BOOLEAN :
            loc[w] = [course |-> c, status |-> status, dated |-> dated]
    BY <2>1
  <2>3. Finish(w) /\ UNCHANGED <<categories, tags, tagged>> /\ TagRows'
    BY <1>1, <1>11 DEF SetCourseStatus, TagRows
  <2>4. CASE ~Stands(c)
    <3>1. courses' = courses
      BY <1>11, <2>2, <2>4 DEF SetCourseStatus
    <3> QED
      BY <1>2, <1>4, <1>5, <2>3, <3>1, CatalogMoved
  <2>5. CASE Stands(c)
    <3>1. courses' = [courses EXCEPT ![c].status = status, ![c].dated = dated]
      BY <1>11, <2>2, <2>5 DEF SetCourseStatus
    <3>2. /\ courses[c] \in Course /\ courses[c] # Nothing
          /\ courses[c].category \in categories \cup {Nothing}
      BY <1>1, <2>5 DEF Stands, CourseRows
    <3>3. /\ courses' \in [Courses -> Course \cup {Nothing}]
          /\ \A d \in Courses \ {c} : courses'[d] = courses[d]
      BY <1>1, <3>1, <3>2 DEF Course, CourseStatus
    <3>4. /\ courses'[c].slug = courses[c].slug /\ courses'[c].category = courses[c].category
          /\ courses'[c].status = status /\ courses'[c].dated = dated
      BY <1>1, <3>1, <3>2 DEF Course
    <3>5. status = "published" => dated
      BY <2>1, <2>2
    <3>6. CourseRows'
      BY <1>1, <2>3, <2>5, <3>2, <3>3, <3>4, <3>5, RowRewritten
    <3> QED
      BY <1>2, <1>4, <2>3, <3>6, CatalogMoved
  <2> QED
    BY <2>4, <2>5
<1>12. ASSUME NEW w \in setting.workers, NEW c \in Courses, DeleteCourse(w, c)
       PROVE  CatalogInv'
  <2>1. courses' = [courses EXCEPT ![c].deleted = TRUE, ![c].status = "archived"]
    BY <1>12 DEF DeleteCourse
  <2>2. /\ courses[c] \in Course /\ courses[c] # Nothing /\ Stands(c)
        /\ courses[c].category \in categories \cup {Nothing}
    BY <1>1, <1>12 DEF DeleteCourse, Stands, CourseRows
  <2>3. /\ courses' \in [Courses -> Course \cup {Nothing}]
        /\ \A d \in Courses \ {c} : courses'[d] = courses[d]
    BY <1>1, <2>1, <2>2 DEF Course, CourseStatus
  <2>4. /\ courses'[c].slug = courses[c].slug /\ courses'[c].category = courses[c].category
        /\ courses'[c].status = "archived"
    BY <1>1, <2>1, <2>2 DEF Course
  <2>5. UNCHANGED <<categories, tags, tagged>> /\ TagRows'
    BY <1>1, <1>12 DEF DeleteCourse, TagRows
  <2>6. CourseRows'
    BY <1>1, <2>2, <2>3, <2>4, <2>5, RowRewritten
  <2> QED
    BY <1>3, <1>4, <1>12, <2>5, <2>6, CatalogMoved DEF DeleteCourse
<1>13. ASSUME NEW w \in setting.workers, NEW c \in Courses, NEW names \in SUBSET Tags,
              BeginSetTags(w, c, names)
       PROVE  CatalogInv'
  <2>1. PICK h : h = [course |-> c, wanted |-> names]
    OBVIOUS
  <2>2. CatalogHeld("tags.names", h) /\ DateKept("tags.names", h)
    BY <2>1 DEF CatalogHeld, DateKept
  <2> QED
    BY <1>1, <1>13, <2>1, <2>2, HoldMoves, CatalogReads DEF BeginSetTags
<1>14. ASSUME NEW w \in setting.workers, NameTags(w) PROVE CatalogInv'
  <2>1. PICK h : h = loc[w]
    OBVIOUS
  <2>2. h \in [course : Courses, wanted : SUBSET Tags]
    BY <1>14, <2>1 DEF NameTags, At, CatalogInv, CatalogHeld
  <2>3. /\ tags' = tags \cup h.wanted /\ UNCHANGED <<courses, categories, tagged>>
        /\ Goto(w, "tags.clear")
    BY <1>14, <2>1 DEF NameTags
  <2>4. CatalogHeld("tags.clear", h)' /\ DateKept("tags.clear", h)'
    BY <2>2, <2>3 DEF CatalogHeld, DateKept
  <2>5. TagRows' /\ tags \subseteq tags'
    BY <1>1, <2>2, <2>3 DEF TagRows
  <2> QED
    BY <1>1, <1>5, <2>1, <2>3, <2>4, <2>5, GotoMoves, CatalogMoved
<1>15. ASSUME NEW w \in setting.workers, ClearTags(w) PROVE CatalogInv'
  <2>1. PICK h : h = [course |-> loc[w].course, wanted |-> loc[w].wanted,
                      cleared |-> tagged[loc[w].course]]
    OBVIOUS
  <2>2. loc[w] \in [course : Courses, wanted : SUBSET tags]
    BY <1>15 DEF ClearTags, At, CatalogInv, CatalogHeld
  <2>3. CatalogHeld("tags.insert", h) /\ DateKept("tags.insert", h)
    BY <1>1, <2>1, <2>2 DEF CatalogHeld, DateKept, TagRows
  <2> QED
    BY <1>1, <1>15, <2>1, <2>3, HoldMoves, CatalogReads DEF ClearTags
<1>16. ASSUME NEW w \in setting.workers, InsertTags(w) PROVE CatalogInv'
  <2>1. loc[w] \in [course : Courses, wanted : SUBSET tags, cleared : SUBSET tags]
    BY <1>16 DEF InsertTags, At, CatalogInv, CatalogHeld
  <2>2. PICK c \in Courses, wanted \in SUBSET tags, cleared \in SUBSET tags :
            loc[w] = [course |-> c, wanted |-> wanted, cleared |-> cleared]
    BY <2>1
  <2>3. UNCHANGED <<courses, categories, tags>> /\ CourseRows'
    BY <1>5, <1>16 DEF InsertTags
  <2>4. CASE Finish(w) /\ UNCHANGED tagged
    <3>1. TagRows'
      BY <1>1, <2>3, <2>4 DEF TagRows
    <3> QED
      BY <1>2, <1>4, <2>3, <2>4, <3>1, CatalogMoved
  <2>5. CASE ~(Finish(w) /\ UNCHANGED tagged)
    <3>1. /\ tagged' = [tagged EXCEPT ![c] = (tagged[c] \ cleared) \cup wanted]
          /\ pc' = [pc EXCEPT ![w] = "idle"]
          /\ loc' = [v \in setting.workers |->
                        IF v = w THEN Nothing
                        ELSE IF pc[v] = "tags.insert" /\ loc[v].course = c
                             THEN [loc[v] EXCEPT !.cleared = @ \ cleared]
                             ELSE loc[v]]
          /\ setting' = setting
      BY <1>16, <2>2, <2>5 DEF InsertTags
    <3>2. TagRows'
      BY <1>1, <2>3, <3>1 DEF TagRows
    <3>3. Shaped' /\ Alone' = Alone
      BY <1>1, <3>1 DEF Shaped, Alone
    <3>4. ASSUME NEW v \in setting.workers, v # w PROVE CatalogHeld(pc[v], loc[v])'
      <4>1. pc'[v] = pc[v] /\ CatalogHeld(pc[v], loc[v])
        BY <1>1, <3>1, <3>4 DEF Shaped, CatalogInv
      <4>2. CASE pc[v] = "tags.insert" /\ loc[v].course = c
        <5>1. loc'[v] = [loc[v] EXCEPT !.cleared = @ \ cleared]
          BY <3>1, <3>4, <4>2
        <5>2. loc[v] \in [course : Courses, wanted : SUBSET tags, cleared : SUBSET tags]
          BY <4>1, <4>2 DEF CatalogHeld
        <5>3. loc'[v] \in [course : Courses, wanted : SUBSET tags, cleared : SUBSET tags]
          BY <5>1, <5>2
        <5> QED
          BY <2>3, <4>1, <4>2, <5>3 DEF CatalogHeld
      <4>3. CASE ~(pc[v] = "tags.insert" /\ loc[v].course = c)
        <5>1. loc'[v] = loc[v]
          BY <3>1, <3>4, <4>3
        <5> QED
          BY <2>3, <4>1, <5>1 DEF CatalogHeld
      <4> QED
        BY <4>2, <4>3
    <3>5. pc'[w] = "idle" /\ loc'[w] = Nothing
      BY <1>1, <3>1 DEF Shaped
    <3>6. \A v \in setting.workers : CatalogHeld(pc[v], loc[v])'
      BY <3>4, <3>5 DEF CatalogHeld
    <3>7. ASSUME Alone, NEW v \in setting.workers PROVE DateKept(pc[v], loc[v])'
      <4>1. v = w
        BY <1>1, <3>7, AloneOne
      <4> QED
        BY <3>5, <4>1 DEF DateKept
    <3> QED
      BY <2>3, <3>1, <3>2, <3>3, <3>6, <3>7 DEF CatalogInv
  <2> QED
    BY <2>4, <2>5
<1>17. ASSUME NEW w \in setting.workers, AbortCatalog(w) PROVE CatalogInv'
  BY <1>1, <1>17, FinishMoves, CatalogReads DEF AbortCatalog, Abort, CatalogHeld, DateKept
<1>18. CASE UNCHANGED catalogVars
  <2>1. /\ Shaped' /\ setting' = setting /\ pc' = pc /\ loc' = loc /\ Alone' = Alone
        /\ courses' = courses /\ categories' = categories /\ tags' = tags /\ tagged' = tagged
    BY <1>1, <1>18, StayShaped DEF catalogVars, catalogTables, Alone
  <2>2. CourseRows' /\ TagRows'
    BY <1>1, <2>1 DEF CourseRows, TagRows, Stands
  <2> QED
    BY <2>1, <2>2 DEF CatalogInv, CatalogHeld, DateKept, Stands
<1> QED
  BY <1>6, <1>7, <1>8, <1>9, <1>10, <1>11, <1>12, <1>13, <1>14, <1>15, <1>16, <1>17, <1>18, Zenon
  DEF CatalogNext, BeginCatalog, CatalogStep

\* Courses, categories and tags keep their columns' types, the foreign keys and the
\* unique slug (postgres/course.go:58 reports the insert that breaks it), for any
\* number of courses, slugs, tags and requests.
LEMMA CatalogInvTypes == CatalogInv => CatalogTypeOK
BY DEF CatalogInv, CourseRows, TagRows, CatalogHeld, CatalogTypeOK

\* What CourseForward says of one step.
CourseStep ==
    \A c \in Courses : courses[c] # Nothing =>
        /\ courses[c].deleted => courses'[c] = courses[c]
        /\ courses'[c].status = "draft" => courses[c].status = "draft"
        /\ courses'[c].status = "published" => courses'[c].dated
        /\ Alone /\ courses[c].dated => courses'[c].dated
        /\ \A viewer \in Viewers, status \in CourseStatus \cup {Nothing} :
            c \in Recommended({}) \cup ListedTo(viewer, status) => Opens(viewer, c)

\* Of a course that is not written there is only what lists show.
LEMMA CoursesStand ==
    ASSUME CatalogInv, NEW c \in Courses, courses[c] # Nothing,
           \/ courses'[c] = courses[c]
           \/ /\ Stands(c)
              /\ courses'[c].status = "draft" => courses[c].status = "draft"
              /\ courses'[c].status = "published" => courses'[c].dated
              /\ Alone /\ courses[c].dated => courses'[c].dated
    PROVE  /\ courses[c].deleted => courses'[c] = courses[c]
           /\ courses'[c].status = "draft" => courses[c].status = "draft"
           /\ courses'[c].status = "published" => courses'[c].dated
           /\ Alone /\ courses[c].dated => courses'[c].dated
           /\ \A viewer \in Viewers, status \in CourseStatus \cup {Nothing} :
               c \in Recommended({}) \cup ListedTo(viewer, status) => Opens(viewer, c)
<1>1. \A viewer \in Viewers, status \in CourseStatus \cup {Nothing} :
          c \in Recommended({}) \cup ListedTo(viewer, status) => Opens(viewer, c)
  BY DEF Recommended, Found, ListedTo, Opens
<1>2. courses[c].status = "published" => courses[c].dated
  BY DEF CatalogInv, CourseRows
<1> QED
  BY <1>1, <1>2 DEF Stands

LEMMA CourseSteps ==
    ASSUME CatalogInv, CatalogNext
    PROVE  CourseStep
<1>1. CourseRows /\ courses \in [Courses -> Course \cup {Nothing}]
  BY DEF CatalogInv, CourseRows
<1>2. UNCHANGED courses => CourseStep
  BY CoursesStand DEF CourseStep
<1>3. ASSUME NEW w \in setting.workers, WriteCourse(w) PROVE CourseStep
  <2>1. loc[w] \in [course : Courses, title : Titles, category : categories \cup {Nothing}]
    BY <1>3 DEF WriteCourse, At, CatalogInv, CatalogHeld
  <2>2. PICK c \in Courses, title \in Titles, category \in categories \cup {Nothing} :
            loc[w] = [course |-> c, title |-> title, category |-> category]
    BY <2>1
  <2>3. \/ courses' = courses
        \/ /\ Stands(c)
           /\ courses' = [courses EXCEPT ![c].title = title, ![c].category = category]
    BY <1>3, <2>2 DEF WriteCourse
  <2>4. ASSUME NEW d \in Courses, courses[d] # Nothing
        PROVE  \/ courses'[d] = courses[d]
               \/ /\ Stands(d) /\ courses'[d].status = courses[d].status
                  /\ courses'[d].dated = courses[d].dated
    BY <1>1, <2>3, <2>4 DEF Course
  <2>5. \A d \in Courses : courses[d] # Nothing =>
            (courses[d].status = "published" => courses[d].dated)
    BY <1>1 DEF CourseRows
  <2> QED
    BY <2>4, <2>5, CoursesStand DEF CourseStep
<1>4. ASSUME NEW w \in setting.workers, SetCourseStatus(w) PROVE CourseStep
  <2>1. /\ loc[w] \in [course : Courses, status : {"published", "archived"}, dated : BOOLEAN]
        /\ loc[w].status = "published" => loc[w].dated
        /\ Alone /\ Stands(loc[w].course) /\ courses[loc[w].course].dated => loc[w].dated
    BY <1>4 DEF SetCourseStatus, At, CatalogInv, CatalogHeld, DateKept
  <2>2. PICK c \in Courses, status \in {"published", "archived"}, dated \in BOOLEAN :
            loc[w] = [course |-> c, status |-> status, dated |-> dated]
    BY <2>1
  <2>3. \/ courses' = courses
        \/ /\ Stands(c)
           /\ courses' = [courses EXCEPT ![c].status = status, ![c].dated = dated]
    BY <1>4, <2>2 DEF SetCourseStatus
  <2>4. ASSUME NEW d \in Courses, courses[d] # Nothing
        PROVE  \/ courses'[d] = courses[d]
               \/ /\ d = c /\ Stands(d) /\ courses'[d].status = status
                  /\ courses'[d].dated = dated
    BY <1>1, <2>3, <2>4 DEF Course
  <2>5. /\ status = "published" => dated
        /\ Alone /\ Stands(c) /\ courses[c].dated => dated
    BY <2>1, <2>2
  <2> QED
    BY <2>4, <2>5, CoursesStand DEF CourseStep
<1>5. ASSUME NEW w \in setting.workers, NEW c \in Courses, DeleteCourse(w, c) PROVE CourseStep
  <2>1. ASSUME NEW d \in Courses, courses[d] # Nothing
        PROVE  \/ courses'[d] = courses[d]
               \/ /\ Stands(d) /\ courses'[d].status = "archived"
                  /\ courses'[d].dated = courses[d].dated
    BY <1>1, <1>5, <2>1 DEF DeleteCourse, Course
  <2> QED
    BY <2>1, CoursesStand DEF CourseStep
<1>6. ASSUME NEW w \in setting.workers, NEW c \in Courses, NEW slug, NEW title, NEW category,
             NEW names, CreateCourse(w, c, slug, title, category, names)
      PROVE  CourseStep
  <2>1. ASSUME NEW d \in Courses, courses[d] # Nothing PROVE courses'[d] = courses[d]
    BY <1>1, <1>6, <2>1 DEF CreateCourse
  <2> QED
    BY <2>1, CoursesStand DEF CourseStep
<1> QED
  BY <1>2, <1>3, <1>4, <1>5, <1>6
  DEF CatalogNext, BeginCatalog, CatalogStep, CreateCategory, BeginUpdateCourse,
      BeginPublishCourse, BeginArchiveCourse, BeginSetTags, NameTags, ClearTags, InsertTags,
      AbortCatalog, catalogTables

\* However publishing, archiving, editing and deleting race (course.go:233, :259,
\* postgres/course.go:102): for any number of courses and requests, whatever fails, a
\* deleted course stays as it is, none becomes a draft again, a published one is
\* dated, and what is listed, found or recommended can be opened.
THEOREM CourseTheorem == CatalogSpec => CourseForward
<1>1. CatalogInv /\ [CatalogNext]_catalogVars => [CourseStep]_catalogVars
  BY CourseSteps
<1> QED
  BY <1>1, CatalogInitInv, CatalogNextInv, PTL DEF CatalogSpec, CourseForward, CourseStep

-------------------------------------------------------------------------------
(* Views: what a course shows while it is written                          *)

Written == Units \X (Contents \cup {Nothing})

TreeHeld == [reader : Readers, blocks : BOOLEAN, todo : SUBSET Units,
             shown : SUBSET Written, unit : Units \cup {Nothing}]

Memory == [published : SUBSET Units, written : SUBSET Written, active : BOOLEAN]

\* What a request that shows a tree has collected was there to be shown at some
\* moment s remembers; so was the lesson whose block it reads next.
TreeSound(label, l, s) ==
    /\ l \in TreeHeld
    /\ IF label = "tree.blocks" THEN l.unit \in Units ELSE l.unit = Nothing
    /\ ~CanAuthor(l.reader) =>
        /\ \A lesson \in l.shown :
            /\ lesson[1] \in s.published
            /\ lesson[2] # Nothing => lesson \in s.written /\ s.active
        /\ l.blocks => s.active
        /\ label = "tree.blocks" => l.blocks /\ l.unit \in s.published

ViewHeld(label, l, s) ==
    \/ label = "idle" /\ l = Nothing
    \/ label \in {"tree.lessons", "tree.blocks"} /\ TreeSound(label, l, s)
    \/ /\ label = "quiz.questions" /\ l \in [reader : Readers]
       /\ ~CanAuthor(l.reader) => s.active
    \/ /\ label = "quiz.shown" /\ l \in [reader : Readers, key : Contents \cup {Nothing}]
       /\ ~CanAuthor(l.reader) => l.key = Nothing /\ s.active

\* The part of the tree that is not in rest.
TreeBut(reader, rest) ==
    {<<m, IF CanAccessContent(reader) THEN units[m].block ELSE Nothing>> :
        m \in {n \in Units : units[n] # Absent /\ n \notin rest /\ Visible(reader, n)}}

\* A request that runs alone has collected the tree but for what it has yet to read.
TreeSoFar(label, l) ==
    label \in {"tree.lessons", "tree.blocks"} =>
        /\ courseStatus # "deleted" /\ (courseStatus = "published" \/ CanAuthor(l.reader))
        /\ l.blocks <=> CanAccessContent(l.reader)
        /\ label = "tree.lessons" => l.shown = TreeBut(l.reader, l.todo)
        /\ label = "tree.blocks" =>
              /\ l.shown = TreeBut(l.reader, l.todo \cup {l.unit})
              /\ l.blocks /\ l.unit \notin l.todo /\ Visible(l.reader, l.unit)

ViewingRows ==
    /\ courseStatus \in {"draft", "published", "archived", "deleted"}
    /\ units \in [Units -> UnitRow]
    /\ \A m \in Units : ~HasLesson(m) => units[m].block = Nothing
    /\ enrolled \in BOOLEAN
    /\ quiz \in [status : {"draft", "published"}, key : Contents \cup {Nothing}]

\* What makes ContentShown inductive.
ViewingInv ==
    /\ Shaped /\ ViewingRows
    /\ \A w \in setting.workers : since[w] \in Memory /\ ViewHeld(pc[w], loc[w], since[w])
    /\ Alone => \A w \in setting.workers : TreeSoFar(pc[w], loc[w])

LEMMA ViewingInitInv == ViewingInit => ViewingInv
<1> SUFFICES ASSUME ViewingInit PROVE ViewingInv
  OBVIOUS
<1>1. /\ Shaped /\ \A w \in setting.workers : pc[w] = "idle" /\ loc[w] = Nothing
      /\ \A w \in setting.workers : since[w] = Nobody
  BY ShapedInit DEF ViewingInit, RequestsInit
<1>2. ViewingRows
  BY DEF ViewingInit, ViewingRows, UnitRow, Absent
<1>3. Nobody \in Memory
  BY DEF Nobody, Memory
<1> QED
  BY <1>1, <1>2, <1>3 DEF ViewingInv, ViewHeld, TreeSoFar

\* What was so stays remembered.
LEMMA HeldGrows ==
    ASSUME NEW label, NEW l, NEW s, NEW t, ViewHeld(label, l, s)
    PROVE  ViewHeld(label, l, Joined(s, t))
<1>1. /\ s.published \subseteq Joined(s, t).published
      /\ s.written \subseteq Joined(s, t).written
      /\ s.active => Joined(s, t).active
  BY DEF Joined
<1> HIDE DEF Joined
<1> QED
  BY <1>1 DEF ViewHeld, TreeSound

LEMMA MemoryTyped ==
    ASSUME ViewingRows', NEW s \in Memory
    PROVE  Joined(s, SoNow') \in Memory
<1>1. \A m \in Units : units'[m].block \in Contents \cup {Nothing}
  BY DEF ViewingRows, UnitRow
<1>2. SoNow'.written \in SUBSET Written
  BY <1>1 DEF SoNow, Written
<1>3. SoNow'.published \in SUBSET Units /\ SoNow'.active \in BOOLEAN
  BY DEF SoNow, ViewingRows
<1> QED
  BY <1>2, <1>3 DEF Joined, Memory

\* One worker goes on.
LEMMA ViewingMoved ==
    ASSUME ViewingInv, NEW w \in setting.workers, NEW label, NEW l, Moved(w, label, l), Shaped',
           Remember, ViewingRows', ViewHeld(label, l, Joined(since[w], SoNow')),
           Alone => TreeSoFar(label, l)'
    PROVE  ViewingInv'
<1>1. setting' = setting /\ Alone' = Alone
  BY DEF Moved, Alone
<1>2. ASSUME NEW v \in setting.workers
      PROVE  since'[v] \in Memory /\ ViewHeld(pc'[v], loc'[v], since'[v])
  <2>1. since'[v] = IF pc'[v] = "idle" THEN Nobody ELSE Joined(since[v], SoNow')
    BY DEF Remember
  <2>2. Nobody \in Memory /\ Joined(since[v], SoNow') \in Memory
    <3>1. since[v] \in Memory
      BY DEF ViewingInv
    <3>2. Nobody \in Memory
      BY DEF Nobody, Memory
    <3> QED
      BY <3>1, <3>2, MemoryTyped
  <2>3. ViewHeld(pc'[v], loc'[v], Joined(since[v], SoNow'))
    <3>1. CASE v = w
      BY <3>1 DEF Moved
    <3>2. CASE v # w
      BY <3>2, HeldGrows DEF Moved, ViewingInv
    <3> QED
      BY <3>1, <3>2
  <2>4. CASE pc'[v] = "idle"
    BY <2>1, <2>2, <2>3, <2>4 DEF ViewHeld
  <2>5. CASE pc'[v] # "idle"
    BY <2>1, <2>2, <2>3, <2>5
  <2> QED
    BY <2>4, <2>5
<1>3. ASSUME Alone, NEW v \in setting.workers PROVE TreeSoFar(pc[v], loc[v])'
  <2>1. v = w
    BY <1>3, AloneOne DEF ViewingInv
  <2> QED
    BY <1>3, <2>1 DEF Moved, TreeSoFar
<1> QED
  BY <1>1, <1>2, <1>3 DEF ViewingInv, ViewHeld, TreeSound

\* A statement that only reads: what was so before it is so after it.
LEMMA ViewingReads ==
    ASSUME ViewingInv, NEW w \in setting.workers, NEW label, NEW l, Moved(w, label, l), Shaped',
           Remember, UNCHANGED viewingTables, ViewHeld(label, l, Joined(since[w], SoNow)),
           Alone => TreeSoFar(label, l)
    PROVE  ViewingInv'
<1>1. /\ courseStatus' = courseStatus /\ units' = units /\ enrolled' = enrolled /\ quiz' = quiz
  BY DEF viewingTables
<1>2. ViewingRows' /\ SoNow' = SoNow
  BY <1>1 DEF ViewingInv, ViewingRows, HasLesson, SoNow
<1>3. TreeSoFar(label, l) => TreeSoFar(label, l)'
  BY <1>1 DEF TreeSoFar, TreeBut, CanAccessContent, HasActiveEnrollment, Visible, CanAuthor
<1> QED
  BY <1>2, <1>3, ViewingMoved
\* What a request that shows something is not told about.
LEMMA ShownChanges ==
    ASSUME ViewingInv, NEW w \in setting.workers, ChangeShown(w), Remember
    PROVE  ViewingInv'
<1>1. AtOnce(w) /\ ViewingRows'
  <2>1. ViewingRows /\ units \in [Units -> UnitRow] /\ Absent \in UnitRow
    BY DEF ViewingInv, ViewingRows, UnitRow, Absent
  <2>2. ASSUME NEW m \in Units, NEW row \in UnitRow, ChangeUnit(w, m, row),
               row.lesson \notin {"draft", "published"} => row.block = Nothing
        PROVE  AtOnce(w) /\ ViewingRows'
    <3>1. units'[m] = row /\ \A n \in Units \ {m} : units'[n] = units[n]
      BY <2>1, <2>2 DEF ChangeUnit
    <3>2. \A n \in Units : ~HasLesson(n)' => units'[n].block = Nothing
      BY <2>1, <2>2, <3>1 DEF HasLesson, ViewingRows
    <3> QED
      BY <2>1, <2>2, <3>2 DEF ChangeUnit, ViewingRows
  <2>3. ASSUME NEW m \in Units, CreateModule(w, m) \/ DeleteModule(w, m) \/ DropLesson(w, m)
        PROVE  AtOnce(w) /\ ViewingRows'
    <3>1. PICK row \in UnitRow : ChangeUnit(w, m, row) /\ row.block = Nothing
      BY <2>1, <2>3 DEF CreateModule, DeleteModule, DropLesson, UnitRow, Absent
    <3> QED
      BY <2>2, <3>1
  <2>4. ASSUME NEW m \in Units, NEW status \in {"draft", "published"},
               CreateDraft(w, m) \/ ShowLesson(w, m, status)
        PROVE  AtOnce(w) /\ ViewingRows'
    <3>1. PICK row \in UnitRow : ChangeUnit(w, m, row) /\ row.lesson \in {"draft", "published"}
      BY <2>1, <2>4 DEF CreateDraft, ShowLesson, UnitRow
    <3> QED
      BY <2>2, <3>1
  <2>5. ASSUME NEW m \in Units, NEW content \in Contents \cup {Nothing},
               \/ WriteBlock(w, m, content)
               \/ DropBlock(w, m)
        PROVE  AtOnce(w) /\ ViewingRows'
    <3>1. HasLesson(m)
      BY <2>1, <2>5 DEF WriteBlock, DropBlock, ViewingRows
    <3>2. PICK row \in UnitRow : ChangeUnit(w, m, row) /\ row.lesson = units[m].lesson
      BY <2>1, <2>5 DEF WriteBlock, DropBlock, UnitRow
    <3> QED
      BY <2>2, <3>1, <3>2 DEF HasLesson
  <2>6. ASSUME NEW status \in {"published", "archived", "deleted"}, ChangeCourse(w, status)
        PROVE  AtOnce(w) /\ ViewingRows'
    BY <2>1, <2>6 DEF ChangeCourse, ViewingRows, HasLesson
  <2>7. ASSUME ChangeEnrolled(w) PROVE AtOnce(w) /\ ViewingRows'
    BY <2>1, <2>7 DEF ChangeEnrolled, ViewingRows, HasLesson
  <2>8. ASSUME NEW status \in {"draft", "published"}, NEW key \in Contents \cup {Nothing},
               ChangeQuiz(w, status, key)
        PROVE  AtOnce(w) /\ ViewingRows'
    BY <2>1, <2>8 DEF ChangeQuiz, ViewingRows, HasLesson
  <2> QED
    BY <2>3, <2>4, <2>5, <2>6, <2>7, <2>8 DEF ChangeShown
<1>2. Shaped' /\ Moved(w, "idle", loc[w]) /\ pc[w] = "idle"
  BY <1>1, AtOnceMoves DEF ViewingInv
<1>3. loc[w] = Nothing
  BY <1>2 DEF ViewingInv, ViewHeld
<1>4. ViewHeld("idle", Nothing, Joined(since[w], SoNow')) /\ TreeSoFar("idle", Nothing)'
  BY DEF ViewHeld, TreeSoFar
<1> QED
  BY <1>1, <1>2, <1>3, <1>4, ViewingMoved

\* One unit more of the tree.
LEMMA TreeGrows ==
    ASSUME NEW reader, NEW rest, NEW m \in Units, m \notin rest
    PROVE  /\ Visible(reader, m) =>
                 TreeBut(reader, rest) = TreeBut(reader, rest \cup {m})
                    \cup {<<m, IF CanAccessContent(reader) THEN units[m].block ELSE Nothing>>}
           /\ ~Visible(reader, m) => TreeBut(reader, rest) = TreeBut(reader, rest \cup {m})
<1> DEFINE row(n) == <<n, IF CanAccessContent(reader) THEN units[n].block ELSE Nothing>>
           Part(r) == {n \in Units : units[n] # Absent /\ n \notin r /\ Visible(reader, n)}
<1>1. Visible(reader, m) => units[m] # Absent
  BY DEF Visible, Absent
<1>2. \A r : TreeBut(reader, r) = {row(n) : n \in Part(r)}
  BY DEF TreeBut
<1> HIDE DEF row
<1>3. Visible(reader, m) => Part(rest) = Part(rest \cup {m}) \cup {m}
  BY <1>1
<1>4. ~Visible(reader, m) => Part(rest) = Part(rest \cup {m})
  OBVIOUS
<1> HIDE DEF Part
<1>5. Visible(reader, m) => TreeBut(reader, rest) = TreeBut(reader, rest \cup {m}) \cup {row(m)}
  <2>1. SUFFICES ASSUME Visible(reader, m)
                 PROVE  {row(n) : n \in Part(rest)}
                           = {row(n) : n \in Part(rest \cup {m})} \cup {row(m)}
    BY <1>2
  <2>2. PICK p : p = Part(rest)
    OBVIOUS
  <2>3. PICK q : q = Part(rest \cup {m})
    OBVIOUS
  <2>4. p = q \cup {m}
    BY <1>3, <2>1, <2>2, <2>3
  <2>5. {row(n) : n \in p} = {row(n) : n \in q} \cup {row(m)}
    BY <2>4
  <2> QED
    BY <2>2, <2>3, <2>5
<1>6. ~Visible(reader, m) => TreeBut(reader, rest) = TreeBut(reader, rest \cup {m})
  BY <1>2, <1>4
<1> QED
  BY <1>5, <1>6 DEF row

\* The requests that show a tree.
LEMMA TreeSteps ==
    ASSUME ViewingInv, NEW w \in setting.workers, Remember,
           \/ \E reader \in Readers : BeginTree(w, reader)
           \/ ListByModule(w) \/ ListByLesson(w)
    PROVE  ViewingInv'
<1>1. /\ Shaped /\ ViewingRows /\ ViewHeld(pc[w], loc[w], since[w])
      /\ Alone => TreeSoFar(pc[w], loc[w])
  BY DEF ViewingInv
<1>2. PICK s : s = Joined(since[w], SoNow)
  OBVIOUS
<1>3. /\ \A m \in Units : units[m].lesson = "published" => m \in s.published
      /\ \A m \in Units : HasLesson(m) => <<m, units[m].block>> \in s.written
      /\ enrolled => s.active
  BY <1>2 DEF Joined, SoNow
<1>4. \A m \in Units : units[m].block \in Contents \cup {Nothing}
  BY <1>1 DEF ViewingRows, UnitRow
<1>5. ViewHeld(pc[w], loc[w], s)
  BY <1>1, <1>2, HeldGrows
<1>6. ASSUME NEW reader \in Readers, BeginTree(w, reader) PROVE ViewingInv'
  <2>1. PICK h : h = [reader |-> reader, blocks |-> CanAuthor(reader) \/ HasActiveEnrollment(reader),
                      todo |-> {m \in Units : units[m] # Absent}, shown |-> {},
                      unit |-> Nothing]
    OBVIOUS
  <2>2. /\ h \in TreeHeld /\ h.reader = reader /\ h.unit = Nothing /\ h.shown = {}
        /\ h.todo = {m \in Units : units[m] # Absent}
        /\ h.blocks <=> (CanAuthor(reader) \/ HasActiveEnrollment(reader))
    BY <2>1 DEF TreeHeld
  <2>3. ViewHeld("tree.lessons", h, s)
    BY <1>3, <2>2 DEF ViewHeld, TreeSound, HasActiveEnrollment
  <2>4. /\ Hold(w, "tree.lessons", h) /\ UNCHANGED viewingTables
        /\ courseStatus # "deleted" /\ (courseStatus = "published" \/ CanAuthor(reader))
    BY <1>6, <2>1 DEF BeginTree
  <2>5. TreeBut(reader, h.todo) = {}
    BY <2>2 DEF TreeBut
  <2>6. TreeSoFar("tree.lessons", h)
    BY <2>2, <2>4, <2>5 DEF TreeSoFar, CanAccessContent
  <2> QED
    BY <1>1, <1>2, <2>3, <2>4, <2>6, HoldMoves, ViewingReads
<1>7. ASSUME ListByModule(w) PROVE ViewingInv'
  <2>1. PICK m \in loc[w].todo :
          LET l == [loc[w] EXCEPT !.todo = @ \ {m}]
          IN  CASE ~Visible(l.reader, m) -> Hold(w, "tree.lessons", l)
                [] Visible(l.reader, m) /\ l.blocks ->
                      Hold(w, "tree.blocks", [l EXCEPT !.unit = m])
                [] Visible(l.reader, m) /\ ~l.blocks ->
                      Hold(w, "tree.lessons", [l EXCEPT !.shown = @ \cup {<<m, Nothing>>}])
    BY <1>7 DEF ListByModule
  <2>2. PICK g : g = loc[w]
    OBVIOUS
  <2>3. PICK l : l = [g EXCEPT !.todo = @ \ {m}]
    OBVIOUS
  <2>4. pc[w] = "tree.lessons" /\ TreeSound("tree.lessons", g, s) /\ UNCHANGED viewingTables
    BY <1>5, <1>7, <2>2 DEF ListByModule, At, ViewHeld
  <2>5. g \in TreeHeld /\ m \in Units /\ g.unit = Nothing
    BY <2>2, <2>4 DEF TreeSound, TreeHeld
  <2>6. /\ l \in TreeHeld /\ l.reader = g.reader /\ l.blocks = g.blocks /\ l.unit = Nothing
        /\ l.shown = g.shown /\ l.todo = g.todo \ {m} /\ l.todo \cup {m} = g.todo
        /\ l.reader \in Readers /\ l.blocks \in BOOLEAN
    BY <2>1, <2>2, <2>3, <2>5 DEF TreeHeld
  <2>7. Alone => /\ courseStatus # "deleted"
                 /\ courseStatus = "published" \/ CanAuthor(l.reader)
                 /\ l.blocks <=> CanAccessContent(l.reader)
                 /\ l.shown = TreeBut(l.reader, l.todo \cup {m})
    BY <1>1, <2>2, <2>4, <2>6 DEF TreeSoFar
  <2>8. TreeSound("tree.lessons", l, s)
    BY <2>4, <2>6 DEF TreeSound
  <2>9. CASE ~Visible(l.reader, m)
    <3>1. Hold(w, "tree.lessons", l)
      BY <2>1, <2>2, <2>3, <2>9
    <3>2. Alone => TreeSoFar("tree.lessons", l)
      BY <2>5, <2>6, <2>7, <2>9, TreeGrows DEF TreeSoFar
    <3> QED
      BY <1>1, <1>2, <2>4, <2>8, <3>1, <3>2, HoldMoves, ViewingReads DEF ViewHeld
  <2>10. CASE Visible(l.reader, m) /\ l.blocks
    <3>1. PICK h : h = [l EXCEPT !.unit = m]
      OBVIOUS
    <3>2. Hold(w, "tree.blocks", h)
      BY <2>1, <2>2, <2>3, <2>10, <3>1
    <3>3. /\ h \in TreeHeld /\ h.reader = l.reader /\ h.blocks = l.blocks /\ h.unit = m
          /\ h.shown = l.shown /\ h.todo = l.todo
      BY <2>5, <2>6, <3>1 DEF TreeHeld
    <3>4. ~CanAuthor(l.reader) => m \in s.published
      BY <1>3, <2>5, <2>10 DEF Visible
    <3>5. ViewHeld("tree.blocks", h, s)
      BY <2>5, <2>8, <2>10, <3>3, <3>4 DEF ViewHeld, TreeSound
    <3>6. Alone => TreeSoFar("tree.blocks", h)
      BY <2>6, <2>7, <2>10, <3>3 DEF TreeSoFar
    <3> QED
      BY <1>1, <1>2, <2>4, <3>2, <3>5, <3>6, HoldMoves, ViewingReads
  <2>11. CASE Visible(l.reader, m) /\ ~l.blocks
    <3>1. PICK h : h = [l EXCEPT !.shown = @ \cup {<<m, Nothing>>}]
      OBVIOUS
    <3>2. Hold(w, "tree.lessons", h)
      BY <2>1, <2>2, <2>3, <2>11, <3>1
    <3>3. /\ h \in TreeHeld /\ h.reader = l.reader /\ h.blocks = l.blocks /\ h.unit = Nothing
          /\ h.shown = l.shown \cup {<<m, Nothing>>} /\ h.todo = l.todo
      BY <2>5, <2>6, <3>1 DEF TreeHeld, Written
    <3>4. ~CanAuthor(l.reader) => m \in s.published
      BY <1>3, <2>5, <2>11 DEF Visible
    <3>5. ViewHeld("tree.lessons", h, s)
      BY <2>5, <2>8, <2>11, <3>3, <3>4 DEF ViewHeld, TreeSound
    <3>6. Alone => TreeSoFar("tree.lessons", h)
      BY <2>5, <2>6, <2>7, <2>11, <3>3, TreeGrows DEF TreeSoFar
    <3> QED
      BY <1>1, <1>2, <2>4, <3>2, <3>5, <3>6, HoldMoves, ViewingReads
  <2> QED
    BY <2>6, <2>9, <2>10, <2>11
<1>8. ASSUME ListByLesson(w) PROVE ViewingInv'
  <2>1. PICK g : g = loc[w]
    OBVIOUS
  <2>2. pc[w] = "tree.blocks" /\ TreeSound("tree.blocks", g, s) /\ UNCHANGED viewingTables
    BY <1>5, <1>8, <2>1 DEF ListByLesson, At, ViewHeld
  <2>3. PICK m \in Units : m = g.unit
    BY <2>2 DEF TreeSound
  <2>4. PICK h : h = [g EXCEPT !.shown = @ \cup {<<m, units[m].block>>}, !.unit = Nothing]
    OBVIOUS
  <2>5. Hold(w, "tree.lessons", h)
    BY <1>8, <2>1, <2>3, <2>4 DEF ListByLesson
  <2>6. /\ h \in TreeHeld /\ h.reader = g.reader /\ h.blocks = g.blocks /\ h.unit = Nothing
        /\ h.shown = g.shown \cup {<<m, units[m].block>>} /\ h.todo = g.todo
    <3>1. g \in TreeHeld /\ <<m, units[m].block>> \in Written
      BY <1>4, <2>2 DEF TreeSound, Written
    <3>2. PICK row \in Written : row = <<m, units[m].block>>
      BY <3>1
    <3>3. h = [g EXCEPT !.shown = @ \cup {row}, !.unit = Nothing]
      BY <2>4, <3>2
    <3> QED
      BY <3>1, <3>2, <3>3 DEF TreeHeld
  <2>7. units[m].block # Nothing => <<m, units[m].block>> \in s.written
    BY <1>1, <1>3, <2>3 DEF ViewingRows
  <2>8. ViewHeld("tree.lessons", h, s)
    BY <2>2, <2>3, <2>6, <2>7 DEF ViewHeld, TreeSound
  <2>9. Alone => TreeSoFar("tree.lessons", h)
    <3>1. Alone => /\ courseStatus # "deleted"
                   /\ courseStatus = "published" \/ CanAuthor(g.reader)
                   /\ g.blocks <=> CanAccessContent(g.reader)
                   /\ g.shown = TreeBut(g.reader, g.todo \cup {m})
                   /\ g.blocks /\ m \notin g.todo /\ Visible(g.reader, m)
      BY <1>1, <2>1, <2>2, <2>3 DEF TreeSoFar
    <3> QED
      BY <2>6, <3>1, TreeGrows DEF TreeSoFar
  <2> QED
    BY <1>1, <1>2, <2>2, <2>5, <2>8, <2>9, HoldMoves, ViewingReads
<1> QED
  BY <1>6, <1>7, <1>8

LEMMA ViewingNextInv ==
    ASSUME ViewingInv, [ViewingNext]_viewingVars
    PROVE  ViewingInv'
<1>1. Shaped
  BY DEF ViewingInv
<1>2. ASSUME NEW w \in setting.workers, NEW reader \in Readers, Remember, BeginQuiz(w, reader)
      PROVE  ViewingInv'
  <2>1. PICK h : h = [reader |-> reader]
    OBVIOUS
  <2>2. ~CanAuthor(reader) => Joined(since[w], SoNow).active
    BY <1>2 DEF BeginQuiz, OpensQuiz, HasActiveEnrollment, Joined, SoNow
  <2>3. ViewHeld("quiz.questions", h, Joined(since[w], SoNow))
    BY <2>1, <2>2 DEF ViewHeld
  <2> QED
    BY <1>1, <1>2, <2>1, <2>3, HoldMoves, ViewingReads DEF BeginQuiz, TreeSoFar
<1>3. ASSUME NEW w \in setting.workers, Remember, ReadKey(w) PROVE ViewingInv'
  <2>1. PICK h : h = [reader |-> loc[w].reader, key |-> Stripped(loc[w].reader, quiz.key)]
    OBVIOUS
  <2>2. /\ loc[w] \in [reader : Readers] /\ quiz.key \in Contents \cup {Nothing}
        /\ ~CanAuthor(loc[w].reader) => Joined(since[w], SoNow).active
    BY <1>3 DEF ReadKey, At, ViewingInv, ViewHeld, ViewingRows, Joined
  <2>3. ViewHeld("quiz.shown", h, Joined(since[w], SoNow))
    BY <2>1, <2>2 DEF ViewHeld, Stripped
  <2> QED
    BY <1>1, <1>3, <2>1, <2>3, HoldMoves, ViewingReads DEF ReadKey, TreeSoFar
<1>4. ASSUME NEW w \in setting.workers, Remember, Show(w) \/ AbortViewing(w) PROVE ViewingInv'
  BY <1>1, <1>4, FinishMoves, ViewingReads
  DEF Show, AbortViewing, Abort, ViewHeld, TreeSoFar
<1>5. CASE UNCHANGED viewingVars
  <2>1. /\ Shaped' /\ setting' = setting /\ pc' = pc /\ loc' = loc /\ Alone' = Alone
        /\ courseStatus' = courseStatus /\ units' = units /\ enrolled' = enrolled
        /\ quiz' = quiz /\ since' = since
    BY <1>1, <1>5, StayShaped DEF viewingVars, viewingTables, Alone
  <2>2. ViewingRows'
    BY <2>1 DEF ViewingInv, ViewingRows, HasLesson
  <2>3. \A w \in setting.workers :
            /\ ViewHeld(pc[w], loc[w], since[w]) => ViewHeld(pc[w], loc[w], since[w])'
            /\ TreeSoFar(pc[w], loc[w]) => TreeSoFar(pc[w], loc[w])'
    BY <2>1 DEF ViewHeld, TreeSound, TreeSoFar, TreeBut, CanAccessContent, HasActiveEnrollment,
                Visible, CanAuthor
  <2> QED
    BY <2>1, <2>2, <2>3 DEF ViewingInv
<1> QED
  BY <1>2, <1>3, <1>4, <1>5, ShownChanges, TreeSteps
  DEF ViewingNext, BeginView, ViewStep

\* Rows and what requests have collected have their types, for any modules, contents
\* and number of requests.
LEMMA ViewingInvTypes == ViewingInv => ViewingTypeOK
<1> SUFFICES ASSUME ViewingInv PROVE ViewingTypeOK
  OBVIOUS
<1>1. \A w \in setting.workers : ViewHeld(pc[w], loc[w], since[w])
  BY DEF ViewingInv
<1> QED
  BY <1>1 DEF ViewingInv, ViewingRows, ViewHeld, TreeSound, TreeHeld, Written, ViewingTypeOK

\* What is shown is what ContentShown says.
LEMMA ViewingInvSound == ViewingInv => ContentShown
<1> SUFFICES ASSUME ViewingInv PROVE ContentShown
  OBVIOUS
<1>1. \A reader \in Readers : OpensQuiz(reader) <=> ListsQuiz(reader)
  BY DEF OpensQuiz, ListsQuiz, CanAccessContent
<1>2. ASSUME NEW w \in setting.workers
      PROVE  /\ pc[w] \in {"tree.lessons", "tree.blocks"} /\ ~CanAuthor(loc[w].reader) =>
                   \A lesson \in loc[w].shown :
                       /\ lesson[1] \in since[w].published
                       /\ lesson[2] # Nothing => lesson \in since[w].written /\ since[w].active
             /\ pc[w] = "quiz.shown" /\ ~CanAuthor(loc[w].reader) =>
                   loc[w].key = Nothing /\ since[w].active
  BY DEF ViewingInv, ViewHeld, TreeSound
<1>3. ASSUME Alone, NEW w \in setting.workers, pc[w] = "tree.lessons", loc[w].todo = {}
      PROVE  /\ loc[w].shown = TreeOf(loc[w].reader)
             /\ courseStatus = "published" \/ CanAuthor(loc[w].reader)
  <2>1. TreeSoFar("tree.lessons", loc[w]) /\ ViewingRows
    BY <1>3 DEF ViewingInv
  <2>2. loc[w].shown = TreeBut(loc[w].reader, {})
    BY <1>3, <2>1 DEF TreeSoFar
  <2>3. \A n \in Units : (units[n] # Absent /\ Visible(loc[w].reader, n)) <=>
                             (IF CanAuthor(loc[w].reader) THEN HasLesson(n)
                              ELSE units[n].lesson = "published")
    BY DEF Absent, Visible, HasLesson
  <2>4. TreeBut(loc[w].reader, {}) = TreeOf(loc[w].reader)
    BY <2>3 DEF TreeBut, TreeOf
  <2> QED
    BY <2>1, <2>2, <2>4 DEF TreeSoFar
<1> QED
  BY <1>1, <1>2, <1>3 DEF ContentShown

\* The tree is read unit by unit while authors write (curriculum.go:61): for any
\* modules, contents and number of requests, whatever fails, whoever is not the author
\* is shown only what was theirs to see at some moment of the request, and alone what
\* the table of docs/api/curriculum.md:9 says.
THEOREM ViewingTheorem == ViewingSpec => []ContentShown
BY ViewingInitInv, ViewingNextInv, ViewingInvSound, PTL DEF ViewingSpec

-------------------------------------------------------------------------------
(* Assignments: terms that change while they are relied on                 *)

\* What CourseworkSound says of a submission.
RowSound(s) ==
    /\ s.handed # Nothing => s.handed <= leave.until
    /\ s.status # "draft" => s.handed # Nothing
    /\ s.status = "graded" <=> s.score # Nothing
    /\ s.status = "graded" => s.score <= leave.score

\* What a worker holds, and what was granted when it read it.
WorkHeld(label, l) ==
    \/ label = "idle" /\ l = Nothing
    \/ label = "assignment.update" /\ l \in Terms
    \/ /\ label = "submission.due" /\ l \in [terms : Terms, submit : BOOLEAN]
       /\ Until(l.terms) <= leave.until
    \/ /\ label = "submission.own" /\ l \in [at : 0..LastHour, submit : BOOLEAN]
       /\ l.submit => l.at <= leave.until
    \/ label = "submission.upsert" /\ l \in Submission /\ RowSound(l)
    \/ /\ label = "grade.terms" /\ l \in [row : Submission, score : Scores]
       /\ RowSound(l.row) /\ l.row.status # "draft"

\* What makes CourseworkSound inductive: what is about to be written is as sound as
\* what is, and nothing is handed in before there is an assignment.
CourseworkInv ==
    /\ Shaped
    /\ hour \in 0..LastHour
    /\ assignment \in Assignment \cup {Nothing}
    /\ submission \in Submission \cup {Nothing}
    /\ leave \in [until : -1..LastHour, score : {0} \cup MaxScores]
    /\ assignment # Nothing =>
          Until(assignment.terms) <= leave.until /\ assignment.terms.max <= leave.score
    /\ assignment = Nothing => submission = Nothing /\ \A w \in setting.workers : pc[w] = "idle"
    /\ submission # Nothing => RowSound(submission)
    /\ \A w \in setting.workers : WorkHeld(pc[w], loc[w])

LEMMA CourseworkInitInv == CourseworkInit => CourseworkInv
<1> SUFFICES ASSUME CourseworkInit PROVE CourseworkInv
  OBVIOUS
<1>1. Shaped /\ \A w \in setting.workers : pc[w] = "idle" /\ loc[w] = Nothing
  BY ShapedInit DEF CourseworkInit, RequestsInit
<1> QED
  BY <1>1, CourseworkAssumption DEF CourseworkInit, CourseworkInv, WorkHeld

LEMMA UntilTyped ==
    ASSUME NEW t \in Terms
    PROVE  Until(t) \in 0..LastHour /\ t.max \in MaxScores /\ t.max \in Nat
<1>1. /\ t.due \in Dues \cup {Nothing} /\ t.late \in BOOLEAN /\ t.max \in MaxScores
      /\ LastHour \in Nat
  BY CourseworkAssumption DEF Terms
<1>2. t.due = Nothing \/ t.due \in 0..LastHour
  BY <1>1, CourseworkAssumption
<1>3. t.max \in Nat
  BY <1>1, CourseworkAssumption
<1> QED
  BY <1>1, <1>2, <1>3 DEF Until

\* leave only widens, and covers the terms that are in force.
LEMMA LeaveWidens ==
    ASSUME CourseworkInv, assignment' \in Assignment \cup {Nothing},
           leave' = IF assignment' = Nothing THEN leave ELSE Widened(leave, assignment'.terms)
    PROVE  /\ leave' \in [until : -1..LastHour, score : {0} \cup MaxScores]
           /\ leave.until <= leave'.until /\ leave.score <= leave'.score
           /\ leave.until \in Int /\ leave'.until \in Int
           /\ leave.score \in Int /\ leave'.score \in Int
           /\ assignment' # Nothing =>
                 /\ Until(assignment'.terms) <= leave'.until
                 /\ assignment'.terms.max <= leave'.score
<1>1. leave \in [until : -1..LastHour, score : {0} \cup MaxScores]
  BY DEF CourseworkInv
<1>2. /\ leave.until \in -1..LastHour /\ leave.score \in {0} \cup MaxScores
      /\ leave.until \in Int /\ leave.score \in Int /\ LastHour \in Nat
  <2>1. LastHour \in Nat /\ MaxScores \subseteq Nat
    BY CourseworkAssumption
  <2>2. leave.until \in -1..LastHour /\ leave.score \in {0} \cup MaxScores
    BY <1>1
  <2>3. leave.until \in Int
    BY <2>1, <2>2
  <2>4. leave.score \in Int
    <3>1. leave.score = 0 \/ leave.score \in MaxScores
      BY <2>2
    <3>2. \A m \in MaxScores : m \in Int
      BY <2>1
    <3> QED
      BY <3>1, <3>2
  <2> QED
    BY <2>1, <2>2, <2>3, <2>4
<1>3. CASE assignment' = Nothing
  BY <1>1, <1>2, <1>3
<1>4. CASE assignment' # Nothing
  <2>1. PICK t \in Terms : assignment'.terms = t
    BY <1>4 DEF Assignment
  <2>2. Until(t) \in 0..LastHour /\ t.max \in MaxScores /\ t.max \in Nat
    BY UntilTyped
  <2>3. leave' = [until |-> IF Until(t) > leave.until THEN Until(t) ELSE leave.until,
                  score |-> IF t.max > leave.score THEN t.max ELSE leave.score]
    BY <1>4, <2>1 DEF Widened
  <2>4. /\ leave'.until = IF Until(t) > leave.until THEN Until(t) ELSE leave.until
        /\ leave'.score = IF t.max > leave.score THEN t.max ELSE leave.score
    BY <2>3
  <2>5. leave'.until \in -1..LastHour /\ leave'.score \in {0} \cup MaxScores
    BY <1>2, <2>2, <2>4
  <2>6. leave' \in [until : -1..LastHour, score : {0} \cup MaxScores]
    BY <2>3, <2>4, <2>5
  <2>7. leave'.until \in Int /\ leave'.score \in Int
    BY <1>2, <2>2, <2>4
  <2> QED
    BY <1>2, <2>1, <2>2, <2>4, <2>6, <2>7
<1> QED
  BY <1>3, <1>4

\* What was granted stays granted.
LEMMA SoundStays ==
    ASSUME NEW s \in Submission, RowSound(s),
           leave.until <= leave'.until, leave.score <= leave'.score,
           leave.until \in Int, leave'.until \in Int, leave.score \in Int, leave'.score \in Int
    PROVE  RowSound(s)'
<1>1. s.handed \in 0..LastHour \cup {Nothing} /\ s.score \in Scores \cup {Nothing}
  BY DEF Submission
<1>2. /\ s.handed \in Nat \/ s.handed = Nothing
      /\ s.score \in Nat \/ s.score = Nothing
  <2>1. 0..LastHour \subseteq Nat /\ Scores \subseteq Nat
    BY CourseworkAssumption
  <2> HIDE DEF Submission
  <2> QED
    BY <1>1, <2>1
<1> QED
  BY <1>2 DEF RowSound

LEMMA HeldStays ==
    ASSUME NEW label, NEW l, WorkHeld(label, l),
           leave.until <= leave'.until, leave.score <= leave'.score,
           leave.until \in Int, leave'.until \in Int, leave.score \in Int, leave'.score \in Int
    PROVE  WorkHeld(label, l)'
<1>1. CASE label = "submission.upsert" /\ l \in Submission /\ RowSound(l)
  BY <1>1, SoundStays DEF WorkHeld
<1>2. CASE /\ label = "grade.terms" /\ l \in [row : Submission, score : Scores]
           /\ RowSound(l.row) /\ l.row.status # "draft"
  <2>1. PICK s \in Submission : l.row = s
    BY <1>2
  <2> QED
    BY <1>2, <2>1, SoundStays DEF WorkHeld
<1>3. CASE /\ label = "submission.due" /\ l \in [terms : Terms, submit : BOOLEAN]
           /\ Until(l.terms) <= leave.until
  <2>1. Until(l.terms) \in Int
    BY <1>3, UntilTyped, CourseworkAssumption
  <2>2. Until(l.terms)' = Until(l.terms)
    BY DEF Until
  <2> QED
    BY <1>3, <2>1 DEF WorkHeld
<1>4. CASE /\ label = "submission.own" /\ l \in [at : 0..LastHour, submit : BOOLEAN]
           /\ l.submit => l.at <= leave.until
  <2>1. l.at \in Int
    BY <1>4, CourseworkAssumption
  <2> QED
    BY <1>4, <2>1 DEF WorkHeld
<1> QED
  BY <1>1, <1>2, <1>3, <1>4 DEF WorkHeld

\* One worker goes on, and writes rows that are sound.
LEMMA CourseworkMoved ==
    ASSUME CourseworkInv, NEW w \in setting.workers, NEW label, NEW l, Moved(w, label, l), Shaped',
           leave' = IF assignment' = Nothing THEN leave ELSE Widened(leave, assignment'.terms),
           hour' = hour, assignment' \in Assignment \cup {Nothing},
           submission' = submission \/ (submission' \in Submission /\ RowSound(submission')),
           assignment' = Nothing => submission' = submission /\ assignment = Nothing /\ label = "idle",
           WorkHeld(label, l)
    PROVE  CourseworkInv'
<1>1. /\ leave' \in [until : -1..LastHour, score : {0} \cup MaxScores]
      /\ leave.until <= leave'.until /\ leave.score <= leave'.score
      /\ leave.until \in Int /\ leave'.until \in Int
      /\ leave.score \in Int /\ leave'.score \in Int
      /\ assignment' # Nothing =>
            /\ Until(assignment'.terms) <= leave'.until
            /\ assignment'.terms.max <= leave'.score
  BY LeaveWidens
<1>2. setting' = setting
  BY DEF Moved
<1>3. ASSUME NEW v \in setting.workers PROVE WorkHeld(pc[v], loc[v])'
  <2>1. PICK k, h : pc'[v] = k /\ loc'[v] = h
    OBVIOUS
  <2>2. WorkHeld(k, h)
    BY <2>1 DEF Moved, CourseworkInv
  <2>3. WorkHeld(k, h)'
    BY <1>1, <2>2, HeldStays
  <2> QED
    BY <2>1, <2>3 DEF WorkHeld
<1>4. submission' \in Submission \cup {Nothing} /\ (submission' # Nothing => RowSound(submission'))
  BY DEF CourseworkInv
<1>5. submission' # Nothing => RowSound(submission)'
  <2> SUFFICES ASSUME submission' # Nothing PROVE RowSound(submission)'
    OBVIOUS
  <2>1. PICK s \in Submission : submission' = s /\ RowSound(s)
    BY <1>4
  <2>2. RowSound(s)'
    BY <1>1, <2>1, SoundStays
  <2> QED
    BY <2>1, <2>2 DEF RowSound
<1>6. assignment' = Nothing =>
          submission' = Nothing /\ \A v \in setting'.workers : pc'[v] = "idle"
  BY <1>2 DEF Moved, CourseworkInv
<1>7. hour' \in 0..LastHour
  BY DEF CourseworkInv
<1>8. Until(assignment'.terms) = Until(assignment.terms)'
  BY DEF Until
<1> QED
  BY <1>1, <1>2, <1>3, <1>4, <1>5, <1>6, <1>7, <1>8 DEF CourseworkInv
\* Statements that write neither row.
LEMMA CourseworkReads ==
    ASSUME CourseworkInv, NEW w \in setting.workers, NEW label, NEW l, Moved(w, label, l), Shaped',
           leave' = IF assignment' = Nothing THEN leave ELSE Widened(leave, assignment'.terms),
           UNCHANGED courseworkTables, WorkHeld(label, l),
           assignment = Nothing => label = "idle"
    PROVE  CourseworkInv'
<1>1. /\ hour' = hour /\ assignment' = assignment /\ submission' = submission
      /\ assignment' \in Assignment \cup {Nothing}
  BY DEF courseworkTables, CourseworkInv
<1> QED
  BY <1>1, CourseworkMoved

\* The author's requests.
LEMMA AuthorSteps ==
    ASSUME CourseworkInv, NEW w \in setting.workers,
           leave' = IF assignment' = Nothing THEN leave ELSE Widened(leave, assignment'.terms),
           \/ \E t \in Terms : CreateAssignment(w, t) \/ BeginUpdateAssignment(w, t)
           \/ PublishAssignment(w) \/ WriteAssignment(w)
    PROVE  CourseworkInv'
<1>1. /\ Shaped /\ WorkHeld(pc[w], loc[w]) /\ assignment \in Assignment \cup {Nothing}
      /\ assignment = Nothing => pc[w] = "idle"
  BY DEF CourseworkInv
<1>2. AtOnce(w) => Shaped' /\ Moved(w, "idle", loc[w]) /\ WorkHeld("idle", loc[w])
  BY <1>1, AtOnceMoves
<1>3. ASSUME NEW t \in Terms, CreateAssignment(w, t) PROVE CourseworkInv'
  <2>1. assignment' \in Assignment
    BY <1>3 DEF CreateAssignment, Assignment
  <2> QED
    BY <1>2, <1>3, <2>1, AssignmentAssumption, CourseworkMoved DEF CreateAssignment
<1>4. ASSUME NEW t \in Terms, BeginUpdateAssignment(w, t) PROVE CourseworkInv'
  BY <1>1, <1>4, HoldMoves, CourseworkReads DEF BeginUpdateAssignment, WorkHeld
<1>5. ASSUME PublishAssignment(w) PROVE CourseworkInv'
  <2>1. assignment' \in Assignment
    BY <1>1, <1>5 DEF PublishAssignment, Assignment
  <2> QED
    BY <1>2, <1>5, <2>1, AssignmentAssumption, CourseworkMoved DEF PublishAssignment
<1>6. ASSUME WriteAssignment(w) PROVE CourseworkInv'
  <2>1. loc[w] \in Terms /\ assignment \in Assignment
    BY <1>1, <1>6 DEF WriteAssignment, At, WorkHeld
  <2>2. assignment' \in Assignment
    BY <1>6, <2>1 DEF WriteAssignment, Assignment
  <2>3. Shaped' /\ Moved(w, "idle", Nothing) /\ WorkHeld("idle", Nothing)
    BY <1>1, <1>6, FinishMoves DEF WriteAssignment, WorkHeld
  <2> QED
    BY <1>6, <2>2, <2>3, AssignmentAssumption, CourseworkMoved DEF WriteAssignment
<1> QED
  BY <1>3, <1>4, <1>5, <1>6

\* A row that may be revised stays sound when it is.
LEMMA RevisedSound ==
    ASSUME NEW old \in Submission, RowSound(old), old.status # "graded",
           NEW submit \in BOOLEAN, NEW at \in 0..LastHour, submit => at <= leave.until
    PROVE  Revised(old, submit, at) \in Submission /\ RowSound(Revised(old, submit, at))
<1>1. at # Nothing
  <2>1. at \in Nat
    BY CourseworkAssumption
  <2> QED
    BY <2>1, AssignmentAssumption
<1>2. old.score = Nothing /\ (old.handed # Nothing => old.handed <= leave.until)
  BY DEF RowSound
<1>3. CASE submit
  <2>1. Revised(old, submit, at) = [old EXCEPT !.status = "submitted", !.handed = at]
    BY <1>3 DEF Revised
  <2> QED
    BY <1>1, <1>2, <1>3, <2>1 DEF Submission, RowSound
<1>4. CASE ~submit
  <2>1. Revised(old, submit, at) = [old EXCEPT !.status = "draft"]
    BY <1>4 DEF Revised
  <2> QED
    BY <1>2, <2>1 DEF Submission, RowSound
<1> QED
  BY <1>3, <1>4

\* The learner's requests and the grader's.
LEMMA SubmissionSteps ==
    ASSUME CourseworkInv, NEW w \in setting.workers,
           leave' = IF assignment' = Nothing THEN leave ELSE Widened(leave, assignment'.terms),
           \/ \E submit \in BOOLEAN : BeginSubmission(w, submit)
           \/ \E score \in Scores : BeginGrade(w, score)
           \/ CheckDue(w) \/ ReadSubmission(w) \/ UpsertSubmission(w)
           \/ ReadMaxScore(w) \/ AbortCoursework(w)
    PROVE  CourseworkInv'
<1>1. /\ Shaped /\ WorkHeld(pc[w], loc[w]) /\ assignment \in Assignment \cup {Nothing}
      /\ assignment = Nothing => pc[w] = "idle" /\ submission = Nothing
      /\ submission \in Submission \cup {Nothing}
      /\ submission # Nothing => RowSound(submission)
      /\ hour \in 0..LastHour
  BY DEF CourseworkInv
<1>2. Finish(w) => Shaped' /\ Moved(w, "idle", Nothing) /\ WorkHeld("idle", Nothing)
  BY <1>1, FinishMoves DEF WorkHeld
<1>3. Finish(w) /\ UNCHANGED courseworkTables => CourseworkInv'
  BY <1>2, CourseworkReads
<1>4. ASSUME NEW submit \in BOOLEAN, BeginSubmission(w, submit) PROVE CourseworkInv'
  <2>1. PICK h : h = [terms |-> assignment.terms, submit |-> submit]
    OBVIOUS
  <2>2. /\ assignment # Nothing /\ assignment.terms \in Terms
        /\ Until(assignment.terms) <= leave.until
    BY <1>1, <1>4 DEF BeginSubmission, Offered, Assignment, CourseworkInv
  <2>3. WorkHeld("submission.due", h)
    BY <2>1, <2>2 DEF WorkHeld
  <2> QED
    BY <1>1, <1>4, <2>1, <2>2, <2>3, HoldMoves, CourseworkReads DEF BeginSubmission
<1>5. ASSUME NEW score \in Scores, BeginGrade(w, score) PROVE CourseworkInv'
  <2>1. PICK h : h = [row |-> submission, score |-> score]
    OBVIOUS
  <2>2. /\ submission \in Submission /\ RowSound(submission) /\ submission.status # "draft"
        /\ assignment # Nothing
    BY <1>1, <1>5 DEF BeginGrade
  <2>3. WorkHeld("grade.terms", h)
    BY <2>1, <2>2 DEF WorkHeld
  <2> QED
    BY <1>1, <1>5, <2>1, <2>2, <2>3, HoldMoves, CourseworkReads DEF BeginGrade
<1>6. ASSUME CheckDue(w) PROVE CourseworkInv'
  <2>1. /\ loc[w] \in [terms : Terms, submit : BOOLEAN] /\ assignment # Nothing
        /\ Until(loc[w].terms) <= leave.until
    BY <1>1, <1>6 DEF CheckDue, At, WorkHeld
  <2>2. Until(loc[w].terms) \in Int /\ hour \in Int /\ leave.until \in Int
    BY <1>1, <2>1, UntilTyped, CourseworkAssumption DEF CourseworkInv
  <2>3. PICK h : h = [at |-> hour, submit |-> loc[w].submit]
    OBVIOUS
  <2>4. CASE loc[w].submit /\ hour > Until(loc[w].terms)
    BY <1>3, <1>6, <2>4 DEF CheckDue
  <2>5. CASE ~(loc[w].submit /\ hour > Until(loc[w].terms))
    <3>1. h.submit => h.at <= leave.until
      BY <2>1, <2>2, <2>3, <2>5
    <3>2. WorkHeld("submission.own", h)
      BY <1>1, <2>1, <2>3, <3>1 DEF WorkHeld
    <3> QED
      BY <1>1, <1>6, <2>1, <2>3, <2>5, <3>2, HoldMoves, CourseworkReads DEF CheckDue
  <2> QED
    BY <2>4, <2>5
<1>7. ASSUME ReadSubmission(w) PROVE CourseworkInv'
  <2>1. /\ loc[w] \in [at : 0..LastHour, submit : BOOLEAN] /\ assignment # Nothing
        /\ loc[w].submit => loc[w].at <= leave.until
    BY <1>1, <1>7 DEF ReadSubmission, At, WorkHeld
  <2>2. PICK old \in Submission :
            old = (IF submission = Nothing THEN Unstarted ELSE submission) /\ RowSound(old)
    <3>1. Unstarted \in Submission /\ RowSound(Unstarted)
      BY DEF Unstarted, Submission, RowSound
    <3> QED
      BY <1>1, <3>1
  <2>3. CASE old.status = "graded"
    BY <1>3, <1>7, <2>2, <2>3 DEF ReadSubmission
  <2>4. CASE old.status # "graded"
    <3>1. PICK h : h = Revised(old, loc[w].submit, loc[w].at)
      OBVIOUS
    <3>2. WorkHeld("submission.upsert", h)
      BY <2>1, <2>2, <2>4, <3>1, RevisedSound DEF WorkHeld
    <3>3. Hold(w, "submission.upsert", h) /\ UNCHANGED courseworkTables
      BY <1>7, <2>2, <2>4, <3>1 DEF ReadSubmission
    <3> QED
      BY <1>1, <2>1, <3>2, <3>3, HoldMoves, CourseworkReads
  <2> QED
    BY <2>3, <2>4
<1>8. ASSUME UpsertSubmission(w) PROVE CourseworkInv'
  <2>1. loc[w] \in Submission /\ RowSound(loc[w]) /\ assignment # Nothing
    BY <1>1, <1>8 DEF UpsertSubmission, At, WorkHeld
  <2> QED
    BY <1>1, <1>2, <1>8, <2>1, CourseworkMoved DEF UpsertSubmission
<1>9. ASSUME ReadMaxScore(w) PROVE CourseworkInv'
  <2>1. /\ loc[w] \in [row : Submission, score : Scores] /\ assignment # Nothing
        /\ RowSound(loc[w].row) /\ loc[w].row.status # "draft"
    BY <1>1, <1>9 DEF ReadMaxScore, At, WorkHeld
  <2>2. CASE ~(loc[w].score <= assignment.terms.max)
    BY <1>3, <1>9, <2>2 DEF ReadMaxScore
  <2>3. CASE loc[w].score <= assignment.terms.max
    <3>1. PICK s \in Submission, score \in Scores : loc[w] = [row |-> s, score |-> score]
      BY <2>1
    <3>2. PICK h : h = [s EXCEPT !.status = "graded", !.score = score]
      OBVIOUS
    <3>3. score <= leave.score /\ score # Nothing
      <4>1. assignment.terms \in Terms /\ assignment.terms.max <= leave.score
        BY <1>1, <2>1 DEF Assignment, CourseworkInv
      <4>2. assignment.terms.max \in Nat /\ score \in Nat
        BY <4>1, UntilTyped, CourseworkAssumption
      <4>3. leave.score \in Int
        BY LeaveWidens, <1>9 DEF ReadMaxScore, courseworkTables, CourseworkInv
      <4> QED
        BY <2>3, <3>1, <4>1, <4>2, <4>3, AssignmentAssumption
    <3>4. h \in Submission /\ RowSound(h)
      <4>1. s.handed # Nothing /\ s.handed <= leave.until
        BY <2>1, <3>1 DEF RowSound
      <4>2. h \in Submission /\ h.status = "graded" /\ h.score = score /\ h.handed = s.handed
        BY <3>2 DEF Submission
      <4> QED
        BY <3>3, <4>1, <4>2 DEF RowSound
    <3>5. Hold(w, "submission.upsert", h) /\ UNCHANGED courseworkTables
      BY <1>9, <2>3, <3>1, <3>2 DEF ReadMaxScore
    <3>6. WorkHeld("submission.upsert", h)
      BY <3>4 DEF WorkHeld
    <3> QED
      BY <1>1, <2>1, <3>5, <3>6, HoldMoves, CourseworkReads
  <2> QED
    BY <2>2, <2>3
<1>10. ASSUME AbortCoursework(w) PROVE CourseworkInv'
  BY <1>3, <1>10 DEF AbortCoursework, Abort
<1> QED
  BY <1>4, <1>5, <1>6, <1>7, <1>8, <1>9, <1>10

LEMMA CourseworkNextInv ==
    ASSUME CourseworkInv, [CourseworkNext]_courseworkVars
    PROVE  CourseworkInv'
<1>1. CASE UNCHANGED courseworkVars
  <2>1. /\ Shaped' /\ setting' = setting /\ pc' = pc /\ loc' = loc
        /\ hour' = hour /\ assignment' = assignment /\ submission' = submission /\ leave' = leave
    BY <1>1, StayShaped DEF courseworkVars, courseworkTables, CourseworkInv
  <2> QED
    BY <2>1 DEF CourseworkInv, WorkHeld, RowSound, Until
<1>2. CASE CourseworkNext
  <2>1. leave' = IF assignment' = Nothing THEN leave ELSE Widened(leave, assignment'.terms)
    BY <1>2 DEF CourseworkNext
  <2>2. ASSUME Hour PROVE CourseworkInv'
    <3>1. /\ Shaped' /\ setting' = setting /\ pc' = pc /\ loc' = loc
          /\ assignment' = assignment /\ submission' = submission
      BY <2>2, StayShaped DEF Hour, CourseworkInv
    <3>2. hour' \in 0..LastHour
      BY <2>2, CourseworkAssumption DEF Hour, CourseworkInv
    <3>3. PICK w \in setting.workers : TRUE
      BY DEF CourseworkInv, Shaped
    <3>4. /\ leave' \in [until : -1..LastHour, score : {0} \cup MaxScores]
          /\ leave.until <= leave'.until /\ leave.score <= leave'.score
          /\ leave.until \in Int /\ leave'.until \in Int
          /\ leave.score \in Int /\ leave'.score \in Int
          /\ assignment' # Nothing =>
                /\ Until(assignment'.terms) <= leave'.until
                /\ assignment'.terms.max <= leave'.score
      BY <2>1, <3>1, LeaveWidens DEF CourseworkInv
    <3>5. ASSUME NEW v \in setting.workers PROVE WorkHeld(pc[v], loc[v])'
      <4>1. PICK k, h : k = pc[v] /\ h = loc[v]
        OBVIOUS
      <4>2. WorkHeld(k, h)'
        BY <3>4, <4>1, HeldStays DEF CourseworkInv
      <4> QED
        BY <3>1, <4>1, <4>2 DEF WorkHeld
    <3>6. submission # Nothing => RowSound(submission)'
      <4> SUFFICES ASSUME submission # Nothing PROVE RowSound(submission)'
        OBVIOUS
      <4>1. PICK s \in Submission : submission = s /\ RowSound(s)
        BY DEF CourseworkInv
      <4>2. RowSound(s)'
        BY <3>4, <4>1, SoundStays
      <4> QED
        BY <3>1, <4>1, <4>2 DEF RowSound
    <3>7. Until(assignment'.terms) = Until(assignment.terms)'
      BY DEF Until
    <3> QED
      BY <3>1, <3>2, <3>4, <3>5, <3>6, <3>7 DEF CourseworkInv
  <2> QED
    BY <1>2, <2>1, <2>2, AuthorSteps, SubmissionSteps
    DEF CourseworkNext, BeginCoursework, CourseworkStep
<1> QED
  BY <1>1, <1>2

\* Rows and what requests hold have their types, for any terms, scores and number
\* of requests.
LEMMA CourseworkInvTypes == CourseworkInv => CourseworkTypeOK
BY DEF CourseworkInv, WorkHeld, CourseworkTypeOK

\* The due date, lateness and max_score are read statements before the submission is
\* written (assessment.go:567, :578, :653): for any terms, scores and number of
\* requests, whatever fails, what stands as submitted or graded was handed in and
\* scored within terms that were in force.
THEOREM CourseworkTheorem == CourseworkSpec => []CourseworkSound
<1>1. ASSUME CourseworkInv PROVE CourseworkSound
  BY <1>1 DEF CourseworkInv, RowSound, CourseworkSound
<1> QED
  BY <1>1, CourseworkInitInv, CourseworkNextInv, PTL DEF CourseworkSpec

-------------------------------------------------------------------------------
(* Progress and certificates: counts, roll-ups and the rows to write       *)

\* The quotient of two counts is a count.
LEMMA Quotient ==
    ASSUME NEW m \in Nat, NEW n \in Nat, n > 0
    PROVE  m \div n \in Nat
OBVIOUS

\* The two counts are in range, and they agree exactly when every published
\* lesson is completed.
LEMMA CountsTell ==
    /\ CountPublished \in 0..Cardinality(Lessons)
    /\ CountCompletedPublished \in 0..Cardinality(Lessons)
    /\ (CountPublished > 0 /\ CountCompletedPublished >= CountPublished) <=> AllCompleted
<1> DEFINE C == {l \in Published : Completed(l)}
<1>1. IsFiniteSet(Lessons) /\ Published \in SUBSET Lessons /\ C \in SUBSET Published
  BY LearningAssumption DEF Published
<1>2. /\ IsFiniteSet(Published) /\ Cardinality(Published) <= Cardinality(Lessons)
      /\ Cardinality(Lessons) \in Nat /\ Cardinality(Published) \in Nat
  BY <1>1, FS_Subset, FS_CardinalityType
<1>3. /\ IsFiniteSet(C) /\ Cardinality(C) <= Cardinality(Published)
      /\ Cardinality(C) \in Nat
      /\ Cardinality(Published) = Cardinality(C) => Published = C
  BY <1>1, <1>2, FS_Subset, FS_CardinalityType
<1>4. Cardinality(Published) = 0 <=> Published = {}
  BY <1>2, FS_EmptySet
<1>5. Published = C <=> \A l \in Published : Completed(l)
  OBVIOUS
<1>6. CountCompletedPublished = Cardinality(C) /\ CountPublished = Cardinality(Published)
  BY DEF CountCompletedPublished, CountPublished
<1> HIDE DEF C
<1>7. Cardinality(Published) > 0 <=> Published # {}
  BY <1>2, <1>4
<1>8. Cardinality(C) >= Cardinality(Published) <=> Published = C
  BY <1>2, <1>3
<1> QED
  BY <1>2, <1>3, <1>5, <1>6, <1>7, <1>8 DEF AllCompleted

\* A roll-up of two counts is a row the table's CHECKs allow.
LEMMA RollupTyped ==
    ASSUME NEW completed \in 0..Cardinality(Lessons), NEW total \in 0..Cardinality(Lessons)
    PROVE  RollupOf(completed, total) \in RollupRow
<1>1. Cardinality(Lessons) \in Nat
  BY LearningAssumption, FS_CardinalityType
<1>2. total > 0 => (completed * 100) \div total \in Nat
  BY <1>1, Quotient
<1>3. completed \in Nat /\ total \in Nat
  BY <1>1
<1> QED
  BY <1>2, <1>3 DEF RollupOf, RollupRow

\* What it says of the counts.
LEMMA RollupSays ==
    ASSUME NEW completed, NEW total
    PROVE  LET row == RollupOf(completed, total)
           IN  /\ row.completed = completed /\ row.total = total
               /\ row.done <=> (total > 0 /\ completed >= total)
<1> DEFINE d == total > 0 /\ completed >= total
<1>1. PICK p : RollupOf(completed, total) =
                  [percent |-> p, completed |-> completed, total |-> total, done |-> d]
  BY Zenon DEF RollupOf
<1> HIDE DEF d
<1>2. LET row == RollupOf(completed, total)
      IN  row.completed = completed /\ row.total = total /\ row.done = d
  BY <1>1
<1> QED
  BY <1>2 DEF d

\* Requests start with a total of none.
LEMMA NoTotal == [total |-> 0] \in Held.total
<1>1. Cardinality(Lessons) \in Nat
  BY LearningAssumption, FS_CardinalityType
<1> QED
  BY <1>1 DEF Held

\* What Advanced makes of a row is a row, that keeps what the row had reached.
LEMMA AdvancedTyped ==
    ASSUME NEW old \in MarkRow \cup {Nothing}, NEW percent \in Percents,
           NEW complete \in BOOLEAN
    PROVE  /\ Advanced(old, percent, complete) \in MarkRow
           /\ old # Nothing =>
                 /\ Advanced(old, percent, complete).percent >= old.percent
                 /\ old.status = "completed" =>
                       Advanced(old, percent, complete).status = "completed"
<1> DEFINE was == IF old = Nothing THEN [status |-> "in_progress", percent |-> 0] ELSE old
           reached == IF percent > was.percent THEN percent ELSE was.percent
<1>1. was \in MarkRow /\ percent \in 0..100
  BY LearningAssumption DEF MarkRow
<1>2. was.percent \in 0..100 /\ was.status \in {"in_progress", "completed"}
      /\ was = [status |-> was.status, percent |-> was.percent]
  BY <1>1 DEF MarkRow
<1>3. reached \in 0..100 /\ reached >= was.percent
  BY <1>1, <1>2
<1>4. Advanced(old, percent, complete) =
          IF complete \/ reached >= 100 THEN [status |-> "completed", percent |-> 100]
          ELSE [status |-> was.status, percent |-> reached]
  BY <1>2 DEF Advanced
<1>5. old # Nothing => was = old
  OBVIOUS
<1> HIDE DEF was, reached
<1> QED
  BY <1>2, <1>3, <1>4, <1>5 DEF MarkRow
\* What LearningTypeOK says of one worker, and of the tables.
LearningHeld(label, l) ==
    \/ label = "idle" /\ l \in Held.idle
    \/ label \in {"progress.seat", "progress.prereq", "progress.own"} /\ l \in Held.seat
    \/ label \in {"progress.upsert", "progress.saved"} /\ l \in Held.row
    \/ label \in {"rollup.missing", "rollup.total", "rollup.completed"} /\ l \in Held.total
    \/ label = "rollup.upsert" /\ l \in Held.rollup
    \/ label \in {"issue.complete", "issue.create"} /\ l \in Held.by

LearningRows ==
    /\ lessons \in [Lessons -> LessonRow]
    /\ seat \in {"none", "active", "ended"}
    /\ marks \in [Lessons -> MarkRow \cup {Nothing}]
    /\ rollup \in RollupRow \cup {Nothing}
    /\ certificate \in Certificate \cup {Nothing}
    /\ finished \in BOOLEAN

\* What a request that runs alone read is still so when it is used.
StillSo(label, l) ==
    /\ label = "progress.upsert" /\ marks[l.lesson] # Nothing =>
          /\ l.row.percent >= marks[l.lesson].percent
          /\ Completed(l.lesson) => l.row.status = "completed"
    /\ label = "rollup.completed" => l.total = CountPublished
    /\ label = "rollup.upsert" => l = RollupOf(CountCompletedPublished, CountPublished)
    /\ label = "issue.create" /\ l.by = "learner" => finished

\* Whoever is said to have completed the course once had.
Earned ==
    /\ rollup # Nothing /\ rollup.done => finished
    /\ certificate # Nothing /\ certificate.by = "learner" => finished

\* What makes ProgressStands and CertificateEarned inductive.
LearningInv ==
    /\ Shaped
    /\ LearningRows
    /\ \A w \in setting.workers : LearningHeld(pc[w], loc[w])
    /\ Alone => Earned /\ \A w \in setting.workers : StillSo(pc[w], loc[w])

LEMMA LearningInitInv == LearningInit => LearningInv
<1> SUFFICES ASSUME LearningInit PROVE LearningInv
  OBVIOUS
<1>1. Shaped /\ \A w \in setting.workers : pc[w] = "idle" /\ loc[w] = Nothing
  BY ShapedInit DEF LearningInit, RequestsInit
<1>2. LearningRows
  BY DEF LearningInit, LearningRows, LessonRow
<1>3. Earned
  BY DEF LearningInit, Earned
<1> QED
  BY <1>1, <1>2, <1>3 DEF LearningInv, LearningHeld, Held, StillSo

\* The lessons and the marks stay: so do the counts.
LEMMA CountsStay ==
    ASSUME UNCHANGED <<lessons, marks>>
    PROVE  /\ CountPublished' = CountPublished
           /\ CountCompletedPublished' = CountCompletedPublished
           /\ AllCompleted' = AllCompleted
           /\ \A l \in Lessons : Completed(l)' = Completed(l) /\ Lives(l)' = Lives(l)
BY DEF CountPublished, CountCompletedPublished, AllCompleted, Published, Completed, Lives

\* One worker goes on, and the rows stay as typed.
LEMMA LearningMoved ==
    ASSUME LearningInv, NEW w \in setting.workers, NEW label, NEW l, Moved(w, label, l), Shaped',
           LearningRows', LearningHeld(label, l),
           Alone => Earned' /\ StillSo(label, l)'
    PROVE  LearningInv'
<1>1. setting' = setting /\ Alone' = Alone
  BY DEF Moved, Alone
<1>2. ASSUME NEW v \in setting.workers PROVE LearningHeld(pc'[v], loc'[v])
  <2>1. CASE v = w
    BY <2>1 DEF Moved
  <2>2. CASE v # w
    BY <2>2 DEF Moved, LearningInv
  <2> QED
    BY <2>1, <2>2
<1>3. ASSUME Alone, NEW v \in setting.workers PROVE StillSo(pc[v], loc[v])'
  <2>1. v = w
    BY <1>3, AloneOne DEF LearningInv
  <2> QED
    BY <1>3, <2>1 DEF Moved, StillSo
<1> QED
  BY <1>1, <1>2, <1>3 DEF LearningInv

\* finished is not forgotten.
LEMMA EarnedStays ==
    ASSUME Earned, finished' = (finished \/ AllCompleted'), UNCHANGED <<rollup, certificate>>
    PROVE  Earned'
BY DEF Earned

\* A statement that only reads.
LEMMA LearningReads ==
    ASSUME LearningInv, NEW w \in setting.workers, NEW label, NEW l, Moved(w, label, l), Shaped',
           UNCHANGED learningTables, finished' = (finished \/ AllCompleted'),
           LearningHeld(label, l), Alone => StillSo(label, l)'
    PROVE  LearningInv'
<1>1. LearningRows'
  BY DEF LearningInv, LearningRows, learningTables, AllCompleted
<1>2. Alone => Earned'
  BY EarnedStays DEF LearningInv, learningTables
<1> QED
  BY <1>1, <1>2, LearningMoved

\* What a statement writes at once, and nothing a roll-up or a certificate says.
LEMMA LearningWrites ==
    ASSUME LearningInv, NEW w \in setting.workers, AtOnce(w),
           UNCHANGED <<rollup, certificate>>, finished' = (finished \/ AllCompleted'),
           LearningRows'
    PROVE  LearningInv'
<1>1. Shaped' /\ Moved(w, "idle", loc[w]) /\ LearningHeld("idle", loc[w])
  BY AtOnceMoves DEF LearningInv
<1>2. Alone => Earned'
  BY EarnedStays DEF LearningInv
<1> QED
  BY <1>1, <1>2, LearningMoved DEF StillSo

\* The teacher's requests.
LEMMA TeacherSteps ==
    ASSUME LearningInv, NEW w \in setting.workers, TeacherStep(w),
           finished' = (finished \/ AllCompleted')
    PROVE  LearningInv'
<1>1. Shaped /\ LearningRows /\ finished' \in BOOLEAN
  BY DEF LearningInv, LearningRows, AllCompleted
<1>2. ASSUME NEW l \in Lessons, NEW p \in Lessons \cup {Nothing},
             CreateLesson(w, l, p) \/ UpdateLesson(w, l, p)
      PROVE  LearningInv'
  <2>1. LearningRows'
    BY <1>1, <1>2 DEF CreateLesson, UpdateLesson, LearningRows, LessonRow
  <2> QED
    BY <1>2, <2>1, LearningWrites DEF CreateLesson, UpdateLesson
<1>3. ASSUME NEW l \in Lessons, NEW status \in {"draft", "published"},
             SetLessonStatus(w, l, status)
      PROVE  LearningInv'
  <2>1. LearningRows'
    BY <1>1, <1>3 DEF SetLessonStatus, LearningRows, LessonRow
  <2> QED
    BY <1>3, <2>1, LearningWrites DEF SetLessonStatus
<1>4. ASSUME NEW l \in Lessons, DeleteLesson(w, l) PROVE LearningInv'
  <2>1. LearningRows'
    BY <1>1, <1>4 DEF DeleteLesson, LearningRows, LessonRow
  <2> QED
    BY <1>4, <2>1, LearningWrites DEF DeleteLesson
<1>5. ASSUME BeginAward(w) PROVE LearningInv'
  <2>1. Shaped' /\ Moved(w, "issue.create", [by |-> "staff"])
    BY <1>1, <1>5, HoldMoves DEF BeginAward
  <2>2. LearningHeld("issue.create", [by |-> "staff"])
    BY DEF LearningHeld, Held
  <2>3. StillSo("issue.create", [by |-> "staff"])'
    BY DEF StillSo
  <2> QED
    BY <1>5, <2>1, <2>2, <2>3, LearningReads DEF BeginAward
<1>6. ASSUME RevokeCertificate(w) PROVE LearningInv'
  <2>1. Shaped' /\ Moved(w, "idle", loc[w]) /\ LearningHeld("idle", loc[w])
    BY <1>1, <1>6, AtOnceMoves DEF LearningInv, RevokeCertificate
  <2>2. LearningRows' /\ certificate'.by = certificate.by
    BY <1>1, <1>6 DEF RevokeCertificate, LearningRows, Certificate
  <2>3. Alone => Earned'
    BY <1>6, <2>2 DEF RevokeCertificate, Earned, LearningInv
  <2> QED
    BY <2>1, <2>2, <2>3, LearningMoved DEF StillSo
<1> QED
  BY <1>2, <1>3, <1>4, <1>5, <1>6, Zenon DEF TeacherStep

\* Reading what a request decides on.
LEMMA LearnerReads ==
    ASSUME LearningInv, NEW w \in setting.workers,
           finished' = (finished \/ AllCompleted'), UNCHANGED learningTables,
           \/ \E l \in Lessons, percent \in Percents, complete \in BOOLEAN :
                  BeginProgress(w, l, percent, complete)
           \/ ReadSeat(w) \/ ReadPrerequisite(w) \/ ReadMark(w) \/ RereadMark(w)
           \/ ReadTotal(w) \/ ReadCompleted(w) \/ BeginCourseProgress(w) \/ ReadRollup(w)
           \/ BeginIssue(w) \/ RequireCourseComplete(w)
    PROVE  LearningInv'
<1>1. Shaped /\ LearningRows /\ LearningHeld(pc[w], loc[w])
  BY DEF LearningInv
<1>2. lessons' = lessons /\ marks' = marks /\ UNCHANGED <<lessons, marks>>
  BY DEF learningTables
<1>3. Finish(w) => LearningInv'
  BY <1>1, FinishMoves, LearningReads DEF LearningHeld, Held, StillSo
<1>4. ASSUME NEW l \in Lessons, NEW percent \in Percents, NEW complete \in BOOLEAN,
             BeginProgress(w, l, percent, complete)
      PROVE  LearningInv'
  <2> DEFINE h == [lesson |-> l, prereq |-> lessons[l].prereq,
                   percent |-> percent, complete |-> complete]
  <2>1. h \in Held.seat
    BY <1>1 DEF LearningRows, LessonRow, Held
  <2>2. Hold(w, "progress.seat", h)
    BY <1>4 DEF BeginProgress
  <2> HIDE DEF h
  <2> QED
    BY <1>1, <2>1, <2>2, HoldMoves, LearningReads DEF LearningHeld, StillSo
<1>5. ASSUME ReadSeat(w) PROVE LearningInv'
  <2>1. Goto(w, "progress.prereq") \/ Finish(w)
    BY <1>5 DEF ReadSeat
  <2>2. loc[w] \in Held.seat
    BY <1>1, <1>5 DEF ReadSeat, At, LearningHeld
  <2> QED
    BY <1>1, <1>3, <2>1, <2>2, GotoMoves, LearningReads DEF LearningHeld, StillSo
<1>6. ASSUME ReadPrerequisite(w) PROVE LearningInv'
  <2>1. Goto(w, "progress.own") \/ Finish(w)
    BY <1>6 DEF ReadPrerequisite
  <2>2. loc[w] \in Held.seat
    BY <1>1, <1>6 DEF ReadPrerequisite, At, LearningHeld
  <2> QED
    BY <1>1, <1>3, <2>1, <2>2, GotoMoves, LearningReads DEF LearningHeld, StillSo
<1>7. ASSUME ReadMark(w) PROVE LearningInv'
  <2> DEFINE k == loc[w].lesson
  <2>1. loc[w] \in Held.seat
    BY <1>1, <1>7 DEF ReadMark, At, LearningHeld
  <2>2. k \in Lessons /\ loc[w].percent \in Percents /\ loc[w].complete \in BOOLEAN
    BY <2>1 DEF Held
  <2>3. marks[k] \in MarkRow \cup {Nothing}
    BY <1>1, <2>2 DEF LearningRows
  <2>4. PICK r \in MarkRow :
          /\ r = Advanced(marks[k], loc[w].percent, loc[w].complete)
          /\ marks[k] # Nothing =>
                /\ r.percent >= marks[k].percent
                /\ marks[k].status = "completed" => r.status = "completed"
    BY <2>2, <2>3, AdvancedTyped
  <2>5. PICK h : h = [lesson |-> k, row |-> r]
    OBVIOUS
  <2>6. Hold(w, "progress.upsert", h)
    BY <1>7, <2>4, <2>5 DEF ReadMark
  <2>7. LearningHeld("progress.upsert", h)
    BY <2>2, <2>5 DEF LearningHeld, Held
  <2>8. h.lesson = k /\ h.row = r /\ marks'[k] = marks[k]
    BY <1>2, <2>5
  <2>9. StillSo("progress.upsert", h)'
    BY <2>4, <2>8 DEF StillSo, Completed
  <2> QED
    BY <1>1, <2>6, <2>7, <2>9, HoldMoves, LearningReads
<1>8. ASSUME RereadMark(w) PROVE LearningInv'
  <2>1. Finish(w) \/ Hold(w, "rollup.total", [total |-> 0])
    BY <1>8 DEF RereadMark
  <2>2. LearningHeld("rollup.total", [total |-> 0])
    BY NoTotal DEF LearningHeld
  <2> QED
    BY <1>1, <1>3, <2>1, <2>2, HoldMoves, LearningReads DEF StillSo
<1>9. ASSUME ReadTotal(w) PROVE LearningInv'
  <2>1. PICK h : h = [total |-> CountPublished]
    OBVIOUS
  <2>2. Hold(w, "rollup.completed", h) /\ h.total = CountPublished'
    BY <1>2, <1>9, <2>1, CountsStay DEF ReadTotal
  <2>3. LearningHeld("rollup.completed", h)
    BY <2>1, CountsTell DEF LearningHeld, Held
  <2> QED
    BY <1>1, <2>2, <2>3, HoldMoves, LearningReads DEF StillSo
<1>10. ASSUME ReadCompleted(w) PROVE LearningInv'
  <2>1. PICK h : h = RollupOf(CountCompletedPublished, loc[w].total)
    OBVIOUS
  <2>2. loc[w].total \in 0..Cardinality(Lessons) /\ pc[w] = "rollup.completed"
    BY <1>1, <1>10 DEF ReadCompleted, At, LearningHeld, Held
  <2>3. Hold(w, "rollup.upsert", h) /\ h \in RollupRow
    BY <1>10, <2>1, <2>2, CountsTell, RollupTyped DEF ReadCompleted
  <2>4. Alone => h = RollupOf(CountCompletedPublished, CountPublished)'
    BY <1>2, <2>1, <2>2, CountsStay DEF LearningInv, StillSo, RollupOf
  <2>5. LearningHeld("rollup.upsert", h)
    BY <2>3 DEF LearningHeld, Held
  <2> QED
    BY <1>1, <2>3, <2>4, <2>5, HoldMoves, LearningReads DEF StillSo
<1>11. ASSUME BeginCourseProgress(w) \/ ReadRollup(w) PROVE LearningInv'
  <2>1. \/ Hold(w, "rollup.missing", [total |-> 0])
        \/ Finish(w)
        \/ Goto(w, "rollup.total") /\ loc[w] \in Held.total
    BY <1>1, <1>11 DEF BeginCourseProgress, ReadRollup, At, LearningHeld
  <2> QED
    BY <1>1, <1>3, <2>1, NoTotal, GotoMoves, HoldMoves, LearningReads DEF LearningHeld, StillSo
<1>12. ASSUME BeginIssue(w) PROVE LearningInv'
  <2>1. Hold(w, "issue.complete", [by |-> "learner"]) /\ [by |-> "learner"] \in Held.by
    BY <1>12 DEF BeginIssue, Held
  <2> QED
    BY <1>1, <2>1, HoldMoves, LearningReads DEF LearningHeld, StillSo
<1>13. ASSUME RequireCourseComplete(w) PROVE LearningInv'
  <2>1. \/ Finish(w)
        \/ Goto(w, "issue.create") /\ rollup # Nothing /\ rollup.done
    BY <1>13 DEF RequireCourseComplete
  <2>2. loc[w] \in Held.by
    BY <1>1, <1>13 DEF RequireCourseComplete, At, LearningHeld
  <2>3. CASE Goto(w, "issue.create") /\ rollup # Nothing /\ rollup.done
    <3>1. Alone => finished'
      BY <2>3 DEF LearningInv, Earned
    <3> QED
      BY <1>1, <2>2, <2>3, <3>1, GotoMoves, LearningReads DEF LearningHeld, StillSo
  <2> QED
    BY <1>3, <2>1, <2>3
<1> QED
  BY <1>4, <1>5, <1>6, <1>7, <1>8, <1>9, <1>10, <1>11, <1>12, <1>13

\* Writing what was decided.
LEMMA LearnerWrites ==
    ASSUME LearningInv, NEW w \in setting.workers,
           finished' = (finished \/ AllCompleted'),
           UpsertMark(w) \/ UpsertRollup(w) \/ CreateCertificate(w) \/ AbortLearning(w)
    PROVE  LearningInv'
<1>1. Shaped /\ LearningRows /\ LearningHeld(pc[w], loc[w]) /\ finished' \in BOOLEAN
  BY DEF LearningInv, LearningRows, AllCompleted
<1>2. LearningHeld("idle", Nothing)
  BY DEF LearningHeld, Held
<1>3. ASSUME UpsertMark(w) PROVE LearningInv'
  <2>1. loc[w] \in Held.row /\ (Finish(w) \/ Goto(w, "progress.saved"))
    BY <1>1, <1>3 DEF UpsertMark, At, LearningHeld
  <2>2. LearningRows'
    BY <1>1, <1>3, <2>1 DEF UpsertMark, LearningRows, Held
  <2>3. Alone => Earned'
    BY <1>3, EarnedStays DEF LearningInv, UpsertMark
  <2> QED
    BY <1>1, <1>2, <2>1, <2>2, <2>3, FinishMoves, GotoMoves, LearningMoved
    DEF LearningHeld, StillSo
<1>4. ASSUME UpsertRollup(w) PROVE LearningInv'
  <2>1. loc[w] \in RollupRow /\ pc[w] = "rollup.upsert" /\ Finish(w) /\ rollup' = loc[w]
    BY <1>1, <1>4 DEF UpsertRollup, At, LearningHeld, Held
  <2>2. LearningRows'
    BY <1>1, <1>4, <2>1 DEF UpsertRollup, LearningRows
  <2>3. ASSUME Alone PROVE Earned'
    <3>1. loc[w] = RollupOf(CountCompletedPublished, CountPublished)
      BY <2>1, <2>3 DEF LearningInv, StillSo
    <3>2. rollup'.done => AllCompleted
      BY <2>1, <3>1, CountsTell, RollupSays
    <3>3. AllCompleted' = AllCompleted /\ certificate' = certificate
      BY <1>4, CountsStay DEF UpsertRollup
    <3> QED
      BY <2>3, <3>2, <3>3 DEF LearningInv, Earned
  <2> QED
    BY <1>1, <1>2, <2>1, <2>2, <2>3, FinishMoves, LearningMoved DEF StillSo
<1>5. ASSUME CreateCertificate(w) PROVE LearningInv'
  <2>1. loc[w] \in Held.by /\ pc[w] = "issue.create" /\ Finish(w) /\ rollup' = rollup
    BY <1>1, <1>5 DEF CreateCertificate, At, LearningHeld
  <2>2. \/ certificate' = certificate
        \/ certificate' = [state |-> "valid", by |-> loc[w].by]
    BY <1>5 DEF CreateCertificate
  <2>3. LearningRows'
    BY <1>1, <1>5, <2>1, <2>2 DEF CreateCertificate, LearningRows, Held, Certificate
  <2>4. ASSUME Alone PROVE Earned'
    <3>1. /\ loc[w].by = "learner" => finished
          /\ finished => finished'
      BY <2>1, <2>4, Zenon DEF LearningInv, StillSo
    <3> QED
      BY <2>1, <2>2, <2>4, <3>1 DEF LearningInv, Earned
  <2> QED
    BY <1>1, <1>2, <2>1, <2>3, <2>4, FinishMoves, LearningMoved DEF StillSo
<1>6. ASSUME AbortLearning(w) PROVE LearningInv'
  BY <1>1, <1>2, <1>6, FinishMoves, LearningReads DEF AbortLearning, Abort, StillSo
<1> QED
  BY <1>3, <1>4, <1>5, <1>6

LEMMA LearningNextInv ==
    ASSUME LearningInv, [LearningNext]_learningVars
    PROVE  LearningInv'
<1>1. ASSUME NEW w \in setting.workers, finished' = (finished \/ AllCompleted'),
             TeacherStep(w) \/ LearnerStep(w) \/ AbortLearning(w)
      PROVE  LearningInv'
  <2>1. CASE TeacherStep(w)
    BY <1>1, <2>1, TeacherSteps
  <2>2. CASE UpsertMark(w) \/ UpsertRollup(w) \/ CreateCertificate(w) \/ AbortLearning(w)
    BY <1>1, <2>2, LearnerWrites
  <2>3. ASSUME LearnerStep(w), ~(UpsertMark(w) \/ UpsertRollup(w) \/ CreateCertificate(w))
        PROVE  LearningInv'
    <3>1. UNCHANGED learningTables
      BY <2>3
      DEF LearnerStep, BeginProgress, ReadSeat, ReadPrerequisite, ReadMark, RereadMark,
          ReadTotal, ReadCompleted, BeginCourseProgress, ReadRollup, BeginIssue,
          RequireCourseComplete
    <3> QED
      BY <1>1, <2>3, <3>1, LearnerReads DEF LearnerStep
  <2> QED
    BY <1>1, <2>1, <2>2, <2>3
<1>2. ASSUME ChangeSeat, finished' = (finished \/ AllCompleted') PROVE LearningInv'
  <2>1. Shaped' /\ setting' = setting /\ pc' = pc /\ loc' = loc /\ Alone' = Alone
    BY <1>2, StayShaped DEF ChangeSeat, LearningInv, Alone
  <2>2. LearningRows'
    BY <1>2 DEF ChangeSeat, LearningInv, LearningRows, AllCompleted
  <2>3. Alone => Earned'
    BY <1>2, EarnedStays DEF ChangeSeat, LearningInv
  <2>4. ASSUME Alone, NEW v \in setting.workers PROVE StillSo(pc[v], loc[v])'
    BY <1>2, <2>1, <2>4, CountsStay
    DEF ChangeSeat, LearningInv, StillSo, Completed, RollupOf
  <2> QED
    BY <2>1, <2>2, <2>3, <2>4 DEF LearningInv
<1>3. CASE UNCHANGED learningVars
  <2>1. Shaped' /\ setting' = setting /\ pc' = pc /\ loc' = loc /\ Alone' = Alone
    BY <1>3, StayShaped DEF learningVars, LearningInv, Alone
  <2>2. LearningRows' /\ (Alone => Earned')
    BY <1>3 DEF learningVars, learningTables, LearningInv, LearningRows, Earned
  <2>3. ASSUME Alone, NEW v \in setting.workers PROVE StillSo(pc[v], loc[v])'
    BY <1>3, <2>1, <2>3, CountsStay
    DEF learningVars, learningTables, LearningInv, StillSo, Completed, RollupOf
  <2> QED
    BY <2>1, <2>2, <2>3 DEF LearningInv
<1> QED
  BY <1>1, <1>2, <1>3 DEF LearningNext

\* Lessons, progress, roll-up and certificate have the types of their columns and
\* obey their CHECKs (progress.go:180 divides counts that are read one after the
\* other), for any lessons and number of requests.
LEMMA LearningInvTypes == LearningInv => LearningTypeOK
BY DEF LearningInv, LearningRows, LearningHeld, LearningTypeOK

\* A learner's own certificate is earned (certificate.go:69), for any number of
\* lessons: a request at a time, whatever fails and whichever lessons come and go.
THEOREM CertificateTheorem == LearningSpec => []CertificateEarned
<1>1. ASSUME LearningInv PROVE CertificateEarned
  BY <1>1 DEF LearningInv, Earned, CertificateEarned
<1> QED
  BY <1>1, LearningInitInv, LearningNextInv, PTL DEF LearningSpec

\* What ProgressStands says of one step.
ProgressStep ==
    /\ \A l \in Lessons :
        marks[l] # Nothing /\ Lives(l)' =>
            /\ marks'[l] # Nothing /\ marks'[l].percent >= marks[l].percent
            /\ Completed(l) => Completed(l)'
    /\ rollup' # rollup =>
        /\ rollup'.completed = CountCompletedPublished
        /\ rollup'.total = CountPublished
        /\ rollup'.done <=> AllCompleted

LEMMA ProgressSteps ==
    ASSUME LearningInv, LearningNext, Alone
    PROVE  ProgressStep
<1>1. LearningRows /\ Shaped
  BY DEF LearningInv
<1>2. UNCHANGED <<marks, rollup>> => ProgressStep
  BY <1>1 DEF LearningRows, MarkRow, ProgressStep, Completed
<1>3. ASSUME NEW w \in setting.workers, NEW k \in Lessons, DeleteLesson(w, k)
      PROVE  ProgressStep
  <2>1. ~Lives(k)' /\ \A l \in Lessons \ {k} : marks'[l] = marks[l]
    BY <1>1, <1>3 DEF DeleteLesson, Lives, LearningRows
  <2>2. rollup' = rollup
    BY <1>3 DEF DeleteLesson
  <2> QED
    BY <1>1, <2>1, <2>2 DEF LearningRows, MarkRow, ProgressStep, Completed
<1>4. ASSUME NEW w \in setting.workers, UpsertMark(w) PROVE ProgressStep
  <2>1. /\ loc[w] \in Held.row /\ pc[w] = "progress.upsert"
        /\ StillSo("progress.upsert", loc[w]) /\ rollup' = rollup
    BY <1>4 DEF UpsertMark, At, LearningInv, LearningHeld
  <2>2. PICK k \in Lessons, r \in MarkRow : loc[w] = [lesson |-> k, row |-> r]
    BY <2>1 DEF Held
  <2>3. marks' = marks \/ marks' = [marks EXCEPT ![k] = r]
    BY <1>4, <2>2 DEF UpsertMark
  <2>4. marks[k] # Nothing =>
            /\ r.percent >= marks[k].percent
            /\ Completed(k) => r.status = "completed"
    BY <2>1, <2>2 DEF StillSo
  <2>5. r # Nothing
    BY MarksAssumption
  <2>6. CASE marks' = [marks EXCEPT ![k] = r]
    <3>1. marks'[k] = r /\ \A l \in Lessons \ {k} : marks'[l] = marks[l]
      BY <1>1, <2>6 DEF LearningRows
    <3> QED
      BY <1>1, <2>1, <2>4, <2>5, <3>1 DEF LearningRows, MarkRow, ProgressStep, Completed
  <2> QED
    BY <1>2, <2>1, <2>3, <2>6
<1>5. ASSUME NEW w \in setting.workers, UpsertRollup(w) PROVE ProgressStep
  <2>1. loc[w] = RollupOf(CountCompletedPublished, CountPublished) /\ rollup' = loc[w]
    BY <1>5 DEF UpsertRollup, At, LearningInv, StillSo
  <2>2. /\ rollup'.completed = CountCompletedPublished /\ rollup'.total = CountPublished
        /\ rollup'.done <=> AllCompleted
    BY <2>1, CountsTell, RollupSays
  <2>3. marks' = marks
    BY <1>5 DEF UpsertRollup
  <2> QED
    BY <1>1, <2>2, <2>3 DEF LearningRows, MarkRow, ProgressStep, Completed
<1> QED
  BY <1>2, <1>3, <1>4, <1>5
  DEF LearningNext, TeacherStep, LearnerStep, AbortLearning, ChangeSeat, learningTables,
      CreateLesson, UpdateLesson, SetLessonStatus, BeginAward, RevokeCertificate,
      BeginProgress, ReadSeat, ReadPrerequisite, ReadMark, RereadMark, ReadTotal,
      ReadCompleted, BeginCourseProgress, ReadRollup, BeginIssue, RequireCourseComplete,
      CreateCertificate

\* Progress is not lost while its lesson is there, and a roll-up says what the tables
\* say (progress.go:78, :180), for any number of lessons and whatever percents are
\* reported: a request at a time, whatever fails.
THEOREM ProgressTheorem == LearningSpec => ProgressStands
<1>1. LearningInv /\ [LearningNext]_learningVars => [Alone => ProgressStep]_learningVars
  BY ProgressSteps
<1> QED
  BY <1>1, LearningInitInv, LearningNextInv, PTL
  DEF LearningSpec, ProgressStands, ProgressStep

-------------------------------------------------------------------------------
(* Reports: what was counted while rows are added                          *)

\* Of results there is a best one.
LEMMA BestIsBest ==
    ASSUME NEW S \in SUBSET (0..100), S # {}
    PROVE  BestOf(S) \in S /\ \A q \in S : q <= BestOf(S)
<1> DEFINE D == {100 - p : p \in S}
<1>1. D \in SUBSET Nat /\ D # {}
  <2>1. \A p \in S : 100 - p \in Nat
    OBVIOUS
  <2>2. PICK p \in S : TRUE
    OBVIOUS
  <2>3. 100 - p \in D
    BY <2>2
  <2>4. \A d \in D : d \in Nat
    BY <2>1
  <2> QED
    BY <2>3, <2>4
<1>2. PICK d \in D : \A e \in D : d <= e
  BY <1>1, LeastNumber
<1>3. PICK p \in S : d = 100 - p
  OBVIOUS
<1>4. ASSUME NEW q \in S PROVE q <= p
  <2>1. 100 - q \in D
    OBVIOUS
  <2>2. 100 - p <= 100 - q
    BY <1>2, <1>3, <2>1
  <2> QED
    BY <2>2
<1>5. \E r \in S : \A q \in S : q <= r
  BY <1>4
<1> QED
  BY <1>5 DEF BestOf

\* A set of results that has grown has a best one no worse.
LEMMA BestGrows ==
    ASSUME NEW S \in SUBSET (0..100), NEW T \in SUBSET (0..100), S \subseteq T,
           Nothing \notin T
    PROVE  /\ BestOf(S) # Nothing <=> S # {}
           /\ S # {} => /\ BestOf(S) \in S /\ BestOf(T) # Nothing
                        /\ BestOf(S) <= BestOf(T)
<1>1. S # {} => /\ BestOf(S) \in S
                /\ BestOf(T) \in T /\ \A q \in T : q <= BestOf(T)
  <2>1. S # {} => T # {}
    OBVIOUS
  <2> QED
    BY <2>1, BestIsBest
<1>2. S = {} => BestOf(S) = Nothing
  BY DEF BestOf
<1> QED
  BY <1>1, <1>2

\* What graded attempts resulted in.
ResultsOf(s) == {s[k] : k \in DOMAIN s} \ {Nothing}

Results(u) == ResultsOf(tries[u])

LEMMA ResultsTyped ==
    ASSUME NEW s \in Seq(Result)
    PROVE  ResultsOf(s) \in SUBSET (0..100) /\ Nothing \notin ResultsOf(s)
<1>1. \A k \in DOMAIN s : s[k] \in Result
  BY ElementOfSeq, LenProperties
<1> QED
  BY <1>1, ReportingAssumption DEF ResultsOf, Result

ReportingRows ==
    /\ seats \in [Members -> SeatStatus \cup {"none"}]
    /\ tries \in [Members -> Seq(Result)]
    /\ \A u \in Members : Len(tries[u]) <= TriesBound
    /\ completers \in SUBSET Members

\* What a request has read, by the statement it runs next.
ReportTyped(label, l) ==
    CASE label = "idle" -> l = Nothing
      [] label = "gradebook.best" -> l \in [rows : SUBSET Members]
      [] label = "gradebook.counts" ->
            \E R \in SUBSET Members :
                l \in [bests : [R -> Result], counts : [R -> 0..TriesBound], todo : SUBSET R]
      [] label = "transcript.count" -> l \in [learner : Members]
      [] label = "transcript.tries" -> l \in [learner : Members, count : 0..TriesBound]
      [] label = "transcript.shown" ->
            l \in [learner : Members, count : 0..TriesBound, best : Result]
      [] label = "overview.status" -> l \in [total : 0..Cardinality(Members)]
      [] label = "overview.shown" ->
            l \in [total : 0..Cardinality(Members), byStatus : [SeatStatus -> Nat]]
      [] label = "analytics.completions" -> l \in [active : 0..Cardinality(Members)]
      [] label = "analytics.shown" -> l \in [active : 0..Cardinality(Members), rate : Nat]
      [] OTHER -> FALSE

\* A result is no better than the learner's best by now.
Reached(u, p) == p # Nothing => Best(u) # Nothing /\ p <= Best(u)

\* What it has read is outgrown by the tables.
ReportBelow(label, l) ==
    /\ label = "gradebook.counts" =>
        \A u \in DOMAIN l.bests :
            /\ Reached(u, l.bests[u])
            /\ Unfailing /\ l.bests[u] # Nothing /\ u \notin l.todo => l.counts[u] > 0
    /\ label = "transcript.shown" => Reached(l.learner, l.best)
    /\ label = "overview.status" => l.total <= Cardinality(WithSeat(SeatStatus))
    /\ label = "overview.shown" => l.total <= SumByStatus(l.byStatus)

\* Alone, what it has read is still so.
ReportStill(label, l) ==
    /\ label = "transcript.tries" /\ Unfailing => l.count = Len(tries[l.learner])
    /\ label = "transcript.shown" /\ Unfailing /\ l.best # Nothing => l.count > 0
    /\ label = "analytics.completions" => l.active = Cardinality(WithSeat({"active"}))
    /\ label = "analytics.shown" /\ l.rate > 100 =>
            ~(completers \subseteq WithSeat({"active"}))

ReportingInv ==
    /\ Shaped /\ ReportingRows
    /\ \A w \in setting.workers :
        /\ ReportTyped(pc[w], loc[w])
        /\ ReportBelow(pc[w], loc[w])
        /\ Alone => ReportStill(pc[w], loc[w])

LEMMA ReportingInitInv == ReportingInit => ReportingInv
<1> SUFFICES ASSUME ReportingInit PROVE ReportingInv
  OBVIOUS
<1>1. Shaped /\ \A w \in setting.workers : pc[w] = "idle" /\ loc[w] = Nothing
  BY ShapedInit DEF ReportingInit, RequestsInit
<1>2. ReportingRows
  <2>1. <<>> \in Seq(Result) /\ Len(<<>>) = 0
    BY EmptySeq
  <2>2. TriesBound \in Nat
    BY ReportingAssumption
  <2> QED
    BY <2>1, <2>2 DEF ReportingInit, ReportingRows
<1> QED
  BY <1>1, <1>2 DEF ReportingInv, ReportTyped, ReportBelow, ReportStill

\* Rows were only added, and graded attempts keep their results.
RowsGrow ==
    /\ \A u \in Members : Results(u) \subseteq Results(u)'
    /\ WithSeat(SeatStatus) \subseteq WithSeat(SeatStatus)'

\* So what a request has read is still outgrown.
LEMMA ReachedStays ==
    ASSUME ReportingRows, ReportingRows', RowsGrow, NEW u \in Members, NEW p, Reached(u, p),
           p = Nothing \/ p \in 0..100
    PROVE  Reached(u, p)'
<1>1. /\ Results(u) \in SUBSET (0..100) /\ Results(u)' \in SUBSET (0..100)
      /\ Nothing \notin Results(u)'
  <2>1. tries[u] \in Seq(Result) /\ tries'[u] \in Seq(Result)
    BY DEF ReportingRows
  <2> QED
    BY <2>1, ResultsTyped DEF Results
<1>2. Results(u) \subseteq Results(u)'
  BY DEF RowsGrow
<1>3. Best(u) = BestOf(Results(u)) /\ Best(u)' = BestOf(Results(u)')
  BY DEF Best, Results, ResultsOf, BestOf
<1> QED
  BY <1>1, <1>2, <1>3, BestGrows DEF Reached

LEMMA BelowStays ==
    ASSUME ReportingRows, ReportingRows', RowsGrow, setting' = setting,
           NEW label, NEW l, ReportTyped(label, l), ReportBelow(label, l)
    PROVE  ReportBelow(label, l)'
<1>1. Unfailing' = Unfailing
  BY DEF Unfailing
<1>2. CASE label = "gradebook.counts"
  <2>1. PICK R \in SUBSET Members :
            l \in [bests : [R -> Result], counts : [R -> 0..TriesBound], todo : SUBSET R]
    BY <1>2 DEF ReportTyped
  <2>2. ASSUME NEW u \in DOMAIN l.bests
        PROVE  Reached(u, l.bests[u])'
    <3>1. u \in Members /\ (l.bests[u] = Nothing \/ l.bests[u] \in 0..100)
      BY <2>1, ReportingAssumption DEF Result
    <3>2. Reached(u, l.bests[u])
      BY <1>2 DEF ReportBelow
    <3>3. PICK p : p = l.bests[u]
      OBVIOUS
    <3>4. Reached(u, p)'
      BY <3>1, <3>2, <3>3, ReachedStays
    <3> QED
      BY <3>3, <3>4
  <2> QED
    BY <1>1, <1>2, <2>2 DEF ReportBelow
<1>3. CASE label = "transcript.shown"
  <2>1. l \in [learner : Members, count : 0..TriesBound, best : Result]
    BY <1>3 DEF ReportTyped
  <2>2. l.learner \in Members /\ (l.best = Nothing \/ l.best \in 0..100)
    BY <2>1, ReportingAssumption DEF Result
  <2>3. Reached(l.learner, l.best)'
    BY <1>3, <2>2, ReachedStays DEF ReportBelow
  <2> QED
    BY <1>3, <2>3 DEF ReportBelow
<1>4. CASE label = "overview.status"
  <2>1. l.total \in Nat
    <3>1. Cardinality(Members) \in Nat
      BY ReportingAssumption, FS_CardinalityType
    <3> QED
      BY <1>4, <3>1 DEF ReportTyped
  <2>2. IsFiniteSet(WithSeat(SeatStatus)) /\ IsFiniteSet(WithSeat(SeatStatus)')
    BY ReportingAssumption, FS_Subset DEF WithSeat
  <2>3. /\ Cardinality(WithSeat(SeatStatus)) <= Cardinality(WithSeat(SeatStatus)')
        /\ Cardinality(WithSeat(SeatStatus)) \in Nat
        /\ Cardinality(WithSeat(SeatStatus)') \in Nat
    BY <2>2, FS_Subset, FS_CardinalityType DEF RowsGrow
  <2>4. l.total <= Cardinality(WithSeat(SeatStatus))
    BY <1>4 DEF ReportBelow
  <2>5. l.total <= Cardinality(WithSeat(SeatStatus)')
    BY <2>1, <2>3, <2>4
  <2> QED
    BY <1>4, <2>5 DEF ReportBelow
<1>5. CASE label = "overview.shown"
  BY <1>5 DEF ReportBelow
<1>6. CASE label \notin {"gradebook.counts", "transcript.shown", "overview.status",
                        "overview.shown"}
  BY <1>6 DEF ReportBelow
<1> QED
  BY <1>2, <1>3, <1>4, <1>5, <1>6

\* One worker goes on, and rows are at most added.
LEMMA ReportingMoved ==
    ASSUME ReportingInv, NEW w \in setting.workers, NEW label, NEW l, Moved(w, label, l),
           Shaped', ReportingRows', RowsGrow, ReportTyped(label, l), ReportBelow(label, l)',
           Alone => ReportStill(label, l)'
    PROVE  ReportingInv'
<1>1. setting' = setting /\ Alone' = Alone
  BY DEF Moved, Alone
<1>2. ASSUME NEW v \in setting.workers
      PROVE  ReportTyped(pc'[v], loc'[v]) /\ ReportBelow(pc[v], loc[v])'
  <2>1. CASE v = w
    BY <2>1 DEF Moved, ReportBelow
  <2>2. CASE v # w
    <3>1. PICK a, b : a = pc[v] /\ b = loc[v]
      OBVIOUS
    <3>2. ReportTyped(a, b) /\ ReportBelow(a, b)
      BY <3>1 DEF ReportingInv
    <3>3. ReportBelow(a, b)'
      BY <1>1, <3>2, BelowStays DEF ReportingInv
    <3>4. a = pc'[v] /\ b = loc'[v]
      BY <2>2, <3>1 DEF Moved
    <3> QED
      BY <3>2, <3>3, <3>4 DEF ReportBelow
  <2> QED
    BY <2>1, <2>2
<1>3. ASSUME Alone, NEW v \in setting.workers PROVE ReportStill(pc[v], loc[v])'
  <2>1. v = w
    BY <1>3, AloneOne DEF ReportingInv
  <2> QED
    BY <1>3, <2>1 DEF Moved, ReportStill
<1> QED
  BY <1>1, <1>2, <1>3 DEF ReportingInv

\* A statement that only reads.
LEMMA ReportingReads ==
    ASSUME ReportingInv, NEW w \in setting.workers, NEW label, NEW l, Moved(w, label, l),
           Shaped', UNCHANGED reportingTables, ReportTyped(label, l), ReportBelow(label, l),
           Alone => ReportStill(label, l)
    PROVE  ReportingInv'
<1>1. ReportingRows' /\ RowsGrow
  BY DEF ReportingInv, ReportingRows, RowsGrow, reportingTables, Results, ResultsOf, WithSeat
<1>2. ReportBelow(label, l)'
  BY <1>1, BelowStays DEF ReportingInv, Moved
<1>3. Alone => ReportStill(label, l)'
  BY DEF ReportStill, reportingTables, WithSeat, Moved, Unfailing
<1> QED
  BY <1>1, <1>2, <1>3, ReportingMoved

\* A statement that adds rows at once.
LEMMA ReportingWrites ==
    ASSUME ReportingInv, NEW w \in setting.workers, AtOnce(w), ReportingRows', RowsGrow
    PROVE  ReportingInv'
<1>1. PICK l : l = loc[w]
  OBVIOUS
<1>2. Shaped' /\ Moved(w, "idle", l) /\ pc[w] = "idle"
  BY <1>1, AtOnceMoves DEF ReportingInv
<1>3. ReportTyped("idle", l)
  BY <1>1, <1>2 DEF ReportingInv
<1>4. ReportBelow("idle", l)' /\ ReportStill("idle", l)'
  BY DEF ReportBelow, ReportStill
<1> QED
  BY <1>2, <1>3, <1>4, ReportingMoved

\* The requests that change what is reported.
LEMMA ReportedChanges ==
    ASSUME ReportingInv, NEW w \in setting.workers, ChangeReported(w)
    PROVE  ReportingInv'
<1>1. PICK u \in Members :
        \/ \E status \in SeatStatus : ChangeStatus(w, u, status)
        \/ StartTry(w, u) \/ ChangeCompletion(w, u)
        \/ \E percent \in Percentages : GradeTry(w, u, percent)
  BY DEF ChangeReported
<1>2. ReportingRows
  BY DEF ReportingInv
<1>3. tries[u] \in Seq(Result) /\ Len(tries[u]) \in Nat /\ DOMAIN tries[u] = 1..Len(tries[u])
  BY <1>2, LenProperties DEF ReportingRows
<1>4. ASSUME NEW status \in SeatStatus, ChangeStatus(w, u, status) PROVE ReportingInv'
  <2>1. AtOnce(w)
    BY <1>4 DEF ChangeStatus
  <2>2. ReportingRows'
    BY <1>2, <1>4 DEF ChangeStatus, ReportingRows
  <2>3. \A v \in Members : seats[v] \in SeatStatus => seats'[v] \in SeatStatus
    BY <1>2, <1>4 DEF ChangeStatus, ReportingRows
  <2>4. RowsGrow
    BY <1>4, <2>3 DEF ChangeStatus, RowsGrow, Results, ResultsOf, WithSeat
  <2> QED
    BY <2>1, <2>2, <2>4, ReportingWrites
<1>5. CASE StartTry(w, u)
  <2>1. AtOnce(w)
    BY <1>5 DEF StartTry
  <2>2. PICK s : s = Append(tries[u], Nothing)
    OBVIOUS
  <2>3. /\ s \in Seq(Result) /\ Len(s) = Len(tries[u]) + 1
        /\ \A k \in 1..Len(tries[u]) : s[k] = tries[u][k]
    BY <1>3, <2>2, AppendProperties DEF Result
  <2>4. DOMAIN s = 1..Len(s)
    BY <2>3, LenProperties
  <2>5. tries' = [tries EXCEPT ![u] = s] /\ Len(tries[u]) < TriesBound
    BY <1>5, <2>2 DEF StartTry
  <2>6. ReportingRows'
    <3>1. Len(s) <= TriesBound
      BY <1>3, <2>3, <2>5, ReportingAssumption
    <3> QED
      BY <1>2, <1>5, <2>3, <2>5, <3>1 DEF StartTry, ReportingRows
  <2>7. ResultsOf(tries[u]) \subseteq ResultsOf(s)
    BY <1>3, <2>3, <2>4 DEF ResultsOf
  <2>8. RowsGrow
    BY <1>2, <1>5, <2>5, <2>7 DEF StartTry, RowsGrow, Results, WithSeat, ReportingRows
  <2> QED
    BY <2>1, <2>6, <2>8, ReportingWrites
<1>6. CASE ChangeCompletion(w, u)
  <2>1. AtOnce(w)
    BY <1>6 DEF ChangeCompletion
  <2>2. completers' \in SUBSET Members
    BY <1>2, <1>6 DEF ChangeCompletion, ReportingRows
  <2>3. ReportingRows'
    BY <1>2, <1>6, <2>2 DEF ChangeCompletion, ReportingRows
  <2>4. RowsGrow
    BY <1>6 DEF ChangeCompletion, RowsGrow, Results, WithSeat
  <2> QED
    BY <2>1, <2>3, <2>4, ReportingWrites
<1>7. ASSUME NEW percent \in Percentages, GradeTry(w, u, percent) PROVE ReportingInv'
  <2>1. AtOnce(w)
    BY <1>7 DEF GradeTry
  <2>2. PICK k \in DOMAIN tries[u] :
            tries[u][k] = Nothing /\ tries' = [tries EXCEPT ![u][k] = percent]
    BY <1>7 DEF GradeTry
  <2>3. PICK s : s = [tries[u] EXCEPT ![k] = percent]
    OBVIOUS
  <2>4. /\ s \in Seq(Result) /\ Len(s) = Len(tries[u])
        /\ \A j \in 1..Len(tries[u]) : s[j] = IF j = k THEN percent ELSE tries[u][j]
    BY <1>3, <2>2, <2>3, ExceptSeq DEF Result
  <2>5. DOMAIN s = 1..Len(s)
    BY <2>4, LenProperties
  <2>6. tries' = [tries EXCEPT ![u] = s]
    BY <2>2, <2>3
  <2>7. ReportingRows'
    BY <1>2, <1>7, <2>4, <2>6 DEF GradeTry, ReportingRows
  <2>8. ResultsOf(tries[u]) \subseteq ResultsOf(s)
    BY <1>3, <2>2, <2>4, <2>5 DEF ResultsOf
  <2>9. RowsGrow
    BY <1>2, <1>7, <2>6, <2>8 DEF GradeTry, RowsGrow, Results, WithSeat, ReportingRows
  <2> QED
    BY <2>1, <2>7, <2>9, ReportingWrites
<1> QED
  BY <1>1, <1>4, <1>5, <1>6, <1>7

\* A result that is the best is one of a learner who made attempts.
LEMMA BestReached ==
    ASSUME ReportingRows, NEW u \in Members
    PROVE  /\ Best(u) \in Result /\ Reached(u, Best(u))
           /\ Best(u) # Nothing => Len(tries[u]) > 0
           /\ Len(tries[u]) \in 0..TriesBound
<1>1. tries[u] \in Seq(Result) /\ Len(tries[u]) \in Nat /\ Len(tries[u]) <= TriesBound
      /\ DOMAIN tries[u] = 1..Len(tries[u])
  BY LenProperties DEF ReportingRows
<1>2. Results(u) \in SUBSET (0..100) /\ Nothing \notin Results(u)
  BY <1>1, ResultsTyped DEF Results
<1>3. Results(u) \subseteq Result
  BY <1>1, ElementOfSeq DEF Results, ResultsOf
<1>4. Best(u) = BestOf(Results(u))
  BY DEF Best, Results, ResultsOf, BestOf
<1>5. /\ BestOf(Results(u)) # Nothing <=> Results(u) # {}
      /\ Results(u) # {} => BestOf(Results(u)) \in Results(u)
  BY <1>2, BestGrows
<1>6. Best(u) \in Result
  BY <1>3, <1>4, <1>5 DEF Result
<1>7. Reached(u, Best(u))
  BY <1>2, <1>4, <1>5 DEF Reached
<1>8. Best(u) # Nothing => Len(tries[u]) > 0
  BY <1>1, <1>4, <1>5 DEF Results, ResultsOf
<1> QED
  BY <1>1, <1>6, <1>7, <1>8, ReportingAssumption

\* The gradebook: the best results first, then the counts.
LEMMA GradebookSteps ==
    ASSUME ReportingInv, NEW w \in setting.workers,
           BeginGradebook(w) \/ ReadBest(w) \/ CountTries(w)
    PROVE  ReportingInv'
<1>1. ReportingRows /\ Shaped
  BY DEF ReportingInv
<1>2. CASE BeginGradebook(w)
  <2>1. PICK page \in ActivePages : Hold(w, "gradebook.best", [rows |-> page])
    BY <1>2 DEF BeginGradebook
  <2>2. page \in SUBSET Members
    <3>1. WithSeat({"active"}) \in SUBSET Members
      BY DEF WithSeat
    <3> QED
      BY <2>1, <3>1 DEF ActivePages
  <2>3. PICK l : l = [rows |-> page]
    OBVIOUS
  <2>4. Shaped' /\ Moved(w, "gradebook.best", l)
    BY <1>1, <2>1, <2>3, HoldMoves
  <2>5. ReportTyped("gradebook.best", l)
    BY <2>2, <2>3 DEF ReportTyped
  <2> QED
    BY <1>2, <2>4, <2>5, ReportingReads DEF BeginGradebook, ReportBelow, ReportStill
<1>3. CASE ReadBest(w)
  <2>1. loc[w] \in [rows : SUBSET Members]
    BY <1>3 DEF ReadBest, At, ReportingInv, ReportTyped
  <2>2. PICK R \in SUBSET Members : R = loc[w].rows
    BY <2>1
  <2>3. PICK B : B = [u \in R |-> Best(u)]
    OBVIOUS
  <2>4. B \in [R -> Result] /\ \A u \in R : Reached(u, B[u])
    BY <1>1, <2>3, BestReached
  <2>5. PICK l : l = [bests |-> B, counts |-> [u \in R |-> 0], todo |-> R]
    OBVIOUS
  <2>6. Hold(w, "gradebook.counts", l)
    BY <1>3, <2>2, <2>3, <2>5 DEF ReadBest
  <2>7. Shaped' /\ Moved(w, "gradebook.counts", l)
    BY <1>1, <2>6, HoldMoves
  <2>8. ReportTyped("gradebook.counts", l)
    <3>1. [u \in R |-> 0] \in [R -> 0..TriesBound]
      BY ReportingAssumption
    <3>2. l \in [bests : [R -> Result], counts : [R -> 0..TriesBound], todo : SUBSET R]
      BY <2>4, <2>5, <3>1
    <3> QED
      BY <3>2 DEF ReportTyped
  <2>9. ReportBelow("gradebook.counts", l)
    BY <2>4, <2>5 DEF ReportBelow
  <2> QED
    BY <1>3, <2>7, <2>8, <2>9, ReportingReads DEF ReadBest, ReportStill
<1>4. CASE CountTries(w)
  <2>0. PICK u \in loc[w].todo :
          \E n \in {Len(tries[u])} \cup (IF setting.failures THEN {0} ELSE {}) :
            Hold(w, "gradebook.counts", [loc[w] EXCEPT !.counts[u] = n, !.todo = @ \ {u}])
    BY <1>4 DEF CountTries
  <2>1. PICK n \in {Len(tries[u])} \cup (IF setting.failures THEN {0} ELSE {}) :
            Hold(w, "gradebook.counts", [loc[w] EXCEPT !.counts[u] = n, !.todo = @ \ {u}])
    BY <2>0
  <2>2. PICK g : g = loc[w]
    OBVIOUS
  <2>3. ReportTyped("gradebook.counts", g) /\ ReportBelow("gradebook.counts", g)
    BY <1>4, <2>2 DEF CountTries, At, ReportingInv
  <2>4. PICK R \in SUBSET Members :
            g \in [bests : [R -> Result], counts : [R -> 0..TriesBound], todo : SUBSET R]
    BY <2>3 DEF ReportTyped
  <2>5. u \in R /\ u \in Members /\ R = DOMAIN g.bests
    BY <2>1, <2>2, <2>4
  <2>6. /\ n \in 0..TriesBound
        /\ Unfailing /\ Best(u) # Nothing => n > 0
    <3>1. /\ Len(tries[u]) \in 0..TriesBound
          /\ Best(u) # Nothing => Len(tries[u]) > 0
      BY <1>1, <2>5, BestReached
    <3>2. setting.failures \in BOOLEAN
      BY <1>1 DEF Shaped
    <3> QED
      BY <2>1, <3>1, <3>2, ReportingAssumption DEF Unfailing
  <2>7. PICK l : l = [g EXCEPT !.counts[u] = n, !.todo = @ \ {u}]
    OBVIOUS
  <2>8. /\ l \in [bests : [R -> Result], counts : [R -> 0..TriesBound], todo : SUBSET R]
        /\ l.bests = g.bests /\ l.counts = [g.counts EXCEPT ![u] = n] /\ l.todo = g.todo \ {u}
    BY <2>4, <2>6, <2>7
  <2>9. ReportTyped("gradebook.counts", l)
    BY <2>8 DEF ReportTyped
  <2>10. ASSUME NEW v \in DOMAIN l.bests
         PROVE  /\ Reached(v, l.bests[v])
                /\ Unfailing /\ l.bests[v] # Nothing /\ v \notin l.todo => l.counts[v] > 0
    <3>1. /\ Reached(v, g.bests[v])
          /\ Unfailing /\ g.bests[v] # Nothing /\ v \notin g.todo => g.counts[v] > 0
      BY <2>3, <2>8, <2>10 DEF ReportBelow
    <3>2. CASE v = u
      BY <2>4, <2>5, <2>6, <2>8, <3>1, <3>2 DEF Reached
    <3>3. CASE v # u
      BY <2>4, <2>5, <2>8, <3>1, <3>3
    <3> QED
      BY <3>2, <3>3
  <2>11. Shaped' /\ Moved(w, "gradebook.counts", l)
    BY <1>1, <2>1, <2>2, <2>7, HoldMoves
  <2>12. ReportBelow("gradebook.counts", l)
    BY <2>10 DEF ReportBelow
  <2> QED
    BY <1>4, <2>9, <2>11, <2>12, ReportingReads DEF CountTries, ReportStill
<1> QED
  BY <1>2, <1>3, <1>4

\* Transcripts: the count first, then the best result.
LEMMA TranscriptSteps ==
    ASSUME ReportingInv, NEW w \in setting.workers,
           (\E u \in Members : BeginTranscript(w, u)) \/ ReadCount(w) \/ ReadTries(w)
    PROVE  ReportingInv'
<1>1. ReportingRows /\ Shaped /\ setting.failures \in BOOLEAN
  BY DEF ReportingInv, Shaped
<1>2. ASSUME NEW u \in Members, BeginTranscript(w, u) PROVE ReportingInv'
  <2>1. PICK l : l = [learner |-> u]
    OBVIOUS
  <2>2. Shaped' /\ Moved(w, "transcript.count", l)
    BY <1>1, <1>2, <2>1, HoldMoves DEF BeginTranscript
  <2>3. ReportTyped("transcript.count", l)
    BY <2>1 DEF ReportTyped
  <2> QED
    BY <1>2, <2>2, <2>3, ReportingReads DEF BeginTranscript, ReportBelow, ReportStill
<1>3. CASE ReadCount(w)
  <2>1. PICK u : u = loc[w].learner
    OBVIOUS
  <2>2. u \in Members
    BY <1>3, <2>1 DEF ReadCount, At, ReportingInv, ReportTyped
  <2>3. PICK n \in {Len(tries[u])} \cup (IF setting.failures THEN {0} ELSE {}) :
            Hold(w, "transcript.tries", [learner |-> u, count |-> n])
    BY <1>3, <2>1 DEF ReadCount
  <2>4. n \in 0..TriesBound /\ (Unfailing => n = Len(tries[u]))
    BY <1>1, <2>2, <2>3, BestReached, ReportingAssumption DEF Unfailing
  <2>5. PICK l : l = [learner |-> u, count |-> n]
    OBVIOUS
  <2>6. Shaped' /\ Moved(w, "transcript.tries", l)
    BY <1>1, <2>3, <2>5, HoldMoves
  <2>7. ReportTyped("transcript.tries", l)
    BY <2>2, <2>4, <2>5 DEF ReportTyped
  <2>8. ReportStill("transcript.tries", l)
    BY <2>4, <2>5 DEF ReportStill
  <2> QED
    BY <1>3, <2>6, <2>7, <2>8, ReportingReads DEF ReadCount, ReportBelow
<1>4. CASE ReadTries(w)
  <2>1. PICK g : g = loc[w]
    OBVIOUS
  <2>2. /\ g \in [learner : Members, count : 0..TriesBound]
        /\ Alone /\ Unfailing => g.count = Len(tries[g.learner])
    BY <1>4, <2>1 DEF ReadTries, At, ReportingInv, ReportTyped, ReportStill
  <2>3. PICK p \in {Best(g.learner)} \cup (IF setting.failures THEN {Nothing} ELSE {}) :
            Hold(w, "transcript.shown",
                 [learner |-> g.learner, count |-> g.count, best |-> p])
    BY <1>4, <2>1 DEF ReadTries
  <2>4. /\ p \in Result /\ Reached(g.learner, p)
        /\ p # Nothing => Len(tries[g.learner]) > 0
    <3>1. g.learner \in Members
      BY <2>2
    <3>2. CASE p = Best(g.learner)
      BY <1>1, <3>1, <3>2, BestReached
    <3>3. CASE p = Nothing
      BY <3>3 DEF Result, Reached
    <3> QED
      BY <1>1, <2>3, <3>2, <3>3
  <2>5. PICK l : l = [learner |-> g.learner, count |-> g.count, best |-> p]
    OBVIOUS
  <2>6. Shaped' /\ Moved(w, "transcript.shown", l)
    BY <1>1, <2>3, <2>5, HoldMoves
  <2>7. ReportTyped("transcript.shown", l)
    BY <2>2, <2>4, <2>5 DEF ReportTyped
  <2>8. ReportBelow("transcript.shown", l)
    BY <2>4, <2>5 DEF ReportBelow
  <2>9. Alone => ReportStill("transcript.shown", l)
    BY <2>2, <2>4, <2>5 DEF ReportStill
  <2> QED
    BY <1>4, <2>6, <2>7, <2>8, <2>9, ReportingReads DEF ReadTries
<1> QED
  BY <1>2, <1>3, <1>4

\* Every enrollment has one of three statuses.
LEMMA StatusesAddUp ==
    ASSUME ReportingRows
    PROVE  /\ ByStatus \in [SeatStatus -> Nat]
           /\ Cardinality(WithSeat(SeatStatus)) = SumByStatus(ByStatus)
           /\ Cardinality(WithSeat(SeatStatus)) \in 0..Cardinality(Members)
           /\ Cardinality(WithSeat({"active"})) \in 0..Cardinality(Members)
<1> DEFINE A == WithSeat({"active"})
           L == WithSeat({"waitlisted"})
           C == WithSeat({"cancelled"})
           S == WithSeat(SeatStatus)
<1>1. /\ S = (A \cup C) \cup L /\ A \cap C = {} /\ (A \cup C) \cap L = {}
      /\ S \in SUBSET Members /\ A \in SUBSET Members /\ L \in SUBSET Members
      /\ C \in SUBSET Members
  BY DEF WithSeat, SeatStatus
<1>2. /\ ByStatus["active"] = Cardinality(A)
      /\ ByStatus["waitlisted"] = Cardinality(L)
      /\ ByStatus["cancelled"] = Cardinality(C)
      /\ DOMAIN ByStatus = SeatStatus /\ ByStatus = [s \in SeatStatus |-> ByStatus[s]]
      /\ SeatStatus = {"active", "waitlisted", "cancelled"}
  BY DEF ByStatus, SeatStatus
<1> HIDE DEF A, L, C, S
<1>3. IsFiniteSet(A) /\ IsFiniteSet(L) /\ IsFiniteSet(C) /\ IsFiniteSet(S)
  BY <1>1, ReportingAssumption, FS_Subset
<1>4. /\ Cardinality(A) \in Nat /\ Cardinality(L) \in Nat /\ Cardinality(C) \in Nat
      /\ Cardinality(S) \in Nat /\ Cardinality(Members) \in Nat
  BY <1>3, ReportingAssumption, FS_CardinalityType
<1>5. Cardinality(S) <= Cardinality(Members) /\ Cardinality(A) <= Cardinality(Members)
  BY <1>1, ReportingAssumption, FS_Subset
<1>6. Cardinality({}) = 0
  BY FS_EmptySet
<1>7. IsFiniteSet(A \cup C) /\ Cardinality(A \cup C) = Cardinality(A) + Cardinality(C)
  <2>1. /\ IsFiniteSet(A \cup C)
        /\ Cardinality(A \cup C) = Cardinality(A) + Cardinality(C) - Cardinality(A \cap C)
    BY <1>3, FS_Union
  <2> QED
    BY <1>1, <1>4, <1>6, <2>1
<1>8. Cardinality(S) = Cardinality(A \cup C) + Cardinality(L)
  <2>1. Cardinality((A \cup C) \cup L) =
            Cardinality(A \cup C) + Cardinality(L) - Cardinality((A \cup C) \cap L)
    BY <1>3, <1>7, FS_Union
  <2> QED
    BY <1>1, <1>4, <1>6, <1>7, <2>1
<1>9. ByStatus \in [SeatStatus -> Nat]
  BY <1>2, <1>4
<1>10. Cardinality(S) = SumByStatus(ByStatus)
  BY <1>2, <1>4, <1>7, <1>8 DEF SumByStatus
<1> QED
  BY <1>4, <1>5, <1>9, <1>10 DEF S, A

\* A rate of no more completions than active learners is at most a hundred.
LEMMA RateWithin ==
    ASSUME NEW c \in Nat, NEW n \in Nat
    PROVE  /\ CompletionRate(c, n) \in Nat
           /\ c <= n => CompletionRate(c, n) <= 100
<1>1. CASE n = 0
  BY <1>1 DEF CompletionRate
<1>2. CASE n # 0
  <2>1. PICK x \in Nat : x = 200 * c + n
    OBVIOUS
  <2>2. PICK y \in Nat : y = 2 * n /\ y > 0
    BY <1>2
  <2>3. x \div y \in Nat
    BY <2>2, Quotient
  <2>4. CompletionRate(c, n) = x \div y
    BY <1>2, <2>1, <2>2 DEF CompletionRate
  <2>5. c <= n => x < 101 * y
    BY <1>2, <2>1, <2>2
  <2>6. x < 101 * y => x \div y <= 100
    <3>1. PICK q \in Nat : q = x \div y
      BY <2>3
    <3>2. q * y <= x
      BY <2>2, <3>1
    <3>3. q >= 101 => q * y >= 101 * y
      BY <2>2
    <3>4. q * y \in Nat /\ 101 * y \in Nat
      OBVIOUS
    <3> QED
      BY <3>1, <3>2, <3>3, <3>4
  <2> QED
    BY <2>3, <2>4, <2>5, <2>6
<1> QED
  BY <1>1, <1>2

\* The analytics: totals before their parts, active learners before completions.
LEMMA AnalyticsSteps ==
    ASSUME ReportingInv, NEW w \in setting.workers,
           BeginOverview(w) \/ ReadByStatus(w) \/ BeginAnalytics(w) \/ ReadCompletions(w)
    PROVE  ReportingInv'
<1>1. ReportingRows /\ Shaped
  BY DEF ReportingInv
<1>2. CASE BeginOverview(w)
  <2>1. PICK l : l = [total |-> Cardinality(WithSeat(SeatStatus))]
    OBVIOUS
  <2>2. Shaped' /\ Moved(w, "overview.status", l)
    BY <1>1, <1>2, <2>1, HoldMoves DEF BeginOverview
  <2>3. ReportTyped("overview.status", l)
    BY <1>1, <2>1, StatusesAddUp DEF ReportTyped
  <2>4. ReportBelow("overview.status", l)
    BY <1>1, <2>1, StatusesAddUp DEF ReportBelow
  <2> QED
    BY <1>2, <2>2, <2>3, <2>4, ReportingReads DEF BeginOverview, ReportStill
<1>3. CASE ReadByStatus(w)
  <2>1. PICK g : g = loc[w]
    OBVIOUS
  <2>2. /\ g \in [total : 0..Cardinality(Members)]
        /\ g.total <= Cardinality(WithSeat(SeatStatus))
    BY <1>3, <2>1 DEF ReadByStatus, At, ReportingInv, ReportTyped, ReportBelow
  <2>3. PICK l : l = [total |-> g.total, byStatus |-> ByStatus]
    OBVIOUS
  <2>4. Shaped' /\ Moved(w, "overview.shown", l)
    BY <1>1, <1>3, <2>1, <2>3, HoldMoves DEF ReadByStatus
  <2>5. ReportTyped("overview.shown", l)
    BY <1>1, <2>2, <2>3, StatusesAddUp DEF ReportTyped
  <2>6. ReportBelow("overview.shown", l)
    BY <1>1, <2>2, <2>3, StatusesAddUp DEF ReportBelow
  <2> QED
    BY <1>3, <2>4, <2>5, <2>6, ReportingReads DEF ReadByStatus, ReportStill
<1>4. CASE BeginAnalytics(w)
  <2>1. PICK l : l = [active |-> ByStatus["active"]]
    OBVIOUS
  <2>2. Shaped' /\ Moved(w, "analytics.completions", l)
    BY <1>1, <1>4, <2>1, HoldMoves DEF BeginAnalytics
  <2>3. l.active = Cardinality(WithSeat({"active"}))
    BY <2>1 DEF ByStatus, SeatStatus
  <2>4. ReportTyped("analytics.completions", l)
    BY <1>1, <2>1, <2>3, StatusesAddUp DEF ReportTyped
  <2>5. ReportStill("analytics.completions", l)
    BY <2>3 DEF ReportStill
  <2> QED
    BY <1>4, <2>2, <2>4, <2>5, ReportingReads DEF BeginAnalytics, ReportBelow
<1>5. CASE ReadCompletions(w)
  <2>1. PICK g : g = loc[w]
    OBVIOUS
  <2>2. /\ g \in [active : 0..Cardinality(Members)]
        /\ Alone => g.active = Cardinality(WithSeat({"active"}))
    BY <1>5, <2>1 DEF ReadCompletions, At, ReportingInv, ReportTyped, ReportStill
  <2>3. /\ IsFiniteSet(completers) /\ Cardinality(completers) \in Nat
        /\ Cardinality(Members) \in Nat
    BY <1>1, ReportingAssumption, FS_Subset, FS_CardinalityType DEF ReportingRows
  <2>4. g.active \in Nat
    BY <2>2, <2>3
  <2>5. PICK r : r = CompletionRate(Cardinality(completers), g.active)
    OBVIOUS
  <2>6. r \in Nat /\ (Cardinality(completers) <= g.active => r <= 100)
    BY <2>3, <2>4, <2>5, RateWithin
  <2>7. PICK l : l = [active |-> g.active, rate |-> r]
    OBVIOUS
  <2>8. Shaped' /\ Moved(w, "analytics.shown", l)
    BY <1>1, <1>5, <2>1, <2>5, <2>7, HoldMoves DEF ReadCompletions
  <2>9. ReportTyped("analytics.shown", l)
    BY <2>2, <2>6, <2>7 DEF ReportTyped
  <2>10. Alone => ReportStill("analytics.shown", l)
    <3>1. ASSUME Alone, completers \subseteq WithSeat({"active"})
          PROVE  Cardinality(completers) <= g.active
      <4>1. IsFiniteSet(WithSeat({"active"}))
        BY ReportingAssumption, FS_Subset DEF WithSeat
      <4> QED
        BY <2>2, <3>1, <4>1, FS_Subset
    <3> QED
      BY <2>6, <2>7, <3>1 DEF ReportStill
  <2> QED
    BY <1>5, <2>8, <2>9, <2>10, ReportingReads DEF ReadCompletions, ReportBelow
<1> QED
  BY <1>2, <1>3, <1>4, <1>5

LEMMA ReportingNextInv ==
    ASSUME ReportingInv, [ReportingNext]_reportingVars
    PROVE  ReportingInv'
<1>1. CASE UNCHANGED reportingVars
  <2>1. Shaped' /\ setting' = setting /\ pc' = pc /\ loc' = loc
    BY <1>1, StayShaped DEF ReportingInv, reportingVars
  <2>2. PICK w \in setting.workers : TRUE
    BY DEF ReportingInv, Shaped
  <2>3. PICK label, l : label = pc[w] /\ l = loc[w]
    OBVIOUS
  <2>4. Moved(w, label, l) /\ UNCHANGED reportingTables
    BY <1>1, <2>1, <2>3 DEF Moved, reportingVars
  <2>5. ReportTyped(label, l) /\ ReportBelow(label, l) /\ (Alone => ReportStill(label, l))
    BY <2>3 DEF ReportingInv
  <2> QED
    BY <2>1, <2>4, <2>5, ReportingReads
<1>2. CASE ReportingNext
  <2>1. PICK w \in setting.workers :
            ChangeReported(w) \/ BeginReport(w) \/ ReportStep(w) \/ AbortReporting(w)
    BY <1>2 DEF ReportingNext
  <2>2. CASE ChangeReported(w)
    BY <2>2, ReportedChanges
  <2>3. CASE BeginReport(w)
    BY <2>3, GradebookSteps, TranscriptSteps, AnalyticsSteps DEF BeginReport
  <2>4. CASE Finish(w) /\ UNCHANGED reportingTables
    <3>1. Shaped' /\ Moved(w, "idle", Nothing)
      BY <2>4, FinishMoves DEF ReportingInv
    <3> QED
      BY <2>4, <3>1, ReportingReads DEF ReportTyped, ReportBelow, ReportStill
  <2>5. CASE ReportStep(w)
    BY <2>4, <2>5, GradebookSteps, TranscriptSteps, AnalyticsSteps DEF ReportStep, Respond
  <2>6. CASE AbortReporting(w)
    BY <2>4, <2>6 DEF AbortReporting, Abort
  <2> QED
    BY <2>1, <2>2, <2>3, <2>5, <2>6
<1> QED
  BY <1>1, <1>2

LEMMA ReportingInvTypes == ReportingInv => ReportingTypeOK
<1> SUFFICES ASSUME ReportingInv PROVE ReportingTypeOK
  OBVIOUS
<1>1. ReportingRows
  BY DEF ReportingInv
<1>2. ASSUME NEW u \in Members, NEW k \in DOMAIN tries[u] PROVE tries[u][k] \in Result
  BY <1>1, <1>2, ElementOfSeq, LenProperties DEF ReportingRows
<1>3. ASSUME NEW w \in setting.workers
      PROVE
        \/ pc[w] = "idle" /\ loc[w] = Nothing
        \/ pc[w] = "gradebook.best" /\ loc[w].rows \subseteq Members
        \/ /\ pc[w] = "gradebook.counts"
           /\ loc[w].todo \subseteq DOMAIN loc[w].bests
           /\ loc[w].bests \in [DOMAIN loc[w].bests -> Result]
           /\ loc[w].counts \in [DOMAIN loc[w].bests -> 0..TriesBound]
        \/ pc[w] = "transcript.count" /\ loc[w].learner \in Members
        \/ /\ pc[w] = "transcript.tries"
           /\ loc[w] \in [learner : Members, count : 0..TriesBound]
        \/ /\ pc[w] = "transcript.shown"
           /\ loc[w] \in [learner : Members, count : 0..TriesBound, best : Result]
        \/ pc[w] = "overview.status" /\ loc[w].total \in 0..Cardinality(Members)
        \/ pc[w] = "overview.shown" /\ loc[w].total \in 0..Cardinality(Members)
        \/ pc[w] = "analytics.completions" /\ loc[w].active \in 0..Cardinality(Members)
        \/ pc[w] = "analytics.shown" /\ loc[w].rate \in Nat
  <2>1. PICK label, l : label = pc[w] /\ l = loc[w]
    OBVIOUS
  <2>2. ReportTyped(label, l)
    BY <2>1 DEF ReportingInv
  <2> QED
    BY <2>1, <2>2 DEF ReportTyped
<1> QED
  BY <1>1, <1>2, <1>3 DEF ReportingTypeOK, ReportingRows

LEMMA ReportingInvSound == ReportingInv => ReportsCoherent
<1> SUFFICES ASSUME ReportingInv PROVE ReportsCoherent
  OBVIOUS
<1>1. ASSUME NEW w \in setting.workers
      PROVE
        /\ pc[w] = "gradebook.counts" =>
            \A u \in {v \in DOMAIN loc[w].bests \ loc[w].todo : loc[w].bests[v] # Nothing} :
                loc[w].bests[u] <= Best(u) /\ (Unfailing => loc[w].counts[u] > 0)
        /\ pc[w] = "transcript.shown" /\ loc[w].best # Nothing =>
            loc[w].best <= Best(loc[w].learner) /\ (Calm => loc[w].count > 0)
        /\ pc[w] = "overview.shown" => loc[w].total <= SumByStatus(loc[w].byStatus)
        /\ pc[w] = "analytics.shown" /\ Alone /\ loc[w].rate > 100 =>
            ~(completers \subseteq WithSeat({"active"}))
  <2>1. ReportBelow(pc[w], loc[w]) /\ (Alone => ReportStill(pc[w], loc[w]))
    BY DEF ReportingInv
  <2> QED
    BY <2>1 DEF ReportBelow, ReportStill, Reached, Calm
<1>2. ASSUME NEW from \in 0..3 \cup {Nothing}, NEW to \in 0..3 \cup {Nothing}
      PROVE  LET bounds == ReportBounds(from, to, 2) IN bounds.from < bounds.to
  BY DEF ReportBounds
<1> QED
  BY <1>1, <1>2 DEF ReportsCoherent

\* Reports are put together from several SELECTs (assessment.go:686, certificate.go:262,
\* analytics.go:22, :139): for any number of learners, attempts and requests, whatever
\* is written in between, no result is better than the learner's best, one shown
\* without errors comes with attempts, totals do not exceed their parts, and alone a
\* completion rate over 100 takes a learner who completed and is not active.
THEOREM ReportingTheorem == ReportingSpec => []ReportsCoherent
<1>1. ReportingInv /\ [ReportingNext]_reportingVars => ReportingInv'
  BY ReportingNextInv
<1> QED
  BY <1>1, ReportingInitInv, ReportingInvSound, PTL DEF ReportingSpec

-------------------------------------------------------------------------------
(* The areas of a course together                                          *)

\* The component that gets requests keeps its invariant.
AreaInv ==
    /\ area = "learning"      => LearningInv
    /\ area = "curriculum"    => CurriculumInv
    /\ area = "announcements" => NoticesInv /\ TextsInv
    /\ area = "discussions"   => RepliesInv
    /\ area = "catalog"       => CatalogInv
    /\ area = "coursework"    => CourseworkInv
    /\ area = "reporting"     => ReportingInv
    /\ area = "viewing"       => ViewingInv

\* There is no other component; no request runs in one.
OneArea ==
    area \in {"learning", "curriculum", "announcements", "discussions", "catalog",
              "coursework", "reporting", "viewing"}
    \/ \A w \in setting.workers : pc[w] = "idle"

LEMMA AreasInitInv == AreasInit => AreaInv /\ OneArea
<1> SUFFICES ASSUME AreasInit PROVE AreaInv /\ OneArea
  OBVIOUS
<1>1. /\ LearningInv /\ CurriculumInv /\ NoticesInv /\ TextsInv /\ RepliesInv
      /\ CatalogInv /\ CourseworkInv /\ ReportingInv /\ ViewingInv
  BY LearningInitInv, CurriculumInitInv, NoticesInitInv, TextsInitInv, RepliesInitInv,
     CatalogInitInv, CourseworkInitInv, ReportingInitInv, ViewingInitInv DEF AreasInit
<1>2. OneArea
  BY DEF AreasInit, LearningInit, RequestsInit, OneArea
<1> QED
  BY <1>1, <1>2 DEF AreaInv

LEMMA AreasNextInv ==
    ASSUME AreaInv, OneArea, [AreasNext]_areasVars
    PROVE  AreaInv' /\ OneArea'
<1>1. area' = area
  BY DEF AreasNext, areasVars
<1>2. ASSUME area = "learning" PROVE LearningInv'
  <2>1. LearningInv /\ [LearningNext]_learningVars
    BY <1>2 DEF AreaInv, AreasNext, areasVars, courseTables, learningVars
  <2> QED
    BY <2>1, LearningNextInv
<1>3. ASSUME area = "curriculum" PROVE CurriculumInv'
  <2>1. CurriculumInv /\ [CurriculumNext]_curriculumVars
    BY <1>3 DEF AreaInv, AreasNext, areasVars, courseTables, curriculumVars
  <2> QED
    BY <2>1, CurriculumNextInv
<1>4. ASSUME area = "announcements" PROVE NoticesInv' /\ TextsInv'
  <2>1. NoticesInv /\ TextsInv /\ [AnnouncementsNext]_announcementVars
    BY <1>4 DEF AreaInv, AreasNext, areasVars, courseTables, announcementVars
  <2>2. Shaped
    BY <2>1 DEF NoticesInv
  <2> QED
    BY <2>1, <2>2, NoticesNext, TextsNextInv
<1>5. ASSUME area = "discussions" PROVE RepliesInv'
  <2>1. RepliesInv /\ [DiscussionsNext]_discussionVars
    BY <1>5 DEF AreaInv, AreasNext, areasVars, courseTables, discussionVars
  <2> QED
    BY <2>1, RepliesNextInv
<1>6. ASSUME area = "catalog" PROVE CatalogInv'
  <2>1. CatalogInv /\ [CatalogNext]_catalogVars
    BY <1>6 DEF AreaInv, AreasNext, areasVars, otherTables, catalogVars
  <2> QED
    BY <2>1, CatalogNextInv
<1>7. ASSUME area = "coursework" PROVE CourseworkInv'
  <2>1. CourseworkInv /\ [CourseworkNext]_courseworkVars
    BY <1>7 DEF AreaInv, AreasNext, areasVars, otherTables, courseworkVars
  <2> QED
    BY <2>1, CourseworkNextInv
<1>8. ASSUME area = "reporting" PROVE ReportingInv'
  <2>1. ReportingInv /\ [ReportingNext]_reportingVars
    BY <1>8 DEF AreaInv, AreasNext, areasVars, otherTables, reportingVars
  <2> QED
    BY <2>1, ReportingNextInv
<1>9. ASSUME area = "viewing" PROVE ViewingInv'
  <2>1. ViewingInv /\ [ViewingNext]_viewingVars
    BY <1>9 DEF AreaInv, AreasNext, areasVars, viewTables, viewingVars
  <2> QED
    BY <2>1, ViewingNextInv
<1>10. AreaInv'
  BY <1>1, <1>2, <1>3, <1>4, <1>5, <1>6, <1>7, <1>8, <1>9 DEF AreaInv
<1>11. OneArea'
  BY <1>1 DEF OneArea, AreasNext, areasVars, requests
<1> QED
  BY <1>10, <1>11

LEMMA AreasAlways == AreasSpec => [](AreaInv /\ OneArea)
BY AreasInitInv, AreasNextInv, PTL DEF AreasSpec

LEMMA AreaInvTypes == AreaInv => AreasTypeOK
<1>1. CurriculumInv => CurriculumTypeOK
  BY DEF CurriculumInv
<1> QED
  BY <1>1, LearningInvTypes, TextsInvTypes, RepliesInvTypes, CatalogInvTypes,
     CourseworkInvTypes, ReportingInvTypes, ViewingInvTypes DEF AreaInv, AreasTypeOK

\* Whichever part of a course gets requests, however many at a time and whether they
\* fail or not, every row keeps its columns' types and every goroutine holds what its
\* next statement needs.
THEOREM AreasTypes == AreasSpec => []AreasTypeOK
BY AreasAlways, AreaInvTypes, PTL

\* Where nothing is reported or shown there is nothing to hold together.
LEMMA NoAnswers ==
    ASSUME AreaInv, OneArea, NEW w \in setting.workers
    PROVE  /\ area # "reporting" =>
                pc[w] \notin {"gradebook.counts", "transcript.shown", "overview.shown",
                              "analytics.shown"}
           /\ area # "viewing" => pc[w] \notin {"tree.lessons", "tree.blocks", "quiz.shown"}
<1>1. AreasTypeOK
  BY AreaInvTypes
<1>2. CASE area = "learning"
  BY <1>1, <1>2 DEF AreasTypeOK, LearningTypeOK
<1>3. CASE area = "curriculum"
  BY <1>1, <1>3 DEF AreasTypeOK, CurriculumTypeOK
<1>4. CASE area = "announcements"
  BY <1>1, <1>4 DEF AreasTypeOK, AnnouncementsTypeOK
<1>5. CASE area = "discussions"
  BY <1>1, <1>5 DEF AreasTypeOK, DiscussionsTypeOK
<1>6. CASE area = "catalog"
  BY <1>1, <1>6 DEF AreasTypeOK, CatalogTypeOK
<1>7. CASE area = "coursework"
  BY <1>1, <1>7 DEF AreasTypeOK, CourseworkTypeOK
<1>8. CASE area = "reporting"
  BY <1>1, <1>8 DEF AreasTypeOK, ReportingTypeOK
<1>9. CASE area = "viewing"
  BY <1>1, <1>9 DEF AreasTypeOK, ViewingTypeOK
<1>10. CASE \A v \in setting.workers : pc[v] = "idle"
  BY <1>10
<1> QED
  BY <1>2, <1>3, <1>4, <1>5, <1>6, <1>7, <1>8, <1>9, <1>10 DEF OneArea

\* What is put together from several SELECTs holds together (certificate.go:267,
\* curriculum.go:61), for any number of learners, attempts, modules and requests:
\* ReportsCoherent and ContentShown in one system.
THEOREM AnswersTheorem == AreasSpec => []AnswersCoherent
<1>1. ASSUME AreaInv, OneArea PROVE ReportsCoherent
  <2>1. CASE area = "reporting"
    BY <1>1, <2>1, ReportingInvSound DEF AreaInv
  <2>2. CASE area # "reporting"
    <3>1. \A w \in setting.workers :
              pc[w] \notin {"gradebook.counts", "transcript.shown", "overview.shown",
                            "analytics.shown"}
      BY <1>1, <2>2, NoAnswers
    <3>2. ASSUME NEW from \in 0..3 \cup {Nothing}, NEW to \in 0..3 \cup {Nothing}
          PROVE  LET bounds == ReportBounds(from, to, 2) IN bounds.from < bounds.to
      BY DEF ReportBounds
    <3> QED
      BY <3>1, <3>2 DEF ReportsCoherent
  <2> QED
    BY <2>1, <2>2
<1>2. ASSUME AreaInv, OneArea PROVE ContentShown
  <2>1. CASE area = "viewing"
    BY <1>2, <2>1, ViewingInvSound DEF AreaInv
  <2>2. CASE area # "viewing"
    <3>1. \A w \in setting.workers : pc[w] \notin {"tree.lessons", "tree.blocks", "quiz.shown"}
      BY <1>2, <2>2, NoAnswers
    <3>2. \A reader \in Readers : OpensQuiz(reader) <=> ListsQuiz(reader)
      BY DEF OpensQuiz, ListsQuiz, CanAccessContent
    <3> QED
      BY <3>1, <3>2 DEF ContentShown
  <2> QED
    BY <2>1, <2>2
<1>3. AreaInv /\ OneArea => AnswersCoherent
  BY <1>1, <1>2 DEF AnswersCoherent
<1> QED
  BY <1>3, AreasAlways, PTL
===============================================================================
