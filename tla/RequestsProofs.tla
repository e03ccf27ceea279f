---------------------------- MODULE RequestsProofs ----------------------------
(***************************************************************************)
(* What the proofs about every component need to know of how requests run: *)
(* a statement moves one worker and leaves the others where they are.      *)
(***************************************************************************)
EXTENDS Requests, FiniteSetTheorems, WellFoundedInduction, TLAPS

\* The setting is one of those that are assumed about; every worker is somewhere.
Shaped ==
    /\ IsFiniteSet(setting.workers) /\ setting.workers # {}
    /\ setting.failures \in BOOLEAN
    /\ pc = [w \in setting.workers |-> pc[w]]
    /\ loc = [w \in setting.workers |-> loc[w]]

\* Worker w goes to label with l; the setting and the other workers stay.
Moved(w, label, l) ==
    /\ setting' = setting
    /\ pc'[w] = label /\ loc'[w] = l
    /\ \A v \in setting.workers \ {w} : pc'[v] = pc[v] /\ loc'[v] = loc[v]

LEMMA ShapedInit == RequestsInit => Shaped
BY SettingsAssumption DEF RequestsInit, Shaped

\* Every way a request goes on or ends is a move of its worker.
LEMMA HoldMoves ==
    ASSUME Shaped, NEW w \in setting.workers, NEW label, NEW l, Hold(w, label, l)
    PROVE  Shaped' /\ Moved(w, label, l)
BY DEF Shaped, Hold, Moved

LEMMA GotoMoves ==
    ASSUME Shaped, NEW w \in setting.workers, NEW label, Goto(w, label)
    PROVE  Shaped' /\ Moved(w, label, loc[w])
BY HoldMoves DEF Goto

LEMMA FinishMoves ==
    ASSUME Shaped, NEW w \in setting.workers, Finish(w)
    PROVE  Shaped' /\ Moved(w, "idle", Nothing)
BY HoldMoves DEF Finish

\* What happens outside requests leaves the workers alone.
LEMMA StayShaped ==
    ASSUME Shaped, UNCHANGED requests
    PROVE  /\ Shaped'
           /\ setting' = setting /\ pc' = pc /\ loc' = loc
BY DEF Shaped, requests

\* A request of a single statement leaves its worker where it is.
LEMMA AtOnceMoves ==
    ASSUME Shaped, NEW w \in setting.workers, AtOnce(w)
    PROVE  Shaped' /\ Moved(w, "idle", loc[w]) /\ pc[w] = "idle"
BY StayShaped DEF AtOnce, Idle, Moved

\* When requests run one at a time there is one worker.
LEMMA AloneOne ==
    ASSUME Shaped, Alone, NEW v \in setting.workers, NEW w \in setting.workers
    PROVE  v = w
<1>1. IsFiniteSet(setting.workers) /\ Cardinality(setting.workers) = 1
  BY DEF Shaped, Alone
<1>2. Cardinality(setting.workers \ {w}) = 0 /\ IsFiniteSet(setting.workers \ {w})
  BY <1>1, FS_RemoveElement
<1>3. setting.workers \ {w} = {}
  BY <1>2, FS_EmptySet
<1> QED
  BY <1>3

\* Counting workers: the numbers the arguments below compare.
LEMMA WorkersCount ==
    ASSUME Shaped, NEW S \in SUBSET setting.workers
    PROVE  /\ IsFiniteSet(S)
           /\ Cardinality(S) \in Nat /\ Cardinality(setting.workers) \in Nat
           /\ Cardinality(S) <= Cardinality(setting.workers)
           /\ \A w \in setting.workers \ S :
                 /\ Cardinality(S \cup {w}) = Cardinality(S) + 1
                 /\ Cardinality(S) + 1 <= Cardinality(setting.workers)
           /\ \A w \in S : Cardinality(S \ {w}) = Cardinality(S) - 1
<1>1. IsFiniteSet(S)
  BY FS_Subset DEF Shaped
<1>2. Cardinality(S) <= Cardinality(setting.workers)
  BY FS_Subset DEF Shaped
<1>3. Cardinality(S) \in Nat /\ Cardinality(setting.workers) \in Nat
  BY <1>1, FS_CardinalityType DEF Shaped
<1>4. ASSUME NEW w \in setting.workers \ S
      PROVE  /\ Cardinality(S \cup {w}) = Cardinality(S) + 1
             /\ Cardinality(S \cup {w}) <= Cardinality(setting.workers)
  <2>1. Cardinality(S \cup {w}) = Cardinality(S) + 1
    BY <1>1, FS_AddElement
  <2>2. S \cup {w} \in SUBSET setting.workers
    OBVIOUS
  <2>3. Cardinality(S \cup {w}) <= Cardinality(setting.workers)
    BY <2>2, FS_Subset DEF Shaped
  <2> QED
    BY <2>1, <2>3
<1>5. ASSUME NEW w \in S PROVE Cardinality(S \ {w}) = Cardinality(S) - 1
  BY <1>1, FS_RemoveElement
<1> QED
  BY <1>1, <1>2, <1>3, <1>4, <1>5

\* Two groups without a member in common are together no more than all workers.
LEMMA TwoGroups ==
    ASSUME Shaped, NEW S \in SUBSET setting.workers, NEW T \in SUBSET setting.workers,
           S \cap T = {}
    PROVE  Cardinality(S) + Cardinality(T) <= Cardinality(setting.workers)
<1>1. IsFiniteSet(S) /\ IsFiniteSet(T)
  BY WorkersCount
<1>2. Cardinality(S \cup T) = Cardinality(S) + Cardinality(T) - Cardinality(S \cap T)
  BY <1>1, FS_Union
<1>3. Cardinality(S \cap T) = 0
  BY FS_EmptySet
<1>4. Cardinality(S) \in Nat /\ Cardinality(T) \in Nat
  BY WorkersCount
<1>5. S \cup T \in SUBSET setting.workers
  OBVIOUS
<1>6. Cardinality(S \cup T) <= Cardinality(setting.workers)
  BY <1>5, WorkersCount
<1> QED
  BY <1>2, <1>3, <1>4, <1>6

\* A set of numbers has a least one.
LEMMA LeastNumber ==
    ASSUME NEW T \in SUBSET Nat, T # {}
    PROVE  \E n \in T : \A m \in T : n <= m
<1>1. PICK n \in T : \A m \in T : <<m, n>> \notin OpToRel(<, Nat)
  BY WFMin, NatLessThanWellFounded, Zenon
<1>2. \A m \in T : ~ (m < n)
  BY <1>1, Zenon DEF OpToRel
<1>3. ASSUME NEW m \in T PROVE n <= m
  BY <1>2
<1> QED
  BY <1>3
===============================================================================
