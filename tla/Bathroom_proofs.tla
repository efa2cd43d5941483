---- MODULE Bathroom_proofs ----
(***************************************************************************)
(* The bathroom of SP/task5 for every number of threads and every limit.   *)
(* The inductive invariant ties the three shared things together: the      *)
(* state names the gender of everyone inside, the counter counts them, and *)
(* main's index says which threads are born or joined.                     *)
(***************************************************************************)
EXTENDS Bathroom, FiniteSetTheorems, TLAPS

(* The place of a thread in the order main creates them.                   *)
Order(t) == IF t < TestNumber THEN 2 * t ELSE 2 * (t - TestNumber) + 1

(* Everyone inside claimed the room as what it is. *)
Claimed == \A t \in Inside : cur_state = Only(t)

(* A thread is created once, and none lives after main gave up. *)
Progress ==
    /\ mpc = "create" => \A t \in Threads : Order(t) >= i => pc[t] = "unborn"
    /\ mpc = "join" => \A t \in Threads : t < i => pc[t] = "left"
    /\ mpc = "exit0" => \A t \in Threads : pc[t] = "left"
    /\ mpc = "exit1" => \A t \in Threads : pc[t] \notin {"enter", "inside"}

IInv == TypeOK /\ Claimed /\ Counted /\ Progress

(* The threads inside are finitely many, so that their number can be counted. *)
LEMMA InsideFinite == IsFiniteSet(Inside)
<1>1. IsFiniteSet(Threads)
  BY BathroomAssumption, FS_Interval DEF Threads
<1>2. Inside \subseteq Threads
  BY DEF Inside
<1> QED BY <1>1, <1>2, FS_Subset

(* The initial state. *)
LEMMA InitIInv == Init => IInv
<1> SUFFICES ASSUME Init PROVE IInv
  OBVIOUS
<1>1. Inside = {}
  BY DEF Init, Inside
<1>2. Cardinality(Inside) = 0
  BY <1>1, FS_EmptySet
<1>3. TypeOK
  BY BathroomAssumption DEF Init, TypeOK
<1>4. Claimed
  BY <1>1 DEF Claimed
<1>5. Counted
  BY <1>2 DEF Counted, Init
<1>6. Progress
  BY DEF Init, Progress
<1> QED BY <1>3, <1>4, <1>5, <1>6 DEF IInv

(* No step of a thread or of main breaks it. *)
LEMMA NextIInv == IInv /\ [Next]_vars => IInv'
<1> SUFFICES ASSUME IInv, [Next]_vars PROVE IInv'
  OBVIOUS
<1> USE DEF IInv
<1>1. ASSUME NEW t \in Threads, Enter(t) PROVE IInv'
  <2>1. t \notin Inside /\ Inside' = Inside \cup {t}
    BY <1>1 DEF Enter, Inside, TypeOK
  <2>2. Cardinality(Inside') = Cardinality(Inside) + 1 /\ Cardinality(Inside) \in Nat
    BY <2>1, InsideFinite, FS_AddElement, FS_CardinalityType
  <2>3. TypeOK'
    BY <1>1 DEF Enter, TypeOK, Only
  <2>4. Claimed'
    BY <1>1, <2>1 DEF Enter, Claimed, Only, EMPTY, MAN_ONLY, WOMAN_ONLY, Inside, TypeOK, Counted
  <2>5. Counted'
    BY <1>1, <2>2, BathroomAssumption DEF Enter, Counted, TypeOK
  <2>6. Progress'
    BY <1>1 DEF Enter, Progress, TypeOK
  <2> QED BY <2>3, <2>4, <2>5, <2>6
<1>2. ASSUME NEW t \in Threads, ClaimOnly(t) PROVE IInv'
  <2>1. Inside' = Inside
    BY <1>2 DEF ClaimOnly, Inside
  <2>2. TypeOK'
    BY <1>2 DEF ClaimOnly, TypeOK, Only
  <2>3. Claimed'
    BY <1>2, <2>1 DEF ClaimOnly, Claimed, Only, EMPTY, MAN_ONLY, WOMAN_ONLY, Inside
  <2>4. Counted' /\ Progress'
    BY <1>2, <2>1 DEF ClaimOnly, Counted, Progress
  <2> QED BY <2>2, <2>3, <2>4
<1>3. ASSUME NEW t \in Threads, Leave(t) PROVE IInv'
  <2>1. t \in Inside /\ Inside' = Inside \ {t}
    BY <1>3 DEF Leave, Inside, TypeOK
  <2>2. /\ Cardinality(Inside') = Cardinality(Inside) - 1
        /\ Cardinality(Inside) \in Nat
        /\ IsFiniteSet(Inside')
    BY <2>1, InsideFinite, FS_RemoveElement, FS_CardinalityType
  <2>3. current_number = Cardinality(Inside)
    BY <1>3 DEF Leave, Counted, Progress
  <2>4. TypeOK'
    BY <1>3 DEF Leave, TypeOK
  <2>5. Claimed'
    <3>1. current_number' = 0 => Inside' = {}
      BY <1>3, <2>2, <2>3, FS_EmptySet DEF Leave
    <3> QED BY <1>3, <2>1, <3>1 DEF Leave, Claimed, Only
  <2>6. Counted'
    BY <1>3, <2>2, <2>3, BathroomAssumption DEF Leave, Counted, TypeOK
  <2>7. Progress'
    BY <1>3 DEF Leave, Progress, TypeOK
  <2> QED BY <2>4, <2>5, <2>6, <2>7
<1>4. CASE Create
  <2>1. Created \in Threads /\ Order(Created) = i
    BY <1>4, BathroomAssumption DEF Create, Created, Threads, Order, TypeOK
  <2>2. pc[Created] = "unborn"
    BY <1>4, <2>1 DEF Create, Progress, TypeOK
  <2>3. Inside' = Inside
    BY <1>4, <2>1, <2>2 DEF Create, Inside, TypeOK
  <2>4. TypeOK'
    <3>1. i' \in 0..(2 * TestNumber)
      BY <1>4, BathroomAssumption DEF Create, TypeOK
    <3>2. pc' \in [Threads -> {"unborn", "enter", "inside", "left", "dead"}]
      BY <1>4 DEF Create, TypeOK
    <3> QED BY <1>4, <3>1, <3>2 DEF Create, TypeOK
  <2>5. Claimed' /\ Counted'
    BY <1>4, <2>3 DEF Create, Claimed, Counted, Only, Gender
  <2>6. \A t \in Threads : Order(t) >= i + 1 => t # Created /\ Order(t) >= i
    BY <2>1, BathroomAssumption DEF Order, Threads, TypeOK
  <2>7. Progress'
    BY <1>4, <2>6 DEF Create, Progress, TypeOK, Order
  <2> QED BY <2>4, <2>5, <2>7
<1>5. CASE CreateFails
  <2>1. Inside' = {}
    BY <1>5 DEF CreateFails, Inside, TypeOK
  <2>2. TypeOK'
    BY <1>5 DEF CreateFails, TypeOK
  <2>3. Claimed' /\ Counted' /\ Progress'
    BY <1>5, <2>1 DEF CreateFails, Claimed, Counted, Progress, TypeOK
  <2> QED BY <2>2, <2>3
<1>6. CASE AllCreated
  <2>1. Inside' = Inside
    BY <1>6 DEF AllCreated, Inside
  <2>2. TypeOK'
    BY <1>6, BathroomAssumption DEF AllCreated, TypeOK
  <2>3. Claimed' /\ Counted' /\ Progress'
    BY <1>6, <2>1 DEF AllCreated, Claimed, Counted, Progress, Threads, Only, Gender
  <2> QED BY <2>2, <2>3
<1>7. CASE Join
  <2>1. Inside' = Inside
    BY <1>7 DEF Join, Inside
  <2>2. TypeOK'
    BY <1>7, BathroomAssumption DEF Join, TypeOK
  <2>3. Claimed' /\ Counted'
    BY <1>7, <2>1 DEF Join, Claimed, Counted, Only, Gender
  <2>4. Progress'
    <3>1. \A t \in Threads : t < i + 1 => t < i \/ t = i
      BY BathroomAssumption DEF Threads, TypeOK
    <3> QED BY <1>7, <3>1 DEF Join, Progress
  <2> QED BY <2>2, <2>3, <2>4
<1>8. CASE Exit
  <2>1. Inside' = Inside
    BY <1>8 DEF Exit, Inside
  <2>2. TypeOK'
    BY <1>8 DEF Exit, TypeOK
  <2>3. Claimed' /\ Counted'
    BY <1>8, <2>1 DEF Exit, Claimed, Counted, Only, Gender
  <2>4. Progress'
    <3>1. \A t \in Threads : t < i
      BY <1>8, BathroomAssumption DEF Exit, Threads
    <3> QED BY <1>8, <3>1 DEF Exit, Progress
  <2> QED BY <2>2, <2>3, <2>4
<1>9. CASE UNCHANGED vars
  BY <1>9 DEF vars, TypeOK, Claimed, Counted, Progress, Inside, Only, Gender
<1> QED
  BY <1>1, <1>2, <1>3, <1>4, <1>5, <1>6, <1>7, <1>8, <1>9
  DEF Next, MainStep, ThreadStep, KeepPolling

(* The invariant holds in every behaviour of task5. *)
THEOREM Invariance == Spec => []IInv
<1> QED BY InitIInv, NextIInv, PTL DEF Spec

(* The shared variables and the threads keep their types. *)
THEOREM TypeCorrect == Spec => []TypeOK
<1>1. IInv => TypeOK
  BY DEF IInv
<1> QED BY <1>1, Invariance, PTL

(* Men and women are never inside together, whatever the scheduler does    *)
(* between the polls of woman_wants_to_enter and man_wants_to_enter.       *)
THEOREM OneGenderAlways == Spec => []OneGender
<1>1. IInv => OneGender
  BY DEF IInv, Claimed, OneGender, Only, MAN_ONLY, WOMAN_ONLY, Inside, Gender
<1> QED BY <1>1, Invariance, PTL

(* The counter is exact and never above the limit. *)
THEOREM CountedAlways == Spec => []Counted
<1>1. IInv => Counted
  BY DEF IInv
<1> QED BY <1>1, Invariance, PTL

(* main returns 0 only from an empty room that everyone has left. *)
THEOREM JoinedAllAlways == Spec => []JoinedAll
<1>1. IInv => JoinedAll
  <2> SUFFICES ASSUME IInv, mpc = "exit0"
               PROVE  current_number = 0 /\ \A t \in Threads : pc[t] = "left"
    BY DEF JoinedAll
  <2>1. \A t \in Threads : pc[t] = "left"
    BY DEF IInv, Progress
  <2>2. Inside = {}
    BY <2>1 DEF Inside
  <2> QED BY <2>1, <2>2, FS_EmptySet DEF IInv, Counted
<1> QED BY <1>1, Invariance, PTL
====
