---- MODULE Philosophers_proofs ----
(***************************************************************************)
(* The philosophers of SP/task3 for every number of philosophers, places,  *)
(* rounds and faults.  The inductive invariant says what the semaphores    *)
(* count (a fork that is held is zero, the places taken and the places     *)
(* left are at most Room), how many rounds a process has eaten, and what   *)
(* the parent has achieved by each point of its own program.               *)
(***************************************************************************)
EXTENDS Philosophers, FiniteSetTheorems, TLAPS

(* A fork that is held was taken from its semaphore, by one philosopher. *)
ForkCount ==
    /\ \A f \in Forks : fork[f] \in 0..1
    /\ \A p \in Phil, f \in Forks : Holds(p, f) => fork[f] = 0
    /\ ForksExclusive

(* Who is at the table took a place of semaphore 0. *)
RoomCount == room \in Nat /\ Cardinality(InRoom) + room <= Room

(* A process exits with 0 after its last round, and not before. *)
RoundCount ==
    \A p \in Phil :
        /\ pc[p] = "exit0" => round[p] = Rounds
        /\ pc[p] \notin Stopped => round[p] < Rounds

(* What the parent knows at each point of its program. *)
ParentOK ==
    /\ ppc \in {"forking", "aborting"} => \A p \in Phil : p >= child => pc[p] = "unborn"
    /\ ppc = "aborting" => victim <= child
    /\ ppc \in {"waiting", "killing"} => \A p \in Phil : p < child => pc[p] \in Stopped
    /\ ppc = "killing" => pc[child] \in Stopped /\ ~ exists
    /\ ppc = "removing" => \A p \in Phil : pc[p] \in Stopped
    /\ ppc = "exit0" => \A p \in Phil : pc[p] = "exit0"
    /\ ppc \in {"abortRemove", "exit1"} => \A p \in Phil : ~ Running(p)
    /\ ParentGone => ~ exists
    /\ exists /\ ppc \notin {"aborting", "abortRemove"} =>
          \A p \in Phil : pc[p] \notin {"exit1", "killed"}

IInv == TypeOK /\ ForkCount /\ RoomCount /\ RoundCount /\ ParentOK

(* The two forks of a philosopher are different ones. *)
LEMMA TwoForks ==
    ASSUME NEW p \in Phil
    PROVE  Left(p) \in Forks /\ Right(p) \in Forks /\ Left(p) # Right(p)
BY PhilosophersAssumption DEF Phil, Forks, Left, Right

(* The philosophers at the table are finitely many. *)
LEMMA RoomFinite == IsFiniteSet(InRoom)
<1>1. IsFiniteSet(Phil)
  BY PhilosophersAssumption, FS_Interval DEF Phil
<1>2. InRoom \subseteq Phil
  BY DEF InRoom
<1> QED BY <1>1, <1>2, FS_Subset

(* What the semaphores count stays right when processes come to hold less, *)
(* as the ones that fail or are killed do.                                 *)
LEMMA HoldingLess ==
    ASSUME ForkCount, RoomCount, room' = room, fork' = fork, InRoom' \subseteq InRoom,
           \A p \in Phil, f \in Forks : Holds(p, f)' => Holds(p, f)
    PROVE  ForkCount' /\ RoomCount'
<1>1. ForkCount'
  BY DEF ForkCount, ForksExclusive
<1>2. /\ Cardinality(InRoom') <= Cardinality(InRoom)
      /\ Cardinality(InRoom') \in Nat /\ Cardinality(InRoom) \in Nat
  BY RoomFinite, FS_Subset, FS_CardinalityType
<1>3. RoomCount'
  BY <1>2, PhilosophersAssumption DEF RoomCount
<1> QED BY <1>1, <1>3

(* The initial state: nobody is born and every semaphore is full. *)
LEMMA InitIInv == Init => IInv
<1> SUFFICES ASSUME Init PROVE IInv
  OBVIOUS
<1>1. \A p \in Phil : pc[p] = "unborn" /\ ~ HoldsLeft(p) /\ ~ HoldsRight(p)
  BY DEF Init, HoldsLeft, HoldsRight
<1>2. InRoom = {}
  BY <1>1 DEF InRoom
<1>3. TypeOK
  <2>1. 1 \in Phil /\ 0 \in 0..Rounds /\ 0 \in 0..MaxFaults /\ Room \in Int
    BY PhilosophersAssumption DEF Phil
  <2>2. /\ fork \in [Forks -> Int]
        /\ pc \in [Phil -> PhilStates]
        /\ round \in [Phil -> 0..Rounds]
    BY <2>1 DEF Init, PhilStates
  <2> QED BY <2>1, <2>2 DEF Init, TypeOK, Table
<1>4. ForkCount
  BY <1>1, PhilosophersAssumption DEF ForkCount, ForksExclusive, Holds, Init
<1>5. RoomCount
  BY <1>2, FS_EmptySet, PhilosophersAssumption DEF RoomCount, Init, Table
<1>6. RoundCount
  BY <1>1, PhilosophersAssumption DEF RoundCount, Init, Stopped
<1>7. ParentOK
  BY <1>1 DEF ParentOK, Init, ParentGone
<1> QED BY <1>3, <1>4, <1>5, <1>6, <1>7 DEF IInv

(* A process that goes on leaves what the parent knows as it was. *)
LEMMA GoesOn ==
    ASSUME TypeOK, ParentOK, NEW p \in Phil, NEW s \in PhilStates \ {"unborn", "killed"},
           Running(p), pc' = [pc EXCEPT ![p] = s], UNCHANGED parentVars,
           exists' => exists, s = "exit1" => ~ exists'
    PROVE  ParentOK'
<1>1. /\ ppc' = ppc /\ child' = child /\ victim' = victim
      /\ \A q \in Phil : q # p => pc'[q] = pc[q]
      /\ pc'[p] = s
  BY DEF parentVars, TypeOK
<1>2. pc[p] \notin Stopped /\ pc[p] # "unborn"
  BY DEF Running
<1>3. ppc \notin {"removing", "exit0", "abortRemove", "exit1"}
  BY <1>2 DEF ParentOK, Stopped
<1>4. ppc \in {"forking", "aborting"} => \A q \in Phil : q >= child => pc'[q] = "unborn"
  BY <1>1, <1>2 DEF ParentOK
<1>5. ppc \in {"waiting", "killing"} => \A q \in Phil : q < child => pc'[q] \in Stopped
  BY <1>1, <1>2 DEF ParentOK
<1>6. ppc = "killing" => pc'[child] \in Stopped /\ ~ exists'
  BY <1>1, <1>2 DEF ParentOK, TypeOK
<1>7. exists' /\ ppc \notin {"aborting", "abortRemove"} =>
        \A q \in Phil : pc'[q] \notin {"exit1", "killed"}
  BY <1>1 DEF ParentOK
<1> QED BY <1>1, <1>3, <1>4, <1>5, <1>6, <1>7 DEF ParentOK, ParentGone

(* The states of a process, each named. *)
LEMMA States ==
    /\ {"down0", "takeLeft", "takeRight", "eat", "returnLeft", "returnRight", "up0",
        "check", "exit0", "exit1"} \subseteq PhilStates \ {"unborn", "killed"}
    /\ \A p \in Phil : pc[p] \in {"down0", "takeLeft", "takeRight", "eat", "returnLeft",
                                   "returnRight", "up0", "check"} => Running(p)
BY DEF PhilStates, Stopped, Running

(* down0 takes a place for one more philosopher. *)
LEMMA StepDown0 == ASSUME IInv, NEW p \in Phil, Down0(p) PROVE IInv'
<1> USE DEF IInv
<1>1. pc[p] = "down0" /\ pc' = [pc EXCEPT ![p] = "takeLeft"] /\ room > 0 /\ room' = room - 1
  BY DEF Down0, Go
<1>2. TypeOK'
  BY <1>1, States DEF Down0, TypeOK, parentVars
<1>3. \A q \in Phil, f \in Forks : Holds(q, f)' <=> Holds(q, f)
  BY <1>1 DEF Holds, HoldsLeft, HoldsRight, TypeOK
<1>4. ForkCount'
  BY <1>3 DEF Down0, ForkCount, ForksExclusive
<1>5. p \notin InRoom /\ InRoom' = InRoom \cup {p}
  BY <1>1 DEF InRoom, TypeOK
<1>6. Cardinality(InRoom') = Cardinality(InRoom) + 1 /\ Cardinality(InRoom) \in Nat
  BY <1>5, RoomFinite, FS_AddElement, FS_CardinalityType
<1>7. RoomCount'
  BY <1>1, <1>6, PhilosophersAssumption DEF RoomCount
<1>8. RoundCount'
  BY <1>1 DEF Down0, RoundCount, TypeOK, Stopped
<1>9. ParentOK'
  BY <1>1, States, GoesOn DEF Down0
<1> QED BY <1>2, <1>4, <1>7, <1>8, <1>9

(* A fork is taken by the only one who holds it. *)
LEMMA StepTake ==
    ASSUME IInv, NEW p \in Phil, TakeLeft(p) \/ TakeRight(p) PROVE IInv'
<1> USE DEF IInv
<1>1. PICK f \in Forks, to \in {"takeRight", "eat"} :
        /\ pc' = [pc EXCEPT ![p] = to]
        /\ fork[f] > 0 /\ fork' = [fork EXCEPT ![f] = @ - 1]
        /\ \/ f = Left(p) /\ pc[p] = "takeLeft" /\ to = "takeRight"
           \/ f = Right(p) /\ pc[p] = "takeRight" /\ to = "eat"
  BY TwoForks DEF TakeLeft, TakeRight, TakeFork, Go
<1>2. UNCHANGED <<exists, room, round, parentVars, faults>>
  BY DEF TakeLeft, TakeRight, TakeFork
<1>3. TypeOK'
  BY <1>1, <1>2, States DEF TypeOK, parentVars
<1>4. \A q \in Phil, g \in Forks : Holds(q, g)' <=> Holds(q, g) \/ (q = p /\ g = f)
  BY <1>1, TwoForks DEF Holds, HoldsLeft, HoldsRight, TypeOK
<1>5. fork[f] = 1 /\ \A q \in Phil : ~ Holds(q, f)
  BY <1>1 DEF ForkCount
<1>6. ForkCount'
  BY <1>1, <1>4, <1>5 DEF ForkCount, ForksExclusive, TypeOK
<1>7. InRoom' = InRoom
  BY <1>1 DEF InRoom, TypeOK
<1>8. RoomCount'
  BY <1>2, <1>7 DEF RoomCount
<1>9. RoundCount'
  BY <1>1, <1>2 DEF RoundCount, TypeOK, Stopped
<1>10. ParentOK'
  BY <1>1, <1>2, States, GoesOn
<1> QED BY <1>3, <1>6, <1>8, <1>9, <1>10

(* A fork is put back by the one who holds it. *)
LEMMA StepReturn ==
    ASSUME IInv, NEW p \in Phil, ReturnLeft(p) \/ ReturnRight(p) PROVE IInv'
<1> USE DEF IInv
<1>1. PICK f \in Forks, to \in {"returnRight", "up0"} :
        /\ pc' = [pc EXCEPT ![p] = to]
        /\ fork' = [fork EXCEPT ![f] = @ + 1]
        /\ \/ f = Left(p) /\ pc[p] = "returnLeft" /\ to = "returnRight"
           \/ f = Right(p) /\ pc[p] = "returnRight" /\ to = "up0"
  BY TwoForks DEF ReturnLeft, ReturnRight, ReturnFork, Go
<1>2. UNCHANGED <<exists, room, round, parentVars, faults>>
  BY DEF ReturnLeft, ReturnRight, ReturnFork
<1>3. TypeOK'
  BY <1>1, <1>2, States DEF TypeOK, parentVars
<1>4. \A q \in Phil, g \in Forks : Holds(q, g)' <=> Holds(q, g) /\ ~ (q = p /\ g = f)
  BY <1>1, TwoForks DEF Holds, HoldsLeft, HoldsRight, TypeOK
<1>5. Holds(p, f)
  BY <1>1 DEF Holds, HoldsLeft, HoldsRight
<1>6. fork[f] = 0 /\ \A q \in Phil : Holds(q, f) => q = p
  BY <1>5 DEF ForkCount, ForksExclusive
<1>7. ForkCount'
  BY <1>1, <1>4, <1>6 DEF ForkCount, ForksExclusive, TypeOK
<1>8. InRoom' = InRoom
  BY <1>1 DEF InRoom, TypeOK
<1>9. RoomCount'
  BY <1>2, <1>8 DEF RoomCount
<1>10. RoundCount'
  BY <1>1, <1>2 DEF RoundCount, TypeOK, Stopped
<1>11. ParentOK'
  BY <1>1, <1>2, States, GoesOn
<1> QED BY <1>3, <1>7, <1>9, <1>10, <1>11

(* up0 gives the place back and ends the round. *)
LEMMA StepUp0 == ASSUME IInv, NEW p \in Phil, Up0(p) PROVE IInv'
<1> USE DEF IInv
<1>1. PICK to \in {"down0", "exit0"} :
        /\ pc[p] = "up0" /\ pc' = [pc EXCEPT ![p] = to]
        /\ to = IF round[p] + 1 < Rounds THEN "down0" ELSE "exit0"
  BY DEF Up0, Go
<1>2. room' = room + 1 /\ round' = [round EXCEPT ![p] = @ + 1]
  BY DEF Up0
<1>3. UNCHANGED <<exists, fork, parentVars, faults>>
  BY DEF Up0
<1>4. round[p] < Rounds
  BY <1>1 DEF RoundCount, Stopped
<1>5. TypeOK'
  <2>1. round' \in [Phil -> 0..Rounds]
    BY <1>2, <1>4, PhilosophersAssumption DEF TypeOK
  <2> QED BY <1>1, <1>2, <1>3, <2>1, States DEF TypeOK, parentVars
<1>6. \A q \in Phil, f \in Forks : Holds(q, f)' <=> Holds(q, f)
  BY <1>1 DEF Holds, HoldsLeft, HoldsRight, TypeOK
<1>7. ForkCount'
  BY <1>3, <1>6 DEF ForkCount, ForksExclusive
<1>8. p \in InRoom /\ InRoom' = InRoom \ {p}
  BY <1>1 DEF InRoom, TypeOK
<1>9. Cardinality(InRoom') = Cardinality(InRoom) - 1 /\ Cardinality(InRoom) \in Nat
  BY <1>8, RoomFinite, FS_RemoveElement, FS_CardinalityType
<1>10. RoomCount'
  BY <1>2, <1>9, PhilosophersAssumption DEF RoomCount
<1>11. RoundCount'
  BY <1>1, <1>2, <1>4, PhilosophersAssumption DEF RoundCount, TypeOK, Stopped
<1>12. ParentOK'
  BY <1>1, <1>3, States, GoesOn
<1> QED BY <1>5, <1>7, <1>10, <1>11, <1>12

(* Eating, a call that fails and the exit after it touch no semaphore. *)
LEMMA StepOther ==
    ASSUME IInv, NEW p \in Phil, Eat(p) \/ SemopFails(p) \/ Check(p) PROVE IInv'
<1> USE DEF IInv
<1>1. PICK to \in {"returnLeft", "check", "exit1"} :
        /\ pc' = [pc EXCEPT ![p] = to]
        /\ \/ pc[p] = "eat" /\ to = "returnLeft" /\ exists' = exists
           \/ pc[p] \in SemCalls /\ to = "check" /\ exists' = exists
           \/ pc[p] = "check" /\ to = "exit1" /\ exists' = FALSE
  BY Zenon DEF Eat, SemopFails, Check, Go
<1>2. UNCHANGED <<room, fork, round, parentVars>>
  BY DEF Eat, SemopFails, Check
<1>3. exists' \in BOOLEAN /\ (exists' => exists) /\ (to = "exit1" => ~ exists')
  <2>1. CASE to = "exit1" /\ exists' = FALSE
    BY <2>1
  <2>2. CASE to \in {"returnLeft", "check"} /\ exists' = exists
    BY <2>2, Zenon DEF TypeOK
  <2> QED BY <1>1, <2>1, <2>2
<1>4. faults' \in 0..MaxFaults
  BY PhilosophersAssumption DEF Eat, SemopFails, Check, TypeOK
<1>5. TypeOK'
  BY <1>1, <1>2, <1>3, <1>4, States DEF TypeOK, parentVars
<1>6. \A q \in Phil, f \in Forks : Holds(q, f)' => Holds(q, f)
  BY <1>1 DEF Holds, HoldsLeft, HoldsRight, TypeOK
<1>7. InRoom' \subseteq InRoom
  BY <1>1 DEF InRoom, TypeOK
<1>8. ForkCount' /\ RoomCount'
  BY <1>2, <1>6, <1>7, HoldingLess
<1>9. RoundCount'
  BY <1>1, <1>2 DEF RoundCount, TypeOK, Stopped, SemCalls
<1>10. ParentOK'
  <2>1. Running(p)
    BY <1>1, States DEF SemCalls
  <2> QED BY <1>1, <1>2, <1>3, <2>1, States, GoesOn
<1> QED BY <1>5, <1>8, <1>9, <1>10

(* fork(): the parent makes the next philosopher. *)
LEMMA StepFork == ASSUME IInv, Fork PROVE IInv'
<1> USE DEF IInv
<1>1. /\ ppc = "forking" /\ pc[child] = "unborn" /\ child \in Phil
      /\ pc' = [pc EXCEPT ![child] = "down0"]
      /\ UNCHANGED <<exists, room, fork, round, victim, others, faults>>
  BY DEF Fork, ParentOK, TypeOK, Phil
<1>2. \/ child < N /\ child' = child + 1 /\ ppc' = "forking"
      \/ child = N /\ child' = 1 /\ ppc' = "waiting"
  BY <1>1, PhilosophersAssumption DEF Fork, Phil
<1>3. TypeOK'
  BY <1>1, <1>2, PhilosophersAssumption DEF TypeOK, PhilStates, Phil
<1>4. \A q \in Phil, f \in Forks : Holds(q, f)' => Holds(q, f)
  BY <1>1 DEF Holds, HoldsLeft, HoldsRight, TypeOK
<1>5. InRoom' \subseteq InRoom
  BY <1>1 DEF InRoom, TypeOK
<1>6. ForkCount' /\ RoomCount'
  BY <1>1, <1>4, <1>5, HoldingLess
<1>7. RoundCount'
  BY <1>1 DEF RoundCount, TypeOK, Stopped
<1>8. ParentOK'
  BY <1>1, <1>2, PhilosophersAssumption DEF ParentOK, ParentGone, TypeOK, Phil
<1> QED BY <1>3, <1>6, <1>7, <1>8

(* fork() fails: the parent starts to kill the children it has made. *)
LEMMA StepForkFails == ASSUME IInv, ForkFails PROVE IInv'
<1> USE DEF IInv
<1>1. /\ ppc = "forking" /\ ppc' = "aborting" /\ victim' = 1 /\ faults' \in 0..MaxFaults
      /\ UNCHANGED <<exists, room, fork, pc, round, child, others>>
  BY PhilosophersAssumption DEF ForkFails, TypeOK
<1>2. TypeOK'
  BY <1>1, PhilosophersAssumption DEF TypeOK, Phil
<1>3. ForkCount' /\ RoomCount' /\ RoundCount'
  BY <1>1 DEF ForkCount, ForksExclusive, RoomCount, RoundCount, InRoom, Holds, HoldsLeft,
              HoldsRight
<1>4. ParentOK'
  BY <1>1 DEF ParentOK, ParentGone, TypeOK, Phil
<1> QED BY <1>2, <1>3, <1>4

(* Killing processes: those that ran are killed, nothing else changes, and *)
(* the semaphores still count right.                                       *)
LEMMA Killing ==
    ASSUME IInv, UNCHANGED <<room, fork, round>>, pc' \in [Phil -> PhilStates],
           \A p \in Phil : pc'[p] = pc[p] \/ (Running(p) /\ pc'[p] = "killed")
    PROVE  ForkCount' /\ RoomCount' /\ RoundCount'
<1> USE DEF IInv
<1>1. \A p \in Phil, f \in Forks : Holds(p, f)' => Holds(p, f)
  BY DEF Holds, HoldsLeft, HoldsRight
<1>2. InRoom' \subseteq InRoom
  BY DEF InRoom
<1>3. RoundCount'
  BY DEF RoundCount, Stopped
<1> QED BY <1>1, <1>2, <1>3, HoldingLess

(* The parent kills the child named by victim. *)
LEMMA KillOne ==
    ASSUME TypeOK, pc' = [pc EXCEPT ![victim] = Killed(victim)]
    PROVE  /\ pc' \in [Phil -> PhilStates]
           /\ \A p \in Phil : pc'[p] = pc[p] \/ (Running(p) /\ pc'[p] = "killed")
           /\ \A p \in Phil : p # victim => pc'[p] = pc[p]
           /\ pc[victim] # "unborn" => pc'[victim] \in Stopped
BY DEF TypeOK, Killed, Running, PhilStates, Stopped

(* After a failed fork: one child, or in the end everything, is killed. *)
LEMMA StepAbortKill == ASSUME IInv, AbortKill PROVE IInv'
<1> USE DEF IInv
<1>1. ppc = "aborting" /\ UNCHANGED <<exists, room, fork, round, child, faults>>
  BY DEF AbortKill
<1>2. CASE victim = child
  <2>1. /\ pc' = [p \in Phil |-> Killed(p)] /\ others' = TRUE
        /\ ppc' = "abortRemove" /\ victim' = victim
    BY <1>2 DEF AbortKill
  <2>2. /\ pc' \in [Phil -> PhilStates]
        /\ \A p \in Phil : pc'[p] = pc[p] \/ (Running(p) /\ pc'[p] = "killed")
        /\ \A p \in Phil : ~ Running(p)'
    BY <2>1 DEF TypeOK, Killed, Running, PhilStates, Stopped
  <2>3. TypeOK'
    BY <1>1, <2>1, <2>2 DEF TypeOK
  <2>4. ForkCount' /\ RoomCount' /\ RoundCount'
    BY <1>1, <2>2, Killing
  <2>5. ParentOK'
    BY <2>1, <2>2 DEF ParentOK, ParentGone
  <2> QED BY <2>3, <2>4, <2>5
<1>3. CASE victim # child
  <2>1. /\ pc' = [pc EXCEPT ![victim] = Killed(victim)] /\ victim' = victim + 1
        /\ UNCHANGED <<others, ppc>>
    BY <1>3 DEF AbortKill
  <2>2. victim < child /\ victim' \in Phil /\ victim' <= child
    BY <1>1, <1>3, <2>1, PhilosophersAssumption DEF ParentOK, TypeOK, Phil
  <2>3. TypeOK'
    BY <1>1, <2>1, <2>2, KillOne DEF TypeOK
  <2>4. ForkCount' /\ RoomCount' /\ RoundCount'
    BY <1>1, <2>1, KillOne, Killing
  <2>5. ParentOK'
    BY <1>1, <2>1, <2>2, KillOne DEF ParentOK, ParentGone, TypeOK, Phil
  <2> QED BY <2>3, <2>4, <2>5
<1> QED BY <1>2, <1>3

(* After a failed fork: the set is removed, the parent exits with 1. *)
LEMMA StepAbortRemove == ASSUME IInv, AbortRemove PROVE IInv'
<1> USE DEF IInv
<1>1. /\ ppc = "abortRemove" /\ ppc' = "exit1" /\ exists' = FALSE
      /\ UNCHANGED <<room, fork, pc, round, child, victim, others, faults>>
  BY DEF AbortRemove
<1>2. TypeOK'
  BY <1>1 DEF TypeOK
<1>3. ForkCount' /\ RoomCount' /\ RoundCount'
  BY <1>1, Killing DEF TypeOK
<1>4. ParentOK'
  BY <1>1 DEF ParentOK, ParentGone, Running
<1> QED BY <1>2, <1>3, <1>4

(* After the last child the parent removes the set, before it goes on to   *)
(* wait for the next one.                                                  *)
LEMMA NextChild ==
    ASSUME TypeOK, WaitNext
    PROVE  \/ child < N /\ child' = child + 1 /\ child' \in Phil /\ ppc' = "waiting"
           \/ child = N /\ child' = child /\ ppc' = "removing"
BY PhilosophersAssumption DEF WaitNext, TypeOK, Phil

(* A child has ended: the parent goes on, or starts to kill the rest. *)
LEMMA StepWait == ASSUME IInv, Wait PROVE IInv'
<1> USE DEF IInv
<1>1. /\ ppc = "waiting" /\ pc[child] \in Stopped
      /\ UNCHANGED <<exists, room, fork, pc, round, others, faults>>
  BY DEF Wait
<1>2. \A p \in Phil : p <= child => pc[p] \in Stopped
  BY <1>1 DEF ParentOK, TypeOK, Phil
<1>3. ForkCount' /\ RoomCount' /\ RoundCount'
  BY <1>1, Killing DEF TypeOK
<1>4. CASE pc[child] = "exit0"
  <2>1. WaitNext /\ victim' = victim
    BY <1>4 DEF Wait
  <2>2. TypeOK'
    BY <1>1, <2>1, NextChild DEF TypeOK
  <2>3. ParentOK'
    BY <1>1, <1>2, <2>1, NextChild DEF ParentOK, ParentGone, TypeOK, Phil
  <2> QED BY <1>3, <2>2, <2>3
<1>5. CASE pc[child] # "exit0"
  <2>1. ppc' = "killing" /\ victim' = child /\ child' = child
    BY <1>5 DEF Wait
  <2>2. ~ exists
    BY <1>1, <1>5 DEF ParentOK, TypeOK, Stopped
  <2>3. TypeOK'
    BY <1>1, <2>1 DEF TypeOK
  <2>4. ParentOK'
    BY <1>1, <2>1, <2>2 DEF ParentOK, ParentGone
  <2> QED BY <1>3, <2>3, <2>4
<1> QED BY <1>4, <1>5

(* After a child that failed: the next one is killed. *)
LEMMA StepKillRest == ASSUME IInv, KillRest PROVE IInv'
<1> USE DEF IInv
<1>1. /\ ppc = "killing" /\ pc' = [pc EXCEPT ![victim] = Killed(victim)]
      /\ UNCHANGED <<exists, room, fork, round, others, faults>>
  BY DEF KillRest
<1>2. \A p \in Phil : p <= child => pc'[p] \in Stopped
  BY <1>1, KillOne DEF ParentOK, TypeOK, Phil, Stopped
<1>3. ForkCount' /\ RoomCount' /\ RoundCount'
  BY <1>1, KillOne, Killing
<1>4. ~ exists
  BY <1>1 DEF ParentOK
<1>5. CASE victim < N
  <2>1. victim' = victim + 1 /\ victim' \in Phil /\ UNCHANGED <<ppc, child>>
    BY <1>5, PhilosophersAssumption DEF KillRest, TypeOK, Phil
  <2>2. TypeOK'
    BY <1>1, <2>1, KillOne DEF TypeOK
  <2>3. ParentOK'
    BY <1>1, <1>2, <1>4, <2>1 DEF ParentOK, ParentGone, TypeOK, Phil
  <2> QED BY <1>3, <2>2, <2>3
<1>6. CASE ~ (victim < N)
  <2>1. WaitNext /\ victim' = victim
    BY <1>6 DEF KillRest
  <2>2. TypeOK'
    BY <1>1, <2>1, KillOne, NextChild DEF TypeOK
  <2>3. ParentOK'
    BY <1>1, <1>2, <1>4, <2>1, NextChild DEF ParentOK, ParentGone, TypeOK, Phil
  <2> QED BY <1>3, <2>2, <2>3
<1> QED BY <1>5, <1>6

(* The parent removes the set, and finds out whether it was there. *)
LEMMA StepRemove == ASSUME IInv, Remove PROVE IInv'
<1> USE DEF IInv
<1>1. /\ ppc = "removing" /\ ppc' = (IF exists THEN "exit0" ELSE "exit1")
      /\ exists' = FALSE
      /\ UNCHANGED <<room, fork, pc, round, child, victim, others, faults>>
  BY DEF Remove
<1>2. TypeOK'
  BY <1>1 DEF TypeOK
<1>3. ForkCount' /\ RoomCount' /\ RoundCount'
  BY <1>1, Killing DEF TypeOK
<1>4. ParentOK'
  BY <1>1 DEF ParentOK, ParentGone, Running, Stopped
<1> QED BY <1>2, <1>3, <1>4

(* Every step of the family keeps the invariant. *)
LEMMA NextIInv == IInv /\ [Next]_vars => IInv'
<1> SUFFICES ASSUME IInv, [Next]_vars PROVE IInv'
  OBVIOUS
<1>1. CASE \E p \in Phil : PhilStep(p)
  BY <1>1, StepDown0, StepTake, StepReturn, StepUp0, StepOther DEF PhilStep
<1>2. CASE ParentStep
  BY <1>2, StepFork, StepForkFails, StepAbortKill, StepAbortRemove, StepWait, StepKillRest,
     StepRemove DEF ParentStep
<1>3. CASE UNCHANGED vars
  BY <1>3 DEF vars, parentVars, IInv, TypeOK, ForkCount, ForksExclusive, RoomCount, RoundCount,
              ParentOK, ParentGone, InRoom, Holds, HoldsLeft, HoldsRight, Running
<1> QED BY <1>1, <1>2, <1>3 DEF Next

(* The inductive invariant holds in every reachable state. *)
THEOREM Invariance == Spec => []IInv
BY InitIInv, NextIInv, PTL DEF Spec

(* Every process and the parent stay at a point of their programs, whatever *)
(* fails and whoever is killed.                                             *)
THEOREM TypeCorrect == Spec => []TypeOK
<1>1. IInv => TypeOK
  BY DEF IInv
<1> QED BY <1>1, Invariance, PTL

(* take_fork and return_fork: no fork is ever in two hands. *)
THEOREM ForksExclusiveAlways == Spec => []ForksExclusive
<1>1. IInv => ForksExclusive
  BY DEF IInv, ForkCount
<1> QED BY <1>1, Invariance, PTL

(* Semaphore 0 never admits more than Room philosophers to the table. *)
THEOREM RoomBoundAlways == Spec => []RoomBound
<1>1. IInv => RoomBound
  BY RoomFinite, FS_CardinalityType, PhilosophersAssumption
     DEF IInv, RoomCount, RoomBound
<1> QED BY <1>1, Invariance, PTL

(* The parent's status 0 means that everyone has eaten every round. *)
THEOREM SuccessMeansAllAteAlways == Spec => []SuccessMeansAllAte
<1>1. IInv => SuccessMeansAllAte
  BY DEF IInv, ParentOK, RoundCount, SuccessMeansAllAte
<1> QED BY <1>1, Invariance, PTL

(* However the parent ends, it leaves neither the set nor a running child. *)
THEOREM NothingLeftBehindAlways == Spec => []NothingLeftBehind
<1>1. IInv => NothingLeftBehind
  BY DEF IInv, ParentOK, ParentGone, NothingLeftBehind, Running, Stopped
<1> QED BY <1>1, Invariance, PTL
====
