---- MODULE Philosophers ----
(***************************************************************************)
(* SP/task3: a parent process forks N philosophers that share one System V *)
(* semaphore set: semaphore 0 admits Room of them to the table, the others *)
(* are the forks.  A call on a removed set fails, and so does a call that  *)
(* is disturbed from outside (at most MaxFaults times here); a process     *)
(* whose call fails removes the set and exits, and the parent kills and    *)
(* reaps the rest.                                                         *)
(*                                                                         *)
(* Philosopher p here has the id 2p - 1 of the code; the even numbers      *)
(* id - 1 and id + 1 that take_fork and return_fork switch on name the     *)
(* forks p and p + 1, the number 2N naming fork 1 again.                   *)
(***************************************************************************)
EXTENDS Integers, FiniteSets

CONSTANTS N,          \* philosophers and forks, 5 in the code
          Room,       \* the initial value of semaphore 0, 2 in the code
          Rounds,     \* how often each eats, 3 in the code
          MaxFaults   \* calls that fail for a reason outside the program

ASSUME PhilosophersAssumption ==
    /\ N \in Nat /\ N >= 2
    /\ Room \in Nat \ {0}
    /\ Rounds \in Nat \ {0}
    /\ MaxFaults \in Nat

Phil == 1..N
Forks == 1..N

VARIABLES exists,     \* the semaphore set has not been removed
          room,       \* semaphore 0
          fork,       \* the fork semaphores
          pc,         \* what each philosopher's process does next
          round,      \* the rounds each has finished
          ppc,        \* what the parent does next
          child,      \* the child the parent forks or waits for
          victim,     \* the child the parent kills next
          others,     \* SIGKILL was sent to every process of the user
          faults

vars == <<exists, room, fork, pc, round, ppc, child, victim, others, faults>>

Left(p) == p
Right(p) == IF p = N THEN 1 ELSE p + 1

Stopped == {"exit0", "exit1", "killed"}
Running(p) == pc[p] \notin Stopped \cup {"unborn"}

(* Wrong: everyone is admitted to the table. *)
TableForAll == N

(* SETVAL of semaphore 0 *)
Table == Room

Init ==
    /\ exists = TRUE
    /\ room = Table
    /\ fork = [f \in Forks |-> 1]
    /\ pc = [p \in Phil |-> "unborn"]
    /\ round = [p \in Phil |-> 0]
    /\ ppc = "forking"
    /\ child = 1
    /\ victim = 1
    /\ others = FALSE
    /\ faults = 0

parentVars == <<ppc, child, victim, others>>

-----------------------------------------------------------------------------
(* The philosophers *)

Go(p, from, to) == pc[p] = from /\ pc' = [pc EXCEPT ![p] = to]

(* semop with -1 waits until the semaphore is positive. *)
Down0(p) ==
    /\ exists /\ room > 0
    /\ Go(p, "down0", "takeLeft")
    /\ room' = room - 1
    /\ UNCHANGED <<exists, fork, round, parentVars, faults>>

TakeFork(p, f, from, to) ==
    /\ exists /\ fork[f] > 0
    /\ Go(p, from, to)
    /\ fork' = [fork EXCEPT ![f] = @ - 1]
    /\ UNCHANGED <<exists, room, round, parentVars, faults>>

TakeLeft(p) == TakeFork(p, Left(p), "takeLeft", "takeRight")
TakeRight(p) == TakeFork(p, Right(p), "takeRight", "eat")

Eat(p) ==
    /\ Go(p, "eat", "returnLeft")
    /\ UNCHANGED <<exists, room, fork, round, parentVars, faults>>

ReturnFork(p, f, from, to) ==
    /\ exists
    /\ Go(p, from, to)
    /\ fork' = [fork EXCEPT ![f] = @ + 1]
    /\ UNCHANGED <<exists, room, round, parentVars, faults>>

ReturnLeft(p) == ReturnFork(p, Left(p), "returnLeft", "returnRight")

(* Wrong: the left fork is put back twice. *)
ReturnLeftAgain(p) == ReturnFork(p, Left(p), "returnRight", "up0")

ReturnRight(p) == ReturnFork(p, Right(p), "returnRight", "up0")

Up0(p) ==
    /\ exists
    /\ Go(p, "up0", IF round[p] + 1 < Rounds THEN "down0" ELSE "exit0")
    /\ room' = room + 1
    /\ round' = [round EXCEPT ![p] = @ + 1]
    /\ UNCHANGED <<exists, fork, parentVars, faults>>

SemCalls == {"down0", "takeLeft", "takeRight", "returnLeft", "returnRight", "up0"}

(* semop returns -1: the set is gone, or a fault. *)
SemopFails(p) ==
    /\ pc[p] \in SemCalls
    /\ \/ ~ exists /\ UNCHANGED faults
       \/ exists /\ faults < MaxFaults /\ faults' = faults + 1
    /\ pc' = [pc EXCEPT ![p] = "check"]
    /\ UNCHANGED <<exists, room, fork, round, parentVars>>

(* CHECK: remove the set, return the status. *)
Check(p) ==
    /\ Go(p, "check", "exit1")
    /\ exists' = FALSE
    /\ UNCHANGED <<room, fork, round, parentVars, faults>>

-----------------------------------------------------------------------------
(* The parent *)

Fork ==
    /\ ppc = "forking"
    /\ pc' = [pc EXCEPT ![child] = "down0"]
    /\ IF child < N
       THEN child' = child + 1 /\ UNCHANGED ppc
       ELSE child' = 1 /\ ppc' = "waiting"
    /\ UNCHANGED <<exists, room, fork, round, victim, others, faults>>

ForkFails ==
    /\ ppc = "forking"
    /\ faults < MaxFaults
    /\ faults' = faults + 1
    /\ ppc' = "aborting"
    /\ victim' = 1
    /\ UNCHANGED <<exists, room, fork, pc, round, child, others>>

Killed(p) == IF Running(p) THEN "killed" ELSE pc[p]

(* The loop reaches the entry of the failed fork, and kill(-1) is sent to  *)
(* every process the user may signal.                                      *)
AbortKill ==
    /\ ppc = "aborting"
    /\ IF victim = child
       THEN /\ pc' = [p \in Phil |-> Killed(p)]
            /\ others' = TRUE
            /\ ppc' = "abortRemove"
            /\ UNCHANGED victim
       ELSE /\ pc' = [pc EXCEPT ![victim] = Killed(victim)]
            /\ victim' = victim + 1
            /\ UNCHANGED <<others, ppc>>
    /\ UNCHANGED <<exists, room, fork, round, child, faults>>

AbortRemove ==
    /\ ppc = "abortRemove"
    /\ exists' = FALSE
    /\ ppc' = "exit1"
    /\ UNCHANGED <<room, fork, pc, round, child, victim, others, faults>>

WaitNext ==
    IF child < N
    THEN child' = child + 1 /\ ppc' = "waiting"
    ELSE ppc' = "removing" /\ UNCHANGED child

(* Wrong: the parent does not wait for the others after a failure. *)
WaitStopsAtFailure ==
    /\ ppc = "waiting"
    /\ pc[child] \in Stopped
    /\ IF pc[child] = "exit0" THEN WaitNext ELSE ppc' = "removing" /\ UNCHANGED child
    /\ UNCHANGED <<exists, room, fork, pc, round, victim, others, faults>>

Wait ==
    /\ ppc = "waiting"
    /\ pc[child] \in Stopped
    /\ IF pc[child] = "exit0"
       THEN WaitNext /\ UNCHANGED victim
       ELSE ppc' = "killing" /\ victim' = child /\ UNCHANGED child
    /\ UNCHANGED <<exists, room, fork, pc, round, others, faults>>

KillRest ==
    /\ ppc = "killing"
    /\ pc' = [pc EXCEPT ![victim] = Killed(victim)]
    /\ IF victim < N
       THEN victim' = victim + 1 /\ UNCHANGED <<ppc, child>>
       ELSE WaitNext /\ UNCHANGED victim
    /\ UNCHANGED <<exists, room, fork, round, others, faults>>

(* Wrong: the result of semctl is not looked at. *)
RemoveUnchecked ==
    /\ ppc = "removing"
    /\ ppc' = "exit0"
    /\ exists' = FALSE
    /\ UNCHANGED <<room, fork, pc, round, child, victim, others, faults>>

(* semctl fails when a child has removed the set already. *)
Remove ==
    /\ ppc = "removing"
    /\ ppc' = IF exists THEN "exit0" ELSE "exit1"
    /\ exists' = FALSE
    /\ UNCHANGED <<room, fork, pc, round, child, victim, others, faults>>

-----------------------------------------------------------------------------
PhilStep(p) ==
    \/ Down0(p) \/ TakeLeft(p) \/ TakeRight(p) \/ Eat(p)
    \/ ReturnLeft(p) \/ ReturnRight(p) \/ Up0(p) \/ Check(p)
    \/ SemopFails(p)

ParentStep == Fork \/ ForkFails \/ AbortKill \/ AbortRemove \/ Wait \/ KillRest \/ Remove

ParentGone == ppc \in {"exit0", "exit1"}

Next == (\E p \in Phil : PhilStep(p)) \/ ParentStep

Spec == Init /\ [][Next]_vars

(* Every process that can run is scheduled; a process that waits for a     *)
(* semaphore gets it if it stays positive.  No call ever has to fail.      *)
FairSpec ==
    /\ Spec
    /\ WF_vars(ParentStep /\ faults' = faults)
    /\ \A p \in Phil : WF_vars(PhilStep(p) /\ faults' = faults)

-----------------------------------------------------------------------------
PhilStates == {"unborn", "down0", "takeLeft", "takeRight", "eat", "returnLeft",
               "returnRight", "up0", "check"} \cup Stopped

(* Types; every semaphore is what semctl and semop of task3 can leave.     *)
TypeOK ==
    /\ exists \in BOOLEAN
    /\ room \in Int
    /\ fork \in [Forks -> Int]
    /\ pc \in [Phil -> PhilStates]
    /\ round \in [Phil -> 0..Rounds]
    /\ ppc \in {"forking", "aborting", "abortRemove", "waiting", "killing",
                "removing", "exit0", "exit1"}
    /\ child \in Phil
    /\ victim \in Phil
    /\ others \in BOOLEAN
    /\ faults \in 0..MaxFaults

HoldsLeft(p) == pc[p] \in {"takeRight", "eat", "returnLeft"}
HoldsRight(p) == pc[p] \in {"eat", "returnLeft", "returnRight"}
Holds(p, f) == (f = Left(p) /\ HoldsLeft(p)) \/ (f = Right(p) /\ HoldsRight(p))

(* No fork is in two hands, also while processes fail and are killed. *)
ForksExclusive ==
    \A f \in Forks : \A p, q \in Phil : Holds(p, f) /\ Holds(q, f) => p = q

InRoom == {p \in Phil : pc[p] \in {"takeLeft", "takeRight", "eat", "returnLeft",
                                   "returnRight", "up0"}}

(* Semaphore 0 keeps at most Room philosophers between down0 and up0. *)
RoomBound == Cardinality(InRoom) <= Room

(* The parent returns 0 only when every philosopher ate Rounds times and   *)
(* exited with 0: a failure is never masked by the final semctl.           *)
SuccessMeansAllAte ==
    ppc = "exit0" => \A p \in Phil : pc[p] = "exit0" /\ round[p] = Rounds

(* When the parent is gone the set is removed and no child is left.        *)
NothingLeftBehind == ParentGone => ~ exists /\ \A p \in Phil : ~ Running(p)

(* Everyone finishes: no circular wait for the forks, and a failure of one *)
(* process reaches those blocked in semop.                                 *)
FamilyEnds == <>(ParentGone /\ \A p \in Phil : ~ Running(p))
====
