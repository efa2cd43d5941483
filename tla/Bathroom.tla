---- MODULE Bathroom ----
(***************************************************************************)
(* SP/task5: one bathroom for two genders.  main starts 2 * TestNumber     *)
(* threads, then joins them; each thread enters by polling under the mutex *)
(* and leaves under it.  What a critical section touches is touched by     *)
(* critical sections only, so each is one action here.                     *)
(*                                                                         *)
(* manage_gender sends the threads started with "m" through the woman_     *)
(* functions and the others through the man_ functions.                    *)
(***************************************************************************)
EXTENDS Integers, FiniteSets

CONSTANTS TestNumber,   \* TEST_NUMBER, 10 in the code
          MaxInRoom     \* max_in_room, as StringToInt returned it

ASSUME BathroomAssumption == TestNumber \in Nat /\ MaxInRoom \in Int

Threads == 0..(2 * TestNumber - 1)

EMPTY == 0
MAN_ONLY == 1
WOMAN_ONLY == 2

VARIABLES cur_state, current_number,
          pc,       \* of each thread
          mpc,      \* of main
          i         \* the threads main has created, then joined

vars == <<cur_state, current_number, pc, mpc, i>>

Gender(t) == IF t < TestNumber THEN "w" ELSE "m"

(* Wrong: both genders claim the room under the same name. *)
OnlyWomen(t) == WOMAN_ONLY

(* What manage_gender claims the room as. *)
Only(t) == IF Gender(t) = "m" THEN WOMAN_ONLY ELSE MAN_ONLY

Init ==
    /\ cur_state = EMPTY
    /\ current_number = 0
    /\ pc = [t \in Threads |-> "unborn"]
    /\ mpc = "create"
    /\ i = 0

-----------------------------------------------------------------------------
(* Wrong: one more than the limit. *)
EnterOffByOne(t) ==
    /\ pc[t] = "enter"
    /\ cur_state \in {EMPTY, Only(t)}
    /\ cur_state' = Only(t)
    /\ current_number <= MaxInRoom
    /\ current_number' = current_number + 1
    /\ pc' = [pc EXCEPT ![t] = "inside"]
    /\ UNCHANGED <<mpc, i>>

(* One round of woman_wants_to_enter or man_wants_to_enter: the room is    *)
(* claimed for the gender before the number is looked at.                  *)
Enter(t) ==
    /\ pc[t] = "enter"
    /\ cur_state \in {EMPTY, Only(t)}
    /\ cur_state' = Only(t)
    /\ current_number < MaxInRoom
    /\ current_number' = current_number + 1
    /\ pc' = [pc EXCEPT ![t] = "inside"]
    /\ UNCHANGED <<mpc, i>>

ClaimOnly(t) ==
    /\ pc[t] = "enter"
    /\ cur_state \in {EMPTY, Only(t)}
    /\ cur_state' = Only(t)
    /\ current_number >= MaxInRoom
    /\ UNCHANGED <<current_number, pc, mpc, i>>

KeepPolling(t) ==
    /\ pc[t] = "enter"
    /\ cur_state \notin {EMPTY, Only(t)}
    /\ UNCHANGED vars

(* Wrong: the last one out does not free the room. *)
LeaveClaimed(t) ==
    /\ pc[t] = "inside"
    /\ current_number' = current_number - 1
    /\ pc' = [pc EXCEPT ![t] = "left"]
    /\ UNCHANGED <<cur_state, mpc, i>>

Leave(t) ==
    /\ pc[t] = "inside"
    /\ current_number' = current_number - 1
    /\ cur_state' = IF current_number' = 0 THEN EMPTY ELSE cur_state
    /\ pc' = [pc EXCEPT ![t] = "left"]
    /\ UNCHANGED <<mpc, i>>

(* main starts one "w" and one "m" thread in turn. *)
Created == IF i % 2 = 0 THEN i \div 2 ELSE TestNumber + i \div 2

Create ==
    /\ mpc = "create"
    /\ i < 2 * TestNumber
    /\ pc' = [pc EXCEPT ![Created] = "enter"]
    /\ i' = i + 1
    /\ UNCHANGED <<cur_state, current_number, mpc>>

(* main returns, and the threads end with the process. *)
CreateFails ==
    /\ mpc = "create"
    /\ i < 2 * TestNumber
    /\ mpc' = "exit1"
    /\ pc' = [t \in Threads |-> IF pc[t] \in {"enter", "inside"} THEN "dead" ELSE pc[t]]
    /\ UNCHANGED <<cur_state, current_number, i>>

AllCreated ==
    /\ mpc = "create"
    /\ i = 2 * TestNumber
    /\ mpc' = "join"
    /\ i' = 0
    /\ UNCHANGED <<cur_state, current_number, pc>>

Join ==
    /\ mpc = "join"
    /\ i < 2 * TestNumber
    /\ pc[i] = "left"
    /\ i' = i + 1
    /\ UNCHANGED <<cur_state, current_number, pc, mpc>>

(* Wrong: only half of the threads are joined. *)
ExitAfterHalf ==
    /\ mpc = "join"
    /\ i = TestNumber
    /\ mpc' = "exit0"
    /\ UNCHANGED <<cur_state, current_number, pc, i>>

Exit ==
    /\ mpc = "join"
    /\ i = 2 * TestNumber
    /\ mpc' = "exit0"
    /\ UNCHANGED <<cur_state, current_number, pc, i>>

MainStep == Create \/ CreateFails \/ AllCreated \/ Join \/ Exit
ThreadStep(t) == Enter(t) \/ ClaimOnly(t) \/ KeepPolling(t) \/ Leave(t)

Next == MainStep \/ (\E t \in Threads : ThreadStep(t))
        \/ (mpc \in {"exit0", "exit1"} /\ UNCHANGED vars)

Spec == Init /\ [][Next]_vars

(* Every thread goes on polling, and leaves after its sleep. *)
FairSpec ==
    /\ Spec
    /\ WF_vars(MainStep)
    /\ \A t \in Threads : WF_vars(Enter(t)) /\ WF_vars(Leave(t))

-----------------------------------------------------------------------------
Inside == {t \in Threads : pc[t] = "inside"}

(* Types of the shared variables of task5 and of its threads' progress. *)
TypeOK ==
    /\ cur_state \in {EMPTY, MAN_ONLY, WOMAN_ONLY}
    /\ current_number \in Int
    /\ pc \in [Threads -> {"unborn", "enter", "inside", "left", "dead"}]
    /\ mpc \in {"create", "join", "exit0", "exit1"}
    /\ i \in 0..(2 * TestNumber)

(* Men and women are never inside together. *)
OneGender == \A s, t \in Inside : Gender(s) = Gender(t)

(* While the process lives the counter is the number of people inside, and *)
(* never above the limit.                                                  *)
Counted ==
    mpc # "exit1" =>
        /\ current_number = Cardinality(Inside)
        /\ current_number > 0 => current_number <= MaxInRoom

(* main returns 0 only when everyone has left and the room is empty. *)
JoinedAll == mpc = "exit0" => current_number = 0 /\ \A t \in Threads : pc[t] = "left"

(* With a positive limit everyone who came gets in, although the polling   *)
(* has no queue, unless main gives up.                                     *)
EveryoneServed ==
    \A t \in Threads : (pc[t] = "enter") ~> (pc[t] \in {"left", "dead"})
====
