---- MODULE RiverCrossing ----
(***************************************************************************)
(* SP/task4: a server that keeps one wolf-goat-cabbage session per client, *)
(* and clients that send it the commands of a file, over System V message  *)
(* queues: one queue the server reads, one private queue per client for    *)
(* the replies.  A client sends a request and waits for its reply; the     *)
(* last message, MSG_FIN, has none.  Queues outlive the processes, the     *)
(* server's sessions do not.                                               *)
(***************************************************************************)
EXTENDS Integers, Sequences, SequencesExt

CONSTANTS Clients,    \* the queue ids of the clients
          QueueCap,   \* the messages the server's queue can hold
          Limits      \* how much may happen, one record per kind of history:
                      \*   cmds      the length of a client's command list
                      \*   runs      how often each queue id is used by a new client
                      \*   kills     clients killed
                      \*   restarts  servers killed and started again

ASSUME RiverAssumption ==
    /\ QueueCap \in Nat \ {0}
    /\ \A l \in Limits : /\ {l.cmds, l.kills, l.restarts} \subseteq Nat
                         /\ l.runs \in [Clients -> Nat]

Objects == {"wolf", "goat", "cabbage"}
NoObject == "none"

VARIABLES sessions,   \* the server's list, the newest session first
          cur,        \* the message the server has received, if any
          serverQ,    \* the server's queue
          clientQ,    \* the queue of each client
          exists,     \* whether that queue exists
          pc,         \* what each client does next
          sent,       \* the commands it has sent
          outcome,    \* its all_objects_moved and task_failed flags
          runs, kills, restarts,
          limits      \* what may happen in this history, never changed

vars == <<sessions, cur, serverQ, clientQ, exists, pc, sent, outcome, runs, kills,
          restarts, limits>>
serverVars == <<sessions, cur>>
clientVars == <<exists, pc, sent, outcome, runs>>
killVars == <<kills, restarts, limits>>

Msg(id, q, obj) == [id |-> id, qid |-> q, obj |-> obj]
NoMsg == Msg("none", "none", NoObject)
Requests(c) == {Msg("take", c, o) : o \in Objects}
               \cup {Msg("put", c, NoObject), Msg("move", c, NoObject)}

NewSession(q) == [qid |-> q, inBoat |-> NoObject, right |-> {}, boat |-> FALSE]

Init ==
    /\ sessions = <<>>
    /\ cur = NoMsg
    /\ serverQ = <<>>
    /\ clientQ = [c \in Clients |-> <<>>]
    /\ exists = [c \in Clients |-> FALSE]
    /\ pc = [c \in Clients |-> "gone"]
    /\ sent = [c \in Clients |-> 0]
    /\ outcome = [c \in Clients |-> "none"]
    /\ runs = [c \in Clients |-> 0]
    /\ kills = 0
    /\ restarts = 0
    /\ limits \in Limits

-----------------------------------------------------------------------------
(* The server *)

Receive ==
    /\ cur = NoMsg
    /\ serverQ # <<>>
    /\ cur' = Head(serverQ)
    /\ serverQ' = Tail(serverQ)
    /\ UNCHANGED <<sessions, clientQ, clientVars, killVars>>

Of(q) == {i \in DOMAIN sessions : sessions[i].qid = q}

(* get_session and unregister_client stop at the first match. *)
FirstOf(q) == CHOOSE i \in Of(q) : \A j \in Of(q) : i <= j

(* msgsnd to a queue that was removed fails, and nobody looks. *)
Reply(q, id) ==
    clientQ' = IF exists[q] THEN [clientQ EXCEPT ![q] = Append(@, id)] ELSE clientQ

Handles(id) ==
    /\ cur.id = id
    /\ cur' = NoMsg
    /\ UNCHANGED <<serverQ, clientVars, killVars>>

HandleInit ==
    /\ Handles("init")
    /\ sessions' = <<NewSession(cur.qid)>> \o sessions
    /\ Reply(cur.qid, "ok")

(* Wrong: the client is not told. *)
HandleInitSilent == Handles("init") /\ UNCHANGED <<sessions, clientQ>>

(* malloc returns NULL in register_client. *)
HandleInitNoMemory ==
    /\ Handles("init")
    /\ Reply(cur.qid, "err")
    /\ UNCHANGED sessions

NotRegistered ==
    /\ \E id \in {"take", "put", "move"} : Handles(id)
    /\ Of(cur.qid) = {}
    /\ Reply(cur.qid, "err")
    /\ UNCHANGED sessions

(* Wrong: no return after the error is sent. *)
HandleTakeGoesOn ==
    /\ Handles("take")
    /\ Of(cur.qid) # {}
    /\ LET i   == FirstOf(cur.qid)
           err == IF sessions[i].inBoat # NoObject THEN <<"err">> ELSE <<>>
       IN  /\ sessions' = [sessions EXCEPT ![i].inBoat = cur.obj]
           /\ clientQ' = [clientQ EXCEPT ![cur.qid] = @ \o err \o <<"ok">>]

HandleTake ==
    /\ Handles("take")
    /\ Of(cur.qid) # {}
    /\ LET i == FirstOf(cur.qid)
       IN  IF sessions[i].inBoat # NoObject
           THEN Reply(cur.qid, "err") /\ UNCHANGED sessions
           ELSE /\ sessions' = [sessions EXCEPT ![i].inBoat = cur.obj]
                /\ Reply(cur.qid, "ok")

(* Wrong: the wolf is forgotten. *)
AllButWolf(s) == {"goat", "cabbage"} \subseteq s.right /\ s.boat

AllMoved(s) == s.right = Objects /\ s.boat

HandlePut ==
    /\ Handles("put")
    /\ Of(cur.qid) # {}
    /\ LET i == FirstOf(cur.qid)
           s == sessions[i]
       IN  IF s.inBoat = NoObject
           THEN Reply(cur.qid, "err") /\ UNCHANGED sessions
           ELSE /\ sessions' = [sessions EXCEPT ![i].inBoat = NoObject]
                /\ Reply(cur.qid, IF AllMoved(s) THEN "all_moved" ELSE "ok")

(* The session after a move: what is in the boat goes where it goes. *)
Moved(s) ==
    LET there == ~ s.boat
    IN  [s EXCEPT !.boat = there,
                  !.right = IF there THEN @ \cup ({s.inBoat} \cap Objects)
                                     ELSE @ \ {s.inBoat}]

(* Wrong: the shore of the boat is taken for the other one. *)
TogetherAtBoat(s, a, b) == (a \in s.right) = (b \in s.right) /\ (a \in s.right) = s.boat

Together(s, a, b) == (a \in s.right) = (b \in s.right) /\ (a \in s.right) # s.boat

HandleMove ==
    /\ Handles("move")
    /\ Of(cur.qid) # {}
    /\ LET i == FirstOf(cur.qid)
           s == Moved(sessions[i])
       IN  /\ sessions' = [sessions EXCEPT ![i] = s]
           /\ Reply(cur.qid, IF Together(s, "wolf", "goat") \/ Together(s, "goat", "cabbage")
                             THEN "err" ELSE "ok")

(* Wrong: the session is kept. *)
HandleFinKeeps == Handles("fin") /\ UNCHANGED <<sessions, clientQ>>

HandleFin ==
    /\ Handles("fin")
    /\ sessions' = IF Of(cur.qid) = {} THEN sessions
                   ELSE RemoveAt(sessions, FirstOf(cur.qid))
    /\ UNCHANGED clientQ

(* The server is killed and started again: it finds its old queue. *)
ServerRestart ==
    /\ restarts < limits.restarts
    /\ restarts' = restarts + 1
    /\ sessions' = <<>>
    /\ cur' = NoMsg
    /\ UNCHANGED <<serverQ, clientQ, clientVars, kills, limits>>

-----------------------------------------------------------------------------
(* The clients *)

Send(m) == Len(serverQ) < QueueCap /\ serverQ' = Append(serverQ, m)

(* msgget(IPC_PRIVATE) makes an empty queue, under an id not in use. *)
Start(c) ==
    /\ pc[c] = "gone"
    /\ ~ exists[c]
    /\ runs[c] < limits.runs[c]
    /\ runs' = [runs EXCEPT ![c] = @ + 1]
    /\ exists' = [exists EXCEPT ![c] = TRUE]
    /\ clientQ' = [clientQ EXCEPT ![c] = <<>>]
    /\ pc' = [pc EXCEPT ![c] = "init"]
    /\ sent' = [sent EXCEPT ![c] = 0]
    /\ outcome' = [outcome EXCEPT ![c] = "none"]
    /\ UNCHANGED <<serverVars, serverQ, killVars>>

SendInit(c) ==
    /\ pc[c] = "init"
    /\ Send(Msg("init", c, NoObject))
    /\ pc' = [pc EXCEPT ![c] = "initReply"]
    /\ UNCHANGED <<serverVars, clientQ, exists, sent, outcome, runs, killVars>>

RecvInit(c) ==
    /\ pc[c] = "initReply"
    /\ clientQ[c] # <<>>
    /\ pc' = [pc EXCEPT ![c] = IF Head(clientQ[c]) = "err" THEN "cleanup" ELSE "command"]
    /\ clientQ' = [clientQ EXCEPT ![c] = Tail(@)]
    /\ UNCHANGED <<serverVars, serverQ, exists, sent, outcome, runs, killVars>>

SendCommand(c) ==
    /\ pc[c] = "command"
    /\ sent[c] < limits.cmds
    /\ \E m \in Requests(c) : Send(m)
    /\ sent' = [sent EXCEPT ![c] = @ + 1]
    /\ pc' = [pc EXCEPT ![c] = "reply"]
    /\ UNCHANGED <<serverVars, clientQ, exists, outcome, runs, killVars>>

(* Wrong: after an error the client leaves without MSG_FIN. *)
RecvReplyAndLeave(c) ==
    /\ pc[c] = "reply"
    /\ clientQ[c] # <<>>
    /\ LET id == Head(clientQ[c])
       IN  /\ pc' = [pc EXCEPT ![c] =
                 CASE id = "ok" -> "command" [] id = "err" -> "cleanup" [] OTHER -> "fin"]
           /\ outcome' = [outcome EXCEPT ![c] =
                 CASE id = "err" -> "failed" [] id = "all_moved" -> "moved" [] OTHER -> @]
    /\ clientQ' = [clientQ EXCEPT ![c] = Tail(@)]
    /\ UNCHANGED <<serverVars, serverQ, exists, sent, runs, killVars>>

RecvReply(c) ==
    /\ pc[c] = "reply"
    /\ clientQ[c] # <<>>
    /\ LET id == Head(clientQ[c])
       IN  /\ pc' = [pc EXCEPT ![c] = IF id = "ok" THEN "command" ELSE "fin"]
           /\ outcome' = [outcome EXCEPT ![c] =
                 CASE id = "err" -> "failed" [] id = "all_moved" -> "moved" [] OTHER -> @]
    /\ clientQ' = [clientQ EXCEPT ![c] = Tail(@)]
    /\ UNCHANGED <<serverVars, serverQ, exists, sent, runs, killVars>>

(* After the last command, an error, or MSG_ALL_MOVED. *)
SendFin(c) ==
    /\ pc[c] \in {"command", "fin"}
    /\ Send(Msg("fin", c, NoObject))
    /\ pc' = [pc EXCEPT ![c] = "cleanup"]
    /\ UNCHANGED <<serverVars, clientQ, exists, sent, outcome, runs, killVars>>

Cleanup(c) ==
    /\ pc[c] = "cleanup"
    /\ exists' = [exists EXCEPT ![c] = FALSE]
    /\ clientQ' = [clientQ EXCEPT ![c] = <<>>]
    /\ pc' = [pc EXCEPT ![c] = "gone"]
    /\ UNCHANGED <<serverVars, serverQ, sent, outcome, runs, killVars>>

(* A killed client removes neither its queue nor its session. *)
Kill(c) ==
    /\ kills < limits.kills
    /\ pc[c] \notin {"gone", "killed"}
    /\ kills' = kills + 1
    /\ pc' = [pc EXCEPT ![c] = "killed"]
    /\ UNCHANGED <<serverVars, serverQ, clientQ, exists, sent, outcome, runs, restarts,
                   limits>>

-----------------------------------------------------------------------------
Handle == HandleInit \/ HandleInitNoMemory \/ NotRegistered \/ HandleTake
          \/ HandlePut \/ HandleMove \/ HandleFin
ServerStep == Receive \/ Handle
ClientStep(c) == SendInit(c) \/ RecvInit(c) \/ SendCommand(c) \/ RecvReply(c)
                 \/ SendFin(c) \/ Cleanup(c)
Next == ServerStep \/ ServerRestart \/ \E c \in Clients : Start(c) \/ ClientStep(c) \/ Kill(c)

Spec == Init /\ [][Next]_vars

FairSpec == Spec /\ WF_vars(ServerStep) /\ \A c \in Clients : WF_vars(ClientStep(c))

-----------------------------------------------------------------------------
Replies == {"ok", "err", "all_moved"}
SessionRecords == [qid : Clients, inBoat : Objects \cup {NoObject},
                   right : SUBSET Objects, boat : BOOLEAN]
Messages == [id : {"init", "take", "put", "move", "fin"}, qid : Clients,
             obj : Objects \cup {NoObject}]

(* Types: what msg.h and the session structure can hold. *)
TypeOK ==
    /\ sessions \in Seq(SessionRecords)
    /\ cur \in Messages \cup {NoMsg}
    /\ serverQ \in Seq(Messages)
    /\ clientQ \in [Clients -> Seq(Replies)]
    /\ exists \in [Clients -> BOOLEAN]
    /\ pc \in [Clients -> {"gone", "init", "initReply", "command", "reply", "fin",
                           "cleanup", "killed"}]
    /\ sent \in [Clients -> 0..limits.cmds]
    /\ outcome \in [Clients -> {"none", "failed", "moved"}]
    /\ \A c \in Clients : runs[c] \in 0..limits.runs[c]
    /\ kills \in 0..limits.kills
    /\ restarts \in 0..limits.restarts
    /\ limits \in Limits

(* register_client does not look for an old session of the queue id, and   *)
(* never makes a second one, although ids are used again: MSG_FIN of the   *)
(* old client is handled before MSG_INIT of the new one.                   *)
OneSessionPerQueue ==
    /\ TypeOK
    /\ \A i, j \in DOMAIN sessions : sessions[i].qid = sessions[j].qid => i = j

(* A client never reads the reply to another request: its queue holds a    *)
(* reply only while it waits for one, and no second one.                   *)
ReplyInStep ==
    \A c \in Clients :
        /\ Len(clientQ[c]) <= 1
        /\ clientQ[c] # <<>> => pc[c] \in {"initReply", "reply", "killed"}

SessionOf(c) == IF Of(c) = {} THEN NewSession(c) ELSE sessions[FirstOf(c)]

(* What a session does is a play of the puzzle, although handle_take does  *)
(* not check the shore of the object and handle_move keeps the position    *)
(* after something was eaten.                                              *)
Game == INSTANCE WolfGoatCabbage
          WITH Players <- Clients,
               right <- [c \in Clients |-> SessionOf(c).right],
               boat <- [c \in Clients |-> SessionOf(c).boat]
PlaysThePuzzle == Game!Puzzle

(* A client prints "All objects moved" only with everything across and     *)
(* nothing eaten, as long as its session is the one it played in.          *)
MovedIsTrue ==
    \A c \in Clients :
        pc[c] = "fin" /\ outcome[c] = "moved" /\ Of(c) # {} =>
            /\ SessionOf(c).right = Objects
            /\ SessionOf(c).boat
            /\ SessionOf(c).inBoat = NoObject

(* Every client that started ends, whatever happens to the other clients,  *)
(* unless it is killed itself or the server was, with a request in hand    *)
(* that nobody answers.                                                    *)
ClientsEnd ==
    \A c \in Clients : (pc[c] = "init") ~> (pc[c] \in {"gone", "killed"} \/ restarts > 0)

(* The session of a client that ended is freed, whoever is killed.         *)
SessionsFreed == \A c \in Clients : (pc[c] = "gone") ~> (Of(c) = {})
====
