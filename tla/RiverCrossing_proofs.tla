---- MODULE RiverCrossing_proofs ----
(***************************************************************************)
(* SP/task4 for every number of clients, every length of the server's      *)
(* queue and every history of kills and restarts: no queue id ever has two *)
(* sessions, and no client ever finds the reply to another request.        *)
(*                                                                         *)
(* What the server still has to see of a client is the message it handles, *)
(* at place 0, and then the messages of its queue.                         *)
(***************************************************************************)
EXTENDS RiverCrossing, SequenceTheorems, TLAPS

Item(i) == IF i = 0 THEN cur ELSE serverQ[i]
Pipe == {i \in 0..Len(serverQ) : i = 0 => cur # NoMsg}
Mine(c) == {i \in Pipe : Item(i).qid = c}

(* Of two messages the first is the MSG_FIN of the old client, the second  *)
(* the MSG_INIT of the new one.                                            *)
InOrder(c) ==
    \A i, j \in Mine(c) : i < j => Item(i).id = "fin" /\ Item(j).id = "init"

InitWaits(c) ==
    \A i \in Mine(c) : Item(i).id = "init" =>
        pc[c] \in {"initReply", "killed"} /\ clientQ[c] = <<>>

RequestWaits(c) ==
    \A i \in Mine(c) : Item(i).id \in {"take", "put", "move"} =>
        pc[c] \in {"reply", "killed"} /\ clientQ[c] = <<>>

ReplyAlone(c) ==
    clientQ[c] # <<>> =>
        /\ Len(clientQ[c]) = 1
        /\ Mine(c) = {}
        /\ pc[c] \in {"initReply", "reply", "killed"}

Quiet(c) == pc[c] \in {"command", "fin"} => Mine(c) = {}

(* The session of a client that left, or is about to, has its MSG_FIN on   *)
(* the way, ahead of the MSG_INIT of the next client.                      *)
FinUnderway(c) ==
    Of(c) # {} =>
        /\ pc[c] \in {"gone", "init", "cleanup"} =>
              \E i \in Mine(c) : Item(i).id = "fin"
        /\ \A j \in Mine(c) : Item(j).id = "init" =>
              \E i \in Mine(c) : i < j /\ Item(i).id = "fin"

ErrMeansNone(c) ==
    pc[c] = "initReply" /\ clientQ[c] # <<>> /\ Head(clientQ[c]) = "err" => Of(c) = {}

Protocol(c) ==
    /\ InOrder(c)
    /\ InitWaits(c)
    /\ RequestWaits(c)
    /\ ReplyAlone(c)
    /\ Quiet(c)
    /\ FinUnderway(c)
    /\ ErrMeansNone(c)

Listed == {sessions[i] : i \in DOMAIN sessions}

OneSession == \A i, j \in DOMAIN sessions : sessions[i].qid = sessions[j].qid => i = j

IInv == TypeOK /\ OneSession /\ \A c \in Clients : Protocol(c)

-----------------------------------------------------------------------------
(* The limits are numbers. *)
LEMMA LimitFacts ==
    ASSUME TypeOK
    PROVE  /\ limits \in Limits
           /\ limits.cmds \in Nat /\ limits.kills \in Nat /\ limits.restarts \in Nat
           /\ \A c \in Clients : limits.runs[c] \in Nat
BY RiverAssumption DEF TypeOK

(* A place is a number, and a message stands there. *)
LEMMA PipeFacts ==
    ASSUME TypeOK
    PROVE  /\ Len(serverQ) \in Nat
           /\ DOMAIN serverQ = 1..Len(serverQ)
           /\ \A i \in Pipe : i \in Nat /\ Item(i) \in Messages
           /\ \A c : Mine(c) \subseteq Pipe
<1>1. serverQ \in Seq(Messages) /\ cur \in Messages \cup {NoMsg}
  BY DEF TypeOK
<1>2. Len(serverQ) \in Nat /\ DOMAIN serverQ = 1..Len(serverQ)
  BY ONLY <1>1, LenProperties
<1>3. \A i \in 1..Len(serverQ) : serverQ[i] \in Messages
  BY ONLY <1>1, ElementOfSeq
<1>4. ASSUME NEW i \in Pipe PROVE i \in Nat /\ Item(i) \in Messages
  <2>1. i \in 0..Len(serverQ) /\ (i = 0 => cur # NoMsg)
    BY DEF Pipe
  <2>2. CASE i = 0
    BY <1>1, <2>1, <2>2 DEF Item
  <2>3. CASE i # 0
    <3>1. i \in 1..Len(serverQ)
      BY <1>2, <2>1, <2>3
    <3>2. Item(i) = serverQ[i]
      BY <2>3 DEF Item
    <3> QED BY <1>3, <3>1, <3>2
  <2> QED BY <2>2, <2>3
<1>5. \A c : Mine(c) \subseteq Pipe
  BY DEF Mine
<1> QED BY <1>2, <1>4, <1>5

(* A client keeps its part of the protocol through a step of others, which *)
(* may move its messages up by k places.                                   *)
LEMMA Frame ==
    ASSUME TypeOK, NEW d \in Clients, NEW k \in {0, 1}, Protocol(d),
           \A i \in Int : i \in Mine(d)' <=> i + k \in Mine(d),
           \A i \in Mine(d)' : i \in Int /\ Item(i)' = Item(i + k),
           pc'[d] = pc[d], clientQ'[d] = clientQ[d],
           Of(d)' # {} => Of(d) # {}
    PROVE  Protocol(d)'
<1>1. \A i \in Mine(d) : i \in Int
  BY PipeFacts
<1>2. \A i \in Mine(d)' : i \in Int /\ i + k \in Mine(d) /\ Item(i)' = Item(i + k)
  OBVIOUS
<1>3. \A i \in Mine(d) : \E j \in Mine(d)' : j + k = i /\ Item(j)' = Item(i)
  <2> TAKE i \in Mine(d)
  <2>1. i \in Int /\ i - k \in Int /\ (i - k) + k = i
    BY <1>1
  <2>2. i - k \in Mine(d)'
    BY <2>1
  <2>3. Item(i - k)' = Item(i)
    BY <1>2, <2>1, <2>2
  <2> WITNESS i - k \in Mine(d)'
  <2> QED BY <2>1, <2>3
<1>4. Mine(d) = {} => Mine(d)' = {}
  BY <1>2
<1>5. InOrder(d)'
  <2> SUFFICES ASSUME NEW i \in Mine(d)', NEW j \in Mine(d)', i < j
               PROVE  Item(i)'.id = "fin" /\ Item(j)'.id = "init"
    BY DEF InOrder
  <2>1. i + k < j + k
    BY <1>2
  <2> QED BY <1>2, <2>1 DEF InOrder, Protocol
<1>6. InitWaits(d)'
  BY <1>2 DEF InitWaits, Protocol
<1>7. RequestWaits(d)'
  BY <1>2 DEF RequestWaits, Protocol
<1>8. ReplyAlone(d)' /\ Quiet(d)' /\ ErrMeansNone(d)'
  BY <1>4 DEF ReplyAlone, Quiet, ErrMeansNone, Protocol
<1>9. FinUnderway(d)'
  <2> SUFFICES ASSUME Of(d)' # {}
               PROVE  /\ pc'[d] \in {"gone", "init", "cleanup"} =>
                            \E i \in Mine(d)' : Item(i)'.id = "fin"
                      /\ \A j \in Mine(d)' : Item(j)'.id = "init" =>
                            \E i \in Mine(d)' : i < j /\ Item(i)'.id = "fin"
    BY DEF FinUnderway
  <2>1. Of(d) # {} /\ FinUnderway(d)
    BY DEF Protocol
  <2>2. pc'[d] \in {"gone", "init", "cleanup"} => \E i \in Mine(d)' : Item(i)'.id = "fin"
    BY <1>3, <2>1 DEF FinUnderway
  <2>3. ASSUME NEW j \in Mine(d)', Item(j)'.id = "init"
        PROVE  \E i \in Mine(d)' : i < j /\ Item(i)'.id = "fin"
    <3>1. PICK m \in Mine(d) : m < j + k /\ Item(m).id = "fin"
      BY <1>2, <2>1, <2>3 DEF FinUnderway
    <3>2. PICK i \in Mine(d)' : i + k = m /\ Item(i)' = Item(m)
      BY <1>3
    <3>3. i < j
      BY <1>2, <3>1, <3>2
    <3> QED BY <3>1, <3>2, <3>3
  <2> QED BY <2>2, <2>3
<1> QED BY <1>5, <1>6, <1>7, <1>8, <1>9 DEF Protocol

(* A client without a session keeps its part when its messages are lost or *)
(* taken out.                                                              *)
LEMMA Losing ==
    ASSUME NEW d \in Clients, Protocol(d),
           Mine(d)' \subseteq Mine(d),
           \A i \in Mine(d)' : Item(i)' = Item(i),
           pc'[d] = pc[d], clientQ'[d] = clientQ[d],
           Of(d)' = {}
    PROVE  Protocol(d)'
<1>1. InOrder(d)'
  BY DEF InOrder, Protocol
<1>2. InitWaits(d)' /\ RequestWaits(d)'
  BY DEF InitWaits, RequestWaits, Protocol
<1>3. ReplyAlone(d)' /\ Quiet(d)'
  BY DEF ReplyAlone, Quiet, Protocol
<1>4. FinUnderway(d)' /\ ErrMeansNone(d)'
  BY DEF FinUnderway, ErrMeansNone
<1> QED BY <1>1, <1>2, <1>3, <1>4 DEF Protocol

(* While a request is handled its client waits, with nothing else under    *)
(* way and no reply yet.                                                   *)
LEMMA InHand ==
    ASSUME TypeOK, NEW d \in Clients, Protocol(d), 0 \in Mine(d), Item(0).id # "fin"
    PROVE  /\ Mine(d) = {0}
           /\ clientQ[d] = <<>>
           /\ pc[d] \in {"initReply", "reply", "killed"}
           /\ pc[d] = "initReply" => Item(0).id = "init"
<1>1. \A i \in Mine(d) : i \in Nat
  BY PipeFacts
<1>2. Mine(d) = {0}
  <2> SUFFICES ASSUME NEW i \in Mine(d), i # 0 PROVE FALSE
    OBVIOUS
  <2>1. 0 < i
    BY <1>1
  <2> QED BY <2>1 DEF Protocol, InOrder
<1>3. Item(0) \in Messages
  BY PipeFacts
<1>4. CASE Item(0).id = "init"
  BY <1>2, <1>4 DEF Protocol, InitWaits
<1>5. CASE Item(0).id # "init"
  <2>1. Item(0).id \in {"take", "put", "move"}
    BY <1>3, <1>5 DEF Messages
  <2> QED BY <1>2, <1>5, <2>1 DEF Protocol, RequestWaits
<1> QED BY <1>4, <1>5

(* A request that was waited for leaves the server, with a reply or, to a  *)
(* removed queue, without one.                                             *)
LEMMA Answering ==
    ASSUME TypeOK, NEW d \in Clients, NEW r \in Replies, Protocol(d),
           0 \in Mine(d), Item(0).id # "fin",
           Mine(d)' = Mine(d) \ {0},
           pc'[d] = pc[d],
           clientQ'[d] = clientQ[d] \/ clientQ'[d] = Append(clientQ[d], r),
           r = "err" => Of(d)' = {} \/ Item(0).id # "init"
    PROVE  Protocol(d)'
<1>1. /\ Mine(d)' = {}
      /\ clientQ[d] = <<>>
      /\ pc[d] \in {"initReply", "reply", "killed"}
      /\ pc[d] = "initReply" => Item(0).id = "init"
  BY InHand
<1>2. Len(<<r>>) = 1 /\ Head(<<r>>) = r
  OBVIOUS
<1>3. clientQ'[d] = <<>> \/ clientQ'[d] = <<r>>
  BY <1>1
<1>4. ReplyAlone(d)'
  <2>1. clientQ'[d] # <<>> => Len(clientQ'[d]) = 1
    BY ONLY <1>2, <1>3
  <2> QED BY <1>1, <2>1 DEF ReplyAlone
<1>5. FinUnderway(d)'
  BY <1>1 DEF FinUnderway
<1>6. ErrMeansNone(d)'
  <2>1. clientQ'[d] # <<>> => Head(clientQ'[d]) = r
    BY ONLY <1>2, <1>3
  <2> QED BY <1>1, <2>1 DEF ErrMeansNone
<1> QED BY <1>1, <1>4, <1>5, <1>6 DEF Protocol, InOrder, InitWaits, RequestWaits, Quiet

-----------------------------------------------------------------------------
(* get_session finds the session there is. *)
LEMMA TheSession ==
    ASSUME TypeOK, OneSession, NEW q, Of(q) # {}
    PROVE  /\ FirstOf(q) \in DOMAIN sessions
           /\ Of(q) = {FirstOf(q)}
           /\ sessions[FirstOf(q)].qid = q
<1>1. DOMAIN sessions \subseteq Int
  <2>1. sessions \in Seq(SessionRecords)
    BY DEF TypeOK
  <2>2. DOMAIN sessions = 1..Len(sessions) /\ Len(sessions) \in Nat
    BY ONLY <2>1, LenProperties
  <2> QED BY <2>2
<1>2. PICK i \in Of(q) : TRUE
  OBVIOUS
<1>3. Of(q) = {i}
  BY DEF Of, OneSession
<1>4. i \in DOMAIN sessions /\ sessions[i].qid = q /\ i <= i
  BY <1>1 DEF Of
<1>5. FirstOf(q) \in Of(q)
  BY <1>3, <1>4 DEF FirstOf
<1> QED BY <1>3, <1>4, <1>5

(* A session that changes keeps its queue id, and the list its ids. *)
LEMMA OneChanged ==
    ASSUME TypeOK, OneSession, NEW i \in DOMAIN sessions, NEW s \in SessionRecords,
           s.qid = sessions[i].qid, sessions' = [sessions EXCEPT ![i] = s]
    PROVE  /\ sessions' \in Seq(SessionRecords)
           /\ OneSession'
           /\ \A q : Of(q)' = Of(q)
           /\ \A t \in Listed' : t = s \/ (t \in Listed /\ t.qid # s.qid)
           /\ \A t \in Listed : t.qid # s.qid => t \in Listed'
<1>1. sessions \in Seq(SessionRecords)
  BY DEF TypeOK
<1>2. DOMAIN sessions = 1..Len(sessions) /\ Len(sessions) \in Nat
  BY ONLY <1>1, LenProperties
<1>3. /\ [sessions EXCEPT ![i] = s] \in Seq(SessionRecords)
      /\ Len([sessions EXCEPT ![i] = s]) = Len(sessions)
      /\ \A j \in 1..Len(sessions) :
            [sessions EXCEPT ![i] = s][j] = IF j = i THEN s ELSE sessions[j]
  BY <1>1, <1>2, ExceptSeq
<1>4. DOMAIN sessions' = DOMAIN sessions
  OBVIOUS
<1>5. \A j \in DOMAIN sessions : sessions'[j].qid = sessions[j].qid
  BY <1>2, <1>3
<1>6. \A q : Of(q)' = Of(q)
  BY <1>4, <1>5 DEF Of
<1>7. OneSession'
  BY <1>4, <1>5 DEF OneSession
<1>8. \A j \in DOMAIN sessions : sessions'[j] = IF j = i THEN s ELSE sessions[j]
  BY <1>2, <1>3
<1>9. \A t \in Listed' : t = s \/ (t \in Listed /\ t.qid # s.qid)
  BY <1>4, <1>8 DEF Listed, OneSession
<1>10. \A t \in Listed : t.qid # s.qid => t \in Listed'
  BY <1>4, <1>8 DEF Listed
<1> QED BY <1>3, <1>6, <1>7, <1>9, <1>10

(* register_client, when the queue id has no session. *)
LEMMA Registering ==
    ASSUME TypeOK, OneSession, NEW q \in Clients, Of(q) = {},
           sessions' = <<NewSession(q)>> \o sessions
    PROVE  /\ sessions' \in Seq(SessionRecords)
           /\ OneSession'
           /\ \A d : d # q /\ Of(d)' # {} => Of(d) # {}
           /\ \A t \in Listed' : t = NewSession(q) \/ (t \in Listed /\ t.qid # q)
           /\ Listed \subseteq Listed'
<1> DEFINE one == <<NewSession(q)>>
           n == Len(sessions)
<1>1. sessions \in Seq(SessionRecords)
  BY DEF TypeOK
<1>2. NewSession(q) \in SessionRecords /\ NewSession(q).qid = q
  BY DEF NewSession, SessionRecords, Objects
<1>3. one \in Seq(SessionRecords) /\ Len(one) = 1 /\ one[1] = NewSession(q)
  BY <1>2
<1>4. DOMAIN sessions = 1..n /\ n \in Nat
  BY ONLY <1>1, LenProperties
<1>5. sessions' = one \o sessions
  OBVIOUS
<1> HIDE DEF one
<1>6. /\ sessions' \in Seq(SessionRecords)
      /\ Len(sessions') = 1 + n
      /\ \A i \in 1..(1 + n) :
            sessions'[i] = IF i <= 1 THEN one[i] ELSE sessions[i - 1]
  <2>1. /\ one \o sessions \in Seq(SessionRecords)
        /\ Len(one \o sessions) = Len(one) + Len(sessions)
        /\ \A i \in 1..(Len(one) + Len(sessions)) :
              (one \o sessions)[i] = IF i <= Len(one) THEN one[i]
                                     ELSE sessions[i - Len(one)]
    BY ONLY <1>1, <1>3, ConcatProperties
  <2>2. Len(one) = 1
    BY <1>3
  <2> QED BY ONLY <1>5, <2>1, <2>2
<1>7. DOMAIN sessions' = 1..(1 + n)
  BY ONLY <1>6, LenProperties
<1>8. sessions'[1].qid = q
  BY <1>2, <1>3, <1>4, <1>6
<1>9. \A i \in DOMAIN sessions' : i # 1 =>
          i - 1 \in DOMAIN sessions /\ sessions'[i] = sessions[i - 1]
  BY <1>4, <1>6, <1>7
<1>10. \A i \in DOMAIN sessions : sessions[i].qid # q
  BY DEF Of
<1>11. \A i \in DOMAIN sessions' : i \in Int
  BY <1>4, <1>7
<1>12. OneSession'
  <2> SUFFICES ASSUME NEW i \in DOMAIN sessions', NEW j \in DOMAIN sessions',
                      sessions'[i].qid = sessions'[j].qid
               PROVE  i = j
    BY DEF OneSession
  <2>1. i = 1 <=> j = 1
    BY <1>8, <1>9, <1>10
  <2>2. CASE i # 1
    <3>1. i - 1 = j - 1
      BY <1>9, <2>1, <2>2 DEF OneSession
    <3> QED BY <1>11, <3>1
  <2> QED BY <2>1, <2>2
<1>13. ASSUME NEW d, d # q, Of(d)' # {} PROVE Of(d) # {}
  <2>1. PICK i \in DOMAIN sessions' : sessions'[i].qid = d
    BY <1>13 DEF Of
  <2>2. i # 1
    BY <1>8, <1>13, <2>1
  <2>3. i - 1 \in Of(d)
    BY <1>9, <2>1, <2>2 DEF Of
  <2> QED BY <2>3
<1>14. sessions'[1] = NewSession(q)
  BY <1>3, <1>4, <1>6
<1>15. \A t \in Listed' : t = NewSession(q) \/ (t \in Listed /\ t.qid # q)
  BY <1>9, <1>10, <1>14 DEF Listed
<1>16. ASSUME NEW i \in DOMAIN sessions
       PROVE  i + 1 \in DOMAIN sessions' /\ sessions'[i + 1] = sessions[i]
  <2>1. i + 1 \in 1..(1 + n) /\ ~ (i + 1 <= 1) /\ (i + 1) - 1 = i
    BY <1>4
  <2> QED BY <1>6, <1>7, <2>1
<1>17. Listed \subseteq Listed'
  BY <1>16 DEF Listed
<1> QED BY <1>6, <1>12, <1>13, <1>15, <1>17

(* unregister_client takes the session of the queue id out of the list. *)
LEMMA Unregistering ==
    ASSUME TypeOK, OneSession, NEW q, Of(q) # {},
           sessions' = RemoveAt(sessions, FirstOf(q))
    PROVE  /\ sessions' \in Seq(SessionRecords)
           /\ OneSession'
           /\ Of(q)' = {}
           /\ \A d : Of(d)' # {} => Of(d) # {}
           /\ \A t \in Listed' : t \in Listed /\ t.qid # q
           /\ \A t \in Listed : t.qid # q => t \in Listed'
<1> DEFINE k == FirstOf(q)
           n == Len(sessions)
           a == SubSeq(sessions, 1, k - 1)
           b == SubSeq(sessions, k + 1, n)
<1>1. sessions \in Seq(SessionRecords)
  BY DEF TypeOK
<1>2. DOMAIN sessions = 1..n /\ n \in Nat
  BY ONLY <1>1, LenProperties
<1>3. k \in 1..n /\ Of(q) = {k} /\ sessions[k].qid = q
  BY <1>2, TheSession
<1>4. \A i \in 1..n : sessions[i] \in SessionRecords
  BY ONLY <1>1, ElementOfSeq
<1>5. sessions' = a \o b
  BY DEF RemoveAt
<1> HIDE DEF k
<1>6. /\ a \in Seq(SessionRecords) /\ Len(a) = k - 1
      /\ \A i \in 1..(k - 1) : a[i] = sessions[i]
  <2>1. k - 1 \in Int /\ 1 \in Int /\ \A i \in 1..(k - 1) : sessions[i] \in SessionRecords
    BY <1>2, <1>3, <1>4
  <2>2. /\ a \in Seq(SessionRecords)
        /\ Len(a) = IF 1 <= k - 1 THEN (k - 1) - 1 + 1 ELSE 0
        /\ \A i \in 1..((k - 1) - 1 + 1) : a[i] = sessions[1 + i - 1]
    BY ONLY <2>1, SubSeqProperties
  <2>3. /\ (k - 1) - 1 + 1 = k - 1
        /\ (IF 1 <= k - 1 THEN (k - 1) - 1 + 1 ELSE 0) = k - 1
    BY <1>2, <1>3
  <2>4. \A i \in 1..(k - 1) : 1 + i - 1 = i
    BY <1>2, <1>3
  <2> HIDE DEF a
  <2> QED BY ONLY <2>2, <2>3, <2>4
<1>7. /\ b \in Seq(SessionRecords) /\ Len(b) = n - k
      /\ \A i \in 1..(n - k) : b[i] = sessions[i + k]
  <2>1. k + 1 \in Int /\ n \in Int /\ \A i \in (k + 1)..n : sessions[i] \in SessionRecords
    BY <1>2, <1>3, <1>4
  <2>2. /\ b \in Seq(SessionRecords)
        /\ Len(b) = IF k + 1 <= n THEN n - (k + 1) + 1 ELSE 0
        /\ \A i \in 1..(n - (k + 1) + 1) : b[i] = sessions[(k + 1) + i - 1]
    BY ONLY <2>1, SubSeqProperties
  <2>3. /\ n - (k + 1) + 1 = n - k
        /\ (IF k + 1 <= n THEN n - (k + 1) + 1 ELSE 0) = n - k
    <3>1. k \in Int /\ n \in Int /\ k <= n
      BY <1>2, <1>3
    <3> HIDE DEF n
    <3>2. CASE k + 1 <= n
      BY ONLY <3>1, <3>2
    <3>3. CASE ~ (k + 1 <= n)
      BY ONLY <3>1, <3>3
    <3> QED BY <3>2, <3>3
  <2>4. \A i \in 1..(n - k) : (k + 1) + i - 1 = i + k
    BY <1>2, <1>3
  <2> HIDE DEF b
  <2> QED BY ONLY <2>2, <2>3, <2>4
<1> HIDE DEF a, b
<1>8. /\ sessions' \in Seq(SessionRecords)
      /\ Len(sessions') = Len(a) + Len(b)
      /\ \A i \in 1..(Len(a) + Len(b)) :
            sessions'[i] = IF i <= Len(a) THEN a[i] ELSE b[i - Len(a)]
  BY ONLY <1>5, <1>6, <1>7, ConcatProperties
<1>9. DOMAIN sessions' = 1..Len(sessions')
  BY ONLY <1>8, LenProperties
<1>10. DOMAIN sessions' = 1..(n - 1)
  BY <1>2, <1>3, <1>6, <1>7, <1>8, <1>9
<1>11. \A i \in 1..(n - 1) : i < k => sessions'[i] = sessions[i]
  <2> SUFFICES ASSUME NEW i \in 1..(n - 1), i < k
               PROVE  sessions'[i] = sessions[i]
    OBVIOUS
  <2>1. i \in 1..(k - 1) /\ i <= Len(a) /\ i \in 1..(Len(a) + Len(b))
    BY <1>2, <1>3, <1>6, <1>7
  <2>2. sessions'[i] = a[i]
    BY ONLY <1>8, <2>1
  <2> QED BY <1>6, <2>1, <2>2
<1>12. \A i \in 1..(n - 1) : i >= k => sessions'[i] = sessions[i + 1]
  <2> SUFFICES ASSUME NEW i \in 1..(n - 1), i >= k
               PROVE  sessions'[i] = sessions[i + 1]
    OBVIOUS
  <2>1. sessions'[i] = b[i - (k - 1)]
    BY <1>2, <1>3, <1>6, <1>7, <1>8
  <2>2. i - (k - 1) \in 1..(n - k) /\ (i - (k - 1)) + k = i + 1
    BY <1>2, <1>3
  <2>3. b[i - (k - 1)] = sessions[(i - (k - 1)) + k]
    BY <1>7, <2>2
  <2> QED BY <2>1, <2>2, <2>3
<1> DEFINE old(i) == IF i < k THEN i ELSE i + 1
<1>13. \A i \in DOMAIN sessions' :
           /\ i \in Int
           /\ old(i) \in DOMAIN sessions
           /\ old(i) # k
           /\ sessions'[i] = sessions[old(i)]
  BY <1>2, <1>3, <1>10, <1>11, <1>12
<1>14. \A i, j \in DOMAIN sessions' : old(i) = old(j) => i = j
  BY <1>2, <1>3, <1>13
<1> HIDE DEF old
<1>15. OneSession'
  BY <1>13, <1>14 DEF OneSession
<1>16. Of(q)' = {}
  BY <1>3, <1>13 DEF Of
<1>17. \A d : Of(d)' # {} => Of(d) # {}
  BY <1>13 DEF Of
<1>18. \A t \in Listed' : t \in Listed /\ t.qid # q
  <2> TAKE t \in Listed'
  <2>1. PICK i \in DOMAIN sessions' : t = sessions'[i]
    BY DEF Listed
  <2>2. t = sessions[old(i)] /\ old(i) \in DOMAIN sessions /\ old(i) # k
    BY <1>13, <2>1
  <2>3. t.qid # q
    BY <1>3, <2>2 DEF Of
  <2> QED BY <2>2, <2>3 DEF Listed
<1>19. ASSUME NEW t \in Listed, t.qid # q PROVE t \in Listed'
  <2>1. PICK i \in DOMAIN sessions : t = sessions[i]
    BY DEF Listed
  <2>2. i # k
    BY <1>3, <1>19, <2>1
  <2>3. CASE i < k
    <3>1. i \in 1..(n - 1)
      BY <1>2, <1>3, <2>3
    <3> QED BY <1>10, <1>11, <2>1, <2>3, <3>1 DEF Listed
  <2>4. CASE i > k
    <3>1. i - 1 \in 1..(n - 1) /\ i - 1 >= k /\ (i - 1) + 1 = i
      BY <1>2, <1>3, <2>4
    <3>2. sessions'[i - 1] = sessions[(i - 1) + 1]
      BY <1>12, <3>1
    <3> QED BY <1>10, <2>1, <3>1, <3>2 DEF Listed
  <2> QED BY <1>2, <1>3, <2>2, <2>3, <2>4
<1> QED BY <1>8, <1>15, <1>16, <1>17, <1>18, <1>19

-----------------------------------------------------------------------------
(* The message a handler has in hand stands before all others, and is gone *)
(* when the handler returns.                                               *)
LEMMA Handled ==
    ASSUME TypeOK, NEW c, c = cur.qid, cur # NoMsg, cur' = NoMsg, serverQ' = serverQ
    PROVE  /\ cur \in Messages /\ c \in Clients
           /\ 0 \in Mine(c) /\ Item(0) = cur
           /\ \A d : Mine(d)' = Mine(d) \ {0}
           /\ \A d : d # c => Mine(d)' = Mine(d)
           /\ \A d : \A i \in Mine(d)' : Item(i)' = Item(i)
<1>1. cur \in Messages /\ c \in Clients
  BY DEF TypeOK, Messages
<1>2. Item(0) = cur
  BY DEF Item
<1>3. 0 \in Mine(c)
  BY <1>2, PipeFacts DEF Mine, Pipe
<1>4. \A i : i # 0 => Item(i)' = Item(i)
  BY DEF Item
<1>5. Pipe' = Pipe \ {0}
  BY DEF Pipe
<1>6. \A d : Mine(d)' = Mine(d) \ {0}
  BY <1>4, <1>5 DEF Mine
<1>7. \A d : d # c => 0 \notin Mine(d)
  BY <1>2 DEF Mine
<1> QED BY <1>1, <1>2, <1>3, <1>4, <1>6, <1>7

(* A reply reaches the queue it is sent to, or nothing. *)
LEMMA Replied ==
    ASSUME TypeOK, NEW c \in Clients, NEW r \in Replies, Reply(c, r)
    PROVE  /\ clientQ' \in [Clients -> Seq(Replies)]
           /\ clientQ'[c] = clientQ[c] \/ clientQ'[c] = Append(clientQ[c], r)
           /\ \A d \in Clients : d # c => clientQ'[d] = clientQ[d]
<1>1. clientQ \in [Clients -> Seq(Replies)]
  BY DEF TypeOK
<1>2. CASE ~ exists[c]
  BY <1>1, <1>2 DEF Reply
<1>3. CASE exists[c]
  <2>1. clientQ' = [clientQ EXCEPT ![c] = Append(@, r)]
    BY <1>3 DEF Reply
  <2>2. Append(clientQ[c], r) \in Seq(Replies)
    BY <1>1, AppendProperties
  <2> QED BY <1>1, <2>1, <2>2
<1> QED BY <1>2, <1>3

(* A handler that replies serves its client and leaves the others alone. *)
LEMMA HandlerOK ==
    ASSUME IInv, NEW c, c = cur.qid, NEW r \in Replies,
           cur.id \in {"init", "take", "put", "move"},
           Handles(cur.id), Reply(c, r),
           sessions' \in Seq(SessionRecords), OneSession',
           \A d : d # c /\ Of(d)' # {} => Of(d) # {},
           r = "err" => Of(c)' = {} \/ cur.id # "init"
    PROVE  IInv'
<1>1. /\ cur' = NoMsg
      /\ UNCHANGED <<serverQ, exists, pc, sent, outcome, runs, kills, restarts, limits>>
  BY DEF Handles, clientVars, killVars
<1>2. TypeOK
  BY DEF IInv
<1>3. cur # NoMsg
  BY DEF NoMsg, Msg
<1>4. /\ cur \in Messages /\ c \in Clients
      /\ 0 \in Mine(c) /\ Item(0) = cur
      /\ \A d : Mine(d)' = Mine(d) \ {0}
      /\ \A d : d # c => Mine(d)' = Mine(d)
      /\ \A d : \A i \in Mine(d)' : Item(i)' = Item(i)
  BY <1>1, <1>2, <1>3, Handled
<1>5. /\ clientQ' \in [Clients -> Seq(Replies)]
      /\ clientQ'[c] = clientQ[c] \/ clientQ'[c] = Append(clientQ[c], r)
      /\ \A d \in Clients : d # c => clientQ'[d] = clientQ[d]
  BY <1>2, <1>4, Replied
<1>6. TypeOK'
  BY <1>1, <1>2, <1>5 DEF TypeOK
<1>7. ASSUME NEW d \in Clients PROVE Protocol(d)'
  <2>1. Protocol(d)
    BY DEF IInv
  <2>2. CASE d = c
    <3>1. pc'[d] = pc[d]
      BY <1>1
    <3> QED BY <1>2, <1>4, <1>5, <2>1, <2>2, <3>1, Answering
  <2>3. CASE d # c
    <3>1. \A i \in Mine(d) : i \in Int
      BY <1>2, PipeFacts
    <3>2. \A i \in Int : i \in Mine(d)' <=> i + 0 \in Mine(d)
      BY <1>4, <2>3
    <3>3. \A i \in Mine(d)' : i \in Int /\ Item(i)' = Item(i + 0)
      BY <1>4, <2>3, <3>1
    <3>4. pc'[d] = pc[d] /\ clientQ'[d] = clientQ[d] /\ (Of(d)' # {} => Of(d) # {})
      BY <1>1, <1>5, <2>3
    <3>5. 0 \in {0, 1}
      OBVIOUS
    <3> QED BY <1>2, <2>1, <3>2, <3>3, <3>4, <3>5, Frame
  <2> QED BY <2>2, <2>3
<1> QED BY <1>6, <1>7 DEF IInv

(* When MSG_INIT is handled the queue id has no session. *)
LEMMA InitIsNew ==
    ASSUME IInv, cur.id = "init"
    PROVE  Of(cur.qid) = {} /\ cur.qid \in Clients
<1>1. cur # NoMsg /\ TypeOK
  BY DEF NoMsg, Msg, IInv
<1>2. cur \in Messages /\ cur.qid \in Clients
  BY <1>1 DEF TypeOK, Messages
<1>3. Item(0) = cur /\ 0 \in Mine(cur.qid)
  BY <1>1, PipeFacts DEF Mine, Pipe, Item
<1>4. ~ \E i \in Mine(cur.qid) : i < 0
  BY <1>1, PipeFacts
<1> QED BY <1>2, <1>3, <1>4 DEF IInv, Protocol, FinUnderway

(* A list that stays keeps its sessions. *)
LEMMA SameSessions ==
    ASSUME IInv, sessions' = sessions
    PROVE  /\ sessions' \in Seq(SessionRecords)
           /\ OneSession'
           /\ \A d : Of(d)' = Of(d)
BY DEF IInv, TypeOK, OneSession, Of

LEMMA HandleInitOK ==
    ASSUME IInv, HandleInit \/ HandleInitNoMemory PROVE IInv'
<1>1. cur.id = "init" /\ Handles(cur.id)
  BY DEF HandleInit, HandleInitNoMemory, Handles
<1>2. PICK c : c = cur.qid
  OBVIOUS
<1>3. Of(c) = {} /\ c \in Clients
  BY <1>1, <1>2, InitIsNew
<1>4. CASE HandleInit
  <2>1. sessions' = <<NewSession(c)>> \o sessions /\ Reply(c, "ok")
    BY <1>2, <1>4 DEF HandleInit
  <2>2. "ok" \in Replies
    BY DEF Replies
  <2>3. /\ sessions' \in Seq(SessionRecords)
        /\ OneSession'
        /\ \A d : d # c /\ Of(d)' # {} => Of(d) # {}
    BY <1>3, <2>1, Registering DEF IInv
  <2> QED BY <1>1, <1>2, <2>1, <2>2, <2>3, HandlerOK
<1>5. CASE HandleInitNoMemory
  <2>1. sessions' = sessions /\ Reply(c, "err")
    BY <1>2, <1>5 DEF HandleInitNoMemory
  <2>2. "err" \in Replies
    BY DEF Replies
  <2>3. /\ sessions' \in Seq(SessionRecords)
        /\ OneSession'
        /\ \A d : Of(d)' = Of(d)
    BY <2>1, SameSessions
  <2> QED BY <1>1, <1>2, <1>3, <2>1, <2>2, <2>3, HandlerOK
<1> QED BY <1>4, <1>5

(* take, put and move with a session and without: any reply will do. *)
LEMMA RequestOK ==
    ASSUME IInv, NEW c, c = cur.qid, NEW r \in Replies,
           cur.id \in {"take", "put", "move"},
           Handles(cur.id), Reply(c, r),
           \/ sessions' = sessions
           \/ /\ Of(c) # {}
              /\ \E s \in SessionRecords :
                    /\ s.qid = sessions[FirstOf(c)].qid
                    /\ sessions' = [sessions EXCEPT ![FirstOf(c)] = s]
    PROVE  IInv'
<1>1. CASE sessions' = sessions
  <2>1. sessions' \in Seq(SessionRecords) /\ OneSession' /\ \A d : Of(d)' = Of(d)
    BY <1>1, SameSessions
  <2> QED BY <2>1, HandlerOK
<1>2. CASE sessions' # sessions
  <2>1. PICK s \in SessionRecords :
            /\ Of(c) # {}
            /\ s.qid = sessions[FirstOf(c)].qid
            /\ sessions' = [sessions EXCEPT ![FirstOf(c)] = s]
    BY <1>2
  <2>2. FirstOf(c) \in DOMAIN sessions
    BY <2>1, TheSession DEF IInv
  <2>3. sessions' \in Seq(SessionRecords) /\ OneSession' /\ \A d : Of(d)' = Of(d)
    BY <2>1, <2>2, OneChanged DEF IInv
  <2> QED BY <2>3, HandlerOK
<1> QED BY <1>1, <1>2

LEMMA NotRegisteredOK == ASSUME IInv, NotRegistered PROVE IInv'
<1>1. /\ cur.id \in {"take", "put", "move"} /\ Handles(cur.id)
      /\ sessions' = sessions /\ Reply(cur.qid, "err")
  BY DEF NotRegistered, Handles
<1>2. PICK c : c = cur.qid
  OBVIOUS
<1>3. "err" \in Replies
  BY DEF Replies
<1> QED BY <1>1, <1>2, <1>3, RequestOK

LEMMA SessionRequestOK ==
    ASSUME IInv, HandleTake \/ HandlePut \/ HandleMove PROVE IInv'
<1>1. /\ cur.id \in {"take", "put", "move"} /\ Handles(cur.id)
      /\ Of(cur.qid) # {}
  BY DEF HandleTake, HandlePut, HandleMove, Handles
<1>2. PICK c : c = cur.qid
  OBVIOUS
<1> DEFINE i == FirstOf(c)
           s == sessions[i]
<1>3. s \in SessionRecords
  <2>1. i \in DOMAIN sessions
    BY <1>1, <1>2, TheSession DEF IInv
  <2>2. sessions \in Seq(SessionRecords)
    BY DEF IInv, TypeOK
  <2>3. DOMAIN sessions = 1..Len(sessions)
    BY ONLY <2>2, LenProperties
  <2> HIDE DEF i
  <2> QED BY <2>1, <2>2, <2>3, ElementOfSeq
<1>4. {"ok", "err", "all_moved"} \subseteq Replies
  BY DEF Replies
<1>5. CASE HandleTake
  <2>1. \/ Reply(c, "err") /\ sessions' = sessions
        \/ /\ sessions' = [sessions EXCEPT ![i].inBoat = cur.obj]
           /\ Reply(c, "ok")
    BY <1>2, <1>5 DEF HandleTake
  <2>2. CASE Reply(c, "err") /\ sessions' = sessions
    BY <1>1, <1>2, <1>4, <2>2, RequestOK
  <2>3. CASE /\ sessions' = [sessions EXCEPT ![i].inBoat = cur.obj]
             /\ Reply(c, "ok")
    <3> DEFINE t == [s EXCEPT !.inBoat = cur.obj]
    <3>1. cur \in Messages
      BY <1>1 DEF IInv, TypeOK, NoMsg, Msg
    <3>2. t \in SessionRecords /\ t.qid = s.qid
      BY <1>3, <3>1 DEF SessionRecords, Messages
    <3>3. sessions' = [sessions EXCEPT ![i] = t]
      BY <2>3
    <3> QED BY <1>1, <1>2, <1>4, <2>3, <3>2, <3>3, RequestOK
  <2> QED BY <2>1, <2>2, <2>3
<1>6. CASE HandlePut
  <2>1. \/ Reply(c, "err") /\ sessions' = sessions
        \/ /\ sessions' = [sessions EXCEPT ![i].inBoat = NoObject]
           /\ Reply(c, "all_moved") \/ Reply(c, "ok")
    BY <1>2, <1>6 DEF HandlePut
  <2>2. CASE Reply(c, "err") /\ sessions' = sessions
    BY <1>1, <1>2, <1>4, <2>2, RequestOK
  <2>3. CASE /\ sessions' = [sessions EXCEPT ![i].inBoat = NoObject]
             /\ Reply(c, "all_moved") \/ Reply(c, "ok")
    <3> DEFINE t == [s EXCEPT !.inBoat = NoObject]
    <3>1. t \in SessionRecords /\ t.qid = s.qid
      BY <1>3 DEF SessionRecords
    <3>2. sessions' = [sessions EXCEPT ![i] = t]
      BY <2>3
    <3> QED BY <1>1, <1>2, <1>4, <2>3, <3>1, <3>2, RequestOK
  <2> QED BY <2>1, <2>2, <2>3
<1>7. CASE HandleMove
  <2>1. /\ sessions' = [sessions EXCEPT ![i] = Moved(s)]
        /\ Reply(c, "err") \/ Reply(c, "ok")
    BY <1>2, <1>7 DEF HandleMove
  <2>2. Moved(s) \in SessionRecords /\ Moved(s).qid = s.qid
    BY <1>3 DEF Moved, SessionRecords
  <2> QED BY <1>1, <1>2, <1>4, <2>1, <2>2, RequestOK
<1> QED BY <1>5, <1>6, <1>7

LEMMA HandleFinOK == ASSUME IInv, HandleFin PROVE IInv'
<1>1. /\ cur.id = "fin" /\ cur' = NoMsg
      /\ UNCHANGED <<serverQ, clientQ, exists, pc, sent, outcome, runs, kills, restarts,
                     limits>>
  BY DEF HandleFin, Handles, clientVars, killVars
<1>2. TypeOK /\ OneSession
  BY DEF IInv
<1>3. cur # NoMsg
  BY <1>1 DEF NoMsg, Msg
<1>4. PICK c : c = cur.qid
  OBVIOUS
<1>5. /\ c \in Clients
      /\ \A d : Mine(d)' = Mine(d) \ {0}
      /\ \A d : d # c => Mine(d)' = Mine(d)
      /\ \A d : \A i \in Mine(d)' : Item(i)' = Item(i)
  BY <1>1, <1>2, <1>3, <1>4, Handled
<1>6. /\ sessions' \in Seq(SessionRecords)
      /\ OneSession'
      /\ Of(c)' = {}
      /\ \A d : Of(d)' # {} => Of(d) # {}
  <2>1. CASE Of(c) = {}
    <3>1. sessions' = sessions
      BY <1>4, <2>1 DEF HandleFin
    <3> QED BY <2>1, <3>1, SameSessions
  <2>2. CASE Of(c) # {}
    <3>1. sessions' = RemoveAt(sessions, FirstOf(c))
      BY <1>4, <2>2 DEF HandleFin
    <3> QED BY <1>2, <2>2, <3>1, Unregistering
  <2> QED BY <2>1, <2>2
<1>7. TypeOK'
  BY <1>1, <1>2, <1>6 DEF TypeOK
<1>8. ASSUME NEW d \in Clients PROVE Protocol(d)'
  <2>1. Protocol(d) /\ pc'[d] = pc[d] /\ clientQ'[d] = clientQ[d]
    BY <1>1 DEF IInv
  <2>2. CASE d = c
    <3>1. Mine(d)' \subseteq Mine(d) /\ \A i \in Mine(d)' : Item(i)' = Item(i)
      BY <1>5
    <3> QED BY <1>6, <2>1, <2>2, <3>1, Losing
  <2>3. CASE d # c
    <3>1. \A i \in Mine(d) : i \in Int
      BY <1>2, PipeFacts
    <3>2. \A i \in Int : i \in Mine(d)' <=> i + 0 \in Mine(d)
      BY <1>5, <2>3
    <3>3. \A i \in Mine(d)' : i \in Int /\ Item(i)' = Item(i + 0)
      BY <1>5, <2>3, <3>1
    <3>4. 0 \in {0, 1} /\ (Of(d)' # {} => Of(d) # {})
      BY <1>6
    <3> QED BY <1>2, <2>1, <3>2, <3>3, <3>4, Frame
  <2> QED BY <2>2, <2>3
<1> QED BY <1>6, <1>7, <1>8 DEF IInv

(* msgrcv: every message moves up by one place.                            *)
LEMMA ReceiveShifts ==
    ASSUME IInv, Receive
    PROVE  /\ cur' \in Messages /\ serverQ' \in Seq(Messages)
           /\ \A d : \A i \in Int : i \in Mine(d)' <=> i + 1 \in Mine(d)
           /\ \A d : \A i \in Mine(d)' :
                 i \in Int /\ i + 1 \in Mine(d) /\ Item(i)' = Item(i + 1)
<1> DEFINE n == Len(serverQ)
<1>1. /\ cur = NoMsg /\ serverQ # <<>>
      /\ cur' = Head(serverQ) /\ serverQ' = Tail(serverQ)
      /\ UNCHANGED <<sessions, clientQ, exists, pc, sent, outcome, runs, kills, restarts,
                     limits>>
  BY DEF Receive, clientVars, killVars
<1>2. TypeOK
  BY DEF IInv
<1>3. serverQ \in Seq(Messages) /\ n \in Nat
  BY <1>2, PipeFacts DEF TypeOK
<1>4. /\ Head(serverQ) \in Messages
      /\ Tail(serverQ) \in Seq(Messages)
      /\ Len(Tail(serverQ)) = n - 1
      /\ \A i \in 1..Len(Tail(serverQ)) : Tail(serverQ)[i] = serverQ[i + 1]
  BY <1>1, <1>3, HeadTailProperties
<1>5. Head(serverQ) = serverQ[1]
  BY <1>1, <1>3
<1>6. cur' # NoMsg
  BY <1>1, <1>4 DEF NoMsg, Msg, Messages
<1>7. n >= 1
  BY <1>3, <1>4, LenProperties
<1>8. Len(serverQ') = n - 1 /\ \A i \in 1..(n - 1) : serverQ'[i] = serverQ[i + 1]
  BY <1>1, <1>4
<1>9. \A i : i \in Pipe <=> i \in 1..n
  BY <1>1, <1>3 DEF Pipe
<1>10. \A i : i \in Pipe' <=> i \in 0..(n - 1)
  BY <1>3, <1>6, <1>8 DEF Pipe
<1>11. \A i \in 0..(n - 1) : Item(i)' = Item(i + 1)
  <2> TAKE i \in 0..(n - 1)
  <2>1. i + 1 # 0 /\ Item(i + 1) = serverQ[i + 1]
    BY <1>3 DEF Item
  <2>2. CASE i = 0
    BY <1>1, <1>5, <2>1, <2>2 DEF Item
  <2>3. CASE i # 0
    <3>1. i \in 1..(n - 1)
      BY <1>3, <2>3
    <3> QED BY <1>8, <2>1, <2>3, <3>1 DEF Item
  <2> QED BY <2>2, <2>3
<1>12. ASSUME NEW d, NEW i \in Int PROVE i \in Mine(d)' <=> i + 1 \in Mine(d)
  <2>1. i \in 0..(n - 1) <=> i + 1 \in 1..n
    BY <1>3
  <2>2. i \in Mine(d)' <=> i \in 0..(n - 1) /\ Item(i)'.qid = d
    BY <1>10 DEF Mine
  <2>3. i + 1 \in Mine(d) <=> i + 1 \in 1..n /\ Item(i + 1).qid = d
    BY <1>9 DEF Mine
  <2> QED BY <1>11, <2>1, <2>2, <2>3
<1>13. \A d : \A i \in Mine(d)' : i \in Int /\ Item(i)' = Item(i + 1)
  BY <1>3, <1>10, <1>11 DEF Mine
<1> QED BY <1>1, <1>4, <1>12, <1>13

LEMMA ReceiveOK == ASSUME IInv, Receive PROVE IInv'
<1>1. UNCHANGED <<sessions, clientQ, exists, pc, sent, outcome, runs, kills, restarts, limits>>
  BY DEF Receive, clientVars, killVars
<1>2. /\ cur' \in Messages /\ serverQ' \in Seq(Messages)
      /\ \A d : \A i \in Int : i \in Mine(d)' <=> i + 1 \in Mine(d)
      /\ \A d : \A i \in Mine(d)' : i \in Int /\ Item(i)' = Item(i + 1)
  BY ReceiveShifts
<1>3. TypeOK
  BY DEF IInv
<1>4. TypeOK'
  BY <1>1, <1>2, <1>3 DEF TypeOK
<1>5. OneSession' /\ \A d : Of(d)' = Of(d)
  BY <1>1, SameSessions
<1>6. ASSUME NEW d \in Clients PROVE Protocol(d)'
  <2>1. Protocol(d) /\ pc'[d] = pc[d] /\ clientQ'[d] = clientQ[d] /\ 1 \in {0, 1}
    BY <1>1 DEF IInv
  <2>2. Of(d)' # {} => Of(d) # {}
    BY <1>5
  <2> QED BY <1>2, <1>3, <2>1, <2>2, Frame
<1> QED BY <1>4, <1>5, <1>6 DEF IInv

LEMMA ServerRestartOK == ASSUME IInv, ServerRestart PROVE IInv'
<1>1. /\ restarts < limits.restarts /\ restarts' = restarts + 1
      /\ sessions' = <<>> /\ cur' = NoMsg
      /\ UNCHANGED <<serverQ, clientQ, exists, pc, sent, outcome, runs, kills, limits>>
  BY DEF ServerRestart, clientVars
<1>2. TypeOK /\ limits.restarts \in Nat
  BY LimitFacts DEF IInv
<1>3. DOMAIN sessions' = {} /\ sessions' \in Seq(SessionRecords)
  BY <1>1
<1>4. OneSession' /\ \A d : Of(d)' = {}
  BY <1>3 DEF OneSession, Of
<1>5. TypeOK'
  BY <1>1, <1>2, <1>3 DEF TypeOK
<1>6. \A i : i # 0 => Item(i)' = Item(i)
  BY <1>1 DEF Item
<1>7. Pipe' = Pipe \ {0}
  BY <1>1 DEF Pipe
<1>8. ASSUME NEW d \in Clients PROVE Protocol(d)'
  <2>1. Protocol(d) /\ pc'[d] = pc[d] /\ clientQ'[d] = clientQ[d]
    BY <1>1 DEF IInv
  <2>2. Mine(d)' \subseteq Mine(d) /\ \A i \in Mine(d)' : Item(i)' = Item(i)
    BY <1>6, <1>7 DEF Mine
  <2> QED BY <1>4, <2>1, <2>2, Losing
<1> QED BY <1>4, <1>5, <1>8 DEF IInv

-----------------------------------------------------------------------------
(* A step of one client that sends nothing leaves the server as it is, and *)
(* the other clients with it.                                              *)
LEMMA ClientOnly ==
    ASSUME IInv, NEW c,
           UNCHANGED <<sessions, cur, serverQ>>,
           \A d \in Clients : d # c => pc'[d] = pc[d] /\ clientQ'[d] = clientQ[d]
    PROVE  /\ OneSession' /\ \A d : Of(d)' = Of(d)
           /\ \A d : Mine(d)' = Mine(d)
           /\ \A i : Item(i)' = Item(i)
           /\ \A d \in Clients : d # c => Protocol(d)'
<1>1. OneSession' /\ \A d : Of(d)' = Of(d)
  BY SameSessions
<1>2. \A i : Item(i)' = Item(i)
  BY DEF Item
<1>3. \A d : Mine(d)' = Mine(d)
  BY <1>2 DEF Mine, Pipe
<1>4. ASSUME NEW d \in Clients, d # c PROVE Protocol(d)'
  <2>1. Protocol(d) /\ pc'[d] = pc[d] /\ clientQ'[d] = clientQ[d] /\ 0 \in {0, 1} /\ TypeOK
    BY <1>4 DEF IInv
  <2>2. \A i \in Mine(d) : i \in Int
    BY <2>1, PipeFacts
  <2>3. \A i \in Int : i \in Mine(d)' <=> i + 0 \in Mine(d)
    BY <1>3
  <2>4. \A i \in Mine(d)' : i \in Int /\ Item(i)' = Item(i + 0)
    BY <1>2, <1>3, <2>2
  <2>5. Of(d)' # {} => Of(d) # {}
    BY <1>1
  <2> QED BY <2>1, <2>3, <2>4, <2>5, Frame
<1> QED BY <1>1, <1>2, <1>3, <1>4

(* msgsnd puts the message behind all others. *)
LEMMA Sending ==
    ASSUME TypeOK, NEW c, NEW m \in Messages, m.qid = c,
           cur' = cur, serverQ' = Append(serverQ, m),
           NEW k, k = Len(serverQ) + 1
    PROVE  /\ serverQ' \in Seq(Messages)
           /\ \A d : \A i \in Mine(d) : i \in Int /\ i < k
           /\ Mine(c)' = Mine(c) \cup {k}
           /\ \A d : d # c => Mine(d)' = Mine(d)
           /\ \A d : \A i \in Mine(d) : Item(i)' = Item(i)
           /\ Item(k)' = m
<1> DEFINE n == Len(serverQ)
<1>1. serverQ \in Seq(Messages) /\ n \in Nat /\ k = n + 1
  BY PipeFacts DEF TypeOK
<1>2. /\ Append(serverQ, m) \in Seq(Messages)
      /\ Len(Append(serverQ, m)) = n + 1
      /\ \A i \in 1..n : Append(serverQ, m)[i] = serverQ[i]
      /\ Append(serverQ, m)[n + 1] = m
  BY <1>1, AppendProperties
<1>3. /\ serverQ' \in Seq(Messages) /\ Len(serverQ') = n + 1
      /\ \A i \in 1..n : serverQ'[i] = serverQ[i]
      /\ serverQ'[n + 1] = m
  BY <1>2
<1>4. Pipe \subseteq 0..n
  BY DEF Pipe
<1>5. Item(k)' = m
  BY <1>1, <1>3 DEF Item
<1>6. \A i \in Pipe : Item(i)' = Item(i)
  <2> TAKE i \in Pipe
  <2>1. CASE i = 0
    BY <2>1 DEF Item
  <2>2. CASE i # 0
    <3>1. i \in 1..n
      BY <1>1, <1>4, <2>2
    <3> QED BY <1>3, <2>2, <3>1 DEF Item
  <2> QED BY <2>1, <2>2
<1>7. Pipe' = Pipe \cup {k}
  <2>1. ASSUME NEW i PROVE i \in 0..(n + 1) <=> i \in 0..n \/ i = k
    BY <1>1
  <2>2. k # 0
    BY <1>1
  <2> QED BY <1>3, <2>1, <2>2 DEF Pipe
<1>8. ASSUME NEW d, NEW i
      PROVE  i \in Mine(d)' <=> i \in Mine(d) \/ (i = k /\ d = c)
  <2>1. i \in Mine(d)' <=> (i \in Pipe \/ i = k) /\ Item(i)'.qid = d
    BY <1>7 DEF Mine
  <2>2. i \in Mine(d) <=> i \in Pipe /\ Item(i).qid = d
    BY DEF Mine
  <2>3. k \notin Pipe
    BY <1>1, <1>4
  <2>4. CASE i \in Pipe
    <3>1. Item(i)' = Item(i) /\ i # k
      BY <1>6, <2>3, <2>4
    <3> QED BY <2>1, <2>2, <2>4, <3>1
  <2>5. CASE i \notin Pipe
    <3>1. i = k => (Item(i)'.qid = d <=> d = c)
      BY <1>5
    <3> QED BY <2>1, <2>2, <2>5, <3>1
  <2> QED BY <2>4, <2>5
<1>9. Mine(c)' = Mine(c) \cup {k}
  BY <1>8
<1>10. \A d : d # c => Mine(d)' = Mine(d)
  <2> TAKE d
  <2> HAVE d # c
  <2>1. \A i : i \in Mine(d)' <=> i \in Mine(d)
    BY <1>8
  <2>2. Mine(d)' \subseteq Mine(d) /\ Mine(d) \subseteq Mine(d)'
    BY <2>1
  <2> QED BY <2>2
<1>11. \A d : \A i \in Mine(d) : Item(i)' = Item(i)
  BY <1>6 DEF Mine
<1>12. \A d : \A i \in Mine(d) : i \in Int /\ i < k
  BY <1>1, <1>4 DEF Mine
<1> QED BY <1>3, <1>5, <1>9, <1>10, <1>11, <1>12

(* A client that sends leaves the other clients alone. *)
LEMMA SenderOnly ==
    ASSUME IInv, NEW c \in Clients, NEW m \in Messages, m.qid = c,
           cur' = cur, sessions' = sessions, clientQ' = clientQ,
           serverQ' = Append(serverQ, m),
           \A d \in Clients : d # c => pc'[d] = pc[d]
    PROVE  /\ OneSession' /\ \A d : Of(d)' = Of(d)
           /\ \A d \in Clients : d # c => Protocol(d)'
<1>1. TypeOK
  BY DEF IInv
<1>2. OneSession' /\ \A d : Of(d)' = Of(d)
  BY SameSessions
<1>3. ASSUME NEW d \in Clients, d # c PROVE Protocol(d)'
  <2>1. Protocol(d) /\ pc'[d] = pc[d] /\ clientQ'[d] = clientQ[d] /\ 0 \in {0, 1}
    BY <1>3 DEF IInv
  <2>2. /\ \A i \in Mine(d) : i \in Int
        /\ Mine(d)' = Mine(d)
        /\ \A i \in Mine(d) : Item(i)' = Item(i)
    BY <1>1, <1>3, Sending
  <2>3. \A i \in Int : i \in Mine(d)' <=> i + 0 \in Mine(d)
    BY <2>2
  <2>4. \A i \in Mine(d)' : i \in Int /\ Item(i)' = Item(i + 0)
    BY <2>2
  <2>5. Of(d)' # {} => Of(d) # {}
    BY <1>2
  <2> QED BY <1>1, <2>1, <2>3, <2>4, <2>5, Frame
<1> QED BY <1>2, <1>3

(* The messages a client sends have its queue id. *)
LEMMA SentMessages ==
    ASSUME NEW c \in Clients
    PROVE  /\ Msg("init", c, NoObject) \in Messages
           /\ Msg("fin", c, NoObject) \in Messages
           /\ \A m \in Requests(c) :
                 m \in Messages /\ m.qid = c /\ m.id \in {"take", "put", "move"}
BY DEF Msg, Messages, Requests, Objects, NoObject

(* A client that sends a command has nothing else under way. *)
LEMMA SendCommandOK ==
    ASSUME IInv, NEW c \in Clients, SendCommand(c) PROVE IInv'
<1>1. /\ pc[c] = "command" /\ sent[c] < limits.cmds
      /\ sent' = [sent EXCEPT ![c] = @ + 1]
      /\ pc' = [pc EXCEPT ![c] = "reply"]
      /\ UNCHANGED <<sessions, cur, clientQ, exists, outcome, runs, kills, restarts, limits>>
  BY DEF SendCommand, serverVars, killVars
<1>2. PICK m \in Requests(c) : serverQ' = Append(serverQ, m)
  BY DEF SendCommand, Send
<1> PICK k : k = Len(serverQ) + 1
  OBVIOUS
<1>3. m \in Messages /\ m.qid = c /\ m.id \in {"take", "put", "move"}
  BY SentMessages
<1>4. TypeOK /\ limits.cmds \in Nat /\ Protocol(c)
  BY LimitFacts DEF IInv
<1>5. pc'[c] = "reply" /\ \A d \in Clients : d # c => pc'[d] = pc[d]
  BY <1>1, <1>4 DEF TypeOK
<1>6. /\ OneSession' /\ \A d : Of(d)' = Of(d)
      /\ \A d \in Clients : d # c => Protocol(d)'
  BY <1>1, <1>2, <1>3, <1>5, SenderOnly
<1>7. /\ serverQ' \in Seq(Messages)
      /\ Mine(c)' = Mine(c) \cup {k}
      /\ Item(k)' = m
      /\ k \in Int
  BY <1>1, <1>2, <1>3, <1>4, Sending, PipeFacts
<1>8. TypeOK'
  <2>1. sent' \in [Clients -> 0..limits.cmds]
    BY <1>1, <1>4 DEF TypeOK
  <2> QED BY <1>1, <1>4, <1>7, <2>1 DEF TypeOK
<1>9. Mine(c) = {} /\ clientQ[c] = <<>>
  BY <1>1, <1>4 DEF Protocol, Quiet, ReplyAlone
<1>10. \A i \in Mine(c)' : i = k /\ Item(i)' = m /\ i \in Int
  BY <1>7, <1>9
<1>11. Protocol(c)'
  <2>1. InOrder(c)'
    BY <1>10 DEF InOrder
  <2>2. InitWaits(c)' /\ RequestWaits(c)'
    BY <1>1, <1>3, <1>5, <1>9, <1>10 DEF InitWaits, RequestWaits
  <2>3. ReplyAlone(c)' /\ ErrMeansNone(c)' /\ Quiet(c)'
    BY <1>1, <1>5, <1>9 DEF ReplyAlone, ErrMeansNone, Quiet
  <2>4. FinUnderway(c)'
    BY <1>3, <1>5, <1>10 DEF FinUnderway
  <2> QED BY <2>1, <2>2, <2>3, <2>4 DEF Protocol
<1> QED BY <1>6, <1>8, <1>11 DEF IInv

(* Before its MSG_INIT a client has at most the MSG_FIN of the old one in  *)
(* the queue, and that is enough to end the old session first.             *)
LEMMA SendInitOK ==
    ASSUME IInv, NEW c \in Clients, SendInit(c) PROVE IInv'
<1> DEFINE m == Msg("init", c, NoObject)
<1> PICK k : k = Len(serverQ) + 1
  OBVIOUS
<1>1. /\ pc[c] = "init" /\ serverQ' = Append(serverQ, m)
      /\ pc' = [pc EXCEPT ![c] = "initReply"]
      /\ UNCHANGED <<sessions, cur, clientQ, exists, sent, outcome, runs, kills, restarts,
                     limits>>
  BY DEF SendInit, Send, serverVars, killVars
<1>2. m \in Messages /\ m.qid = c /\ m.id = "init"
  BY SentMessages DEF Msg
<1> HIDE DEF m
<1>3. TypeOK /\ Protocol(c)
  BY DEF IInv
<1>4. pc'[c] = "initReply" /\ \A d \in Clients : d # c => pc'[d] = pc[d]
  BY <1>1, <1>3 DEF TypeOK
<1>5. /\ OneSession' /\ \A d : Of(d)' = Of(d)
      /\ \A d \in Clients : d # c => Protocol(d)'
  BY <1>1, <1>2, <1>4, SenderOnly
<1>6. /\ serverQ' \in Seq(Messages)
      /\ \A i \in Mine(c) : i \in Int /\ i < k /\ Item(i)' = Item(i)
      /\ Mine(c)' = Mine(c) \cup {k}
      /\ Item(k)' = m
      /\ k \in Int
  BY <1>1, <1>2, <1>3, Sending, PipeFacts
<1>7. TypeOK'
  BY <1>1, <1>3, <1>6 DEF TypeOK
<1>8. clientQ[c] = <<>>
  BY <1>1, <1>3 DEF Protocol, ReplyAlone
<1>9. \A i \in Mine(c) : Item(i).id = "fin"
  <2> TAKE i \in Mine(c)
  <2>1. Item(i).id # "init" /\ Item(i).id \notin {"take", "put", "move"}
    BY <1>1, <1>3 DEF Protocol, InitWaits, RequestWaits
  <2>2. Item(i) \in Messages
    BY <1>3, PipeFacts
  <2> QED BY <2>1, <2>2 DEF Messages
<1>10. \A i, j \in Mine(c) : ~ (i < j)
  BY <1>9, <1>3 DEF Protocol, InOrder
<1>11. \A i \in Mine(c)' : i \in Mine(c) \/ i = k
  BY <1>6
<1>12. Protocol(c)'
  <2>1. InOrder(c)'
    <3> SUFFICES ASSUME NEW i \in Mine(c)', NEW j \in Mine(c)', i < j
                 PROVE  Item(i)'.id = "fin" /\ Item(j)'.id = "init"
      BY DEF InOrder
    <3>1. i \in Mine(c) /\ j = k
      BY <1>6, <1>10, <1>11
    <3> QED BY <1>2, <1>6, <1>9, <3>1
  <2>2. InitWaits(c)' /\ RequestWaits(c)'
    BY <1>1, <1>2, <1>4, <1>6, <1>8, <1>9, <1>11 DEF InitWaits, RequestWaits
  <2>3. ReplyAlone(c)' /\ ErrMeansNone(c)' /\ Quiet(c)'
    BY <1>1, <1>4, <1>8 DEF ReplyAlone, ErrMeansNone, Quiet
  <2>4. FinUnderway(c)'
    <3> SUFFICES ASSUME Of(c) # {}, NEW j \in Mine(c)', Item(j)'.id = "init"
                 PROVE  \E i \in Mine(c)' : i < j /\ Item(i)'.id = "fin"
      BY <1>4, <1>5 DEF FinUnderway
    <3>1. PICK i \in Mine(c) : Item(i).id = "fin"
      BY <1>1, <1>3 DEF Protocol, FinUnderway
    <3>2. j = k
      BY <1>6, <1>9, <1>11
    <3>3. i \in Mine(c)' /\ i < j /\ Item(i)'.id = "fin"
      BY <1>6, <3>1, <3>2
    <3> QED BY <3>3
  <2> QED BY <2>1, <2>2, <2>3, <2>4 DEF Protocol
<1> QED BY <1>5, <1>7, <1>12 DEF IInv

(* MSG_FIN is the last message of a client, and nothing is ahead of it. *)
LEMMA SendFinOK ==
    ASSUME IInv, NEW c \in Clients, SendFin(c) PROVE IInv'
<1> DEFINE m == Msg("fin", c, NoObject)
<1> PICK k : k = Len(serverQ) + 1
  OBVIOUS
<1>1. /\ pc[c] \in {"command", "fin"} /\ serverQ' = Append(serverQ, m)
      /\ pc' = [pc EXCEPT ![c] = "cleanup"]
      /\ UNCHANGED <<sessions, cur, clientQ, exists, sent, outcome, runs, kills, restarts,
                     limits>>
  BY DEF SendFin, Send, serverVars, killVars
<1>2. m \in Messages /\ m.qid = c /\ m.id = "fin"
  BY SentMessages DEF Msg
<1> HIDE DEF m
<1>3. TypeOK /\ Protocol(c)
  BY DEF IInv
<1>4. pc'[c] = "cleanup" /\ \A d \in Clients : d # c => pc'[d] = pc[d]
  BY <1>1, <1>3 DEF TypeOK
<1>5. /\ OneSession' /\ \A d : Of(d)' = Of(d)
      /\ \A d \in Clients : d # c => Protocol(d)'
  BY <1>1, <1>2, <1>4, SenderOnly
<1>6. /\ serverQ' \in Seq(Messages)
      /\ Mine(c)' = Mine(c) \cup {k}
      /\ Item(k)' = m
      /\ k \in Int
  BY <1>1, <1>2, <1>3, Sending, PipeFacts
<1>7. TypeOK'
  BY <1>1, <1>3, <1>6 DEF TypeOK
<1>8. Mine(c) = {} /\ clientQ[c] = <<>>
  BY <1>1, <1>3 DEF Protocol, Quiet, ReplyAlone
<1>9. k \in Mine(c)' /\ \A i \in Mine(c)' : i = k
  BY <1>6, <1>8
<1>10. Protocol(c)'
  <2>1. InOrder(c)'
    BY <1>6, <1>9 DEF InOrder
  <2>2. InitWaits(c)' /\ RequestWaits(c)' /\ FinUnderway(c)'
    BY <1>2, <1>6, <1>9 DEF InitWaits, RequestWaits, FinUnderway
  <2>3. ReplyAlone(c)' /\ ErrMeansNone(c)' /\ Quiet(c)'
    BY <1>1, <1>4, <1>8 DEF ReplyAlone, ErrMeansNone, Quiet
  <2> QED BY <2>1, <2>2, <2>3 DEF Protocol
<1> QED BY <1>5, <1>7, <1>10 DEF IInv

(* Reading the reply empties the queue. *)
LEMMA Reading ==
    ASSUME IInv, NEW c \in Clients, clientQ[c] # <<>>
    PROVE  /\ Tail(clientQ[c]) = <<>>
           /\ Mine(c) = {}
           /\ Head(clientQ[c]) \in Replies
<1>1. clientQ[c] \in Seq(Replies)
  BY DEF IInv, TypeOK
<1>2. Len(clientQ[c]) = 1 /\ Mine(c) = {}
  BY DEF IInv, Protocol, ReplyAlone
<1>3. /\ Head(clientQ[c]) \in Replies
      /\ Tail(clientQ[c]) \in Seq(Replies)
      /\ Len(Tail(clientQ[c])) = 0
  BY <1>1, <1>2, HeadTailProperties
<1>4. Tail(clientQ[c]) = <<>>
  BY ONLY <1>3, EmptySeq
<1> QED BY <1>2, <1>3, <1>4

(* A client without messages under way and replies left is in step. *)
LEMMA Alone ==
    ASSUME NEW c \in Clients, Mine(c)' = {}, clientQ'[c] = <<>>,
           pc'[c] \in {"gone", "init", "cleanup"} => Of(c)' = {}
    PROVE  Protocol(c)'
BY DEF Protocol, InOrder, InitWaits, RequestWaits, ReplyAlone, Quiet, FinUnderway,
       ErrMeansNone

LEMMA RecvInitOK == ASSUME IInv, NEW c \in Clients, RecvInit(c) PROVE IInv'
<1>1. /\ pc[c] = "initReply" /\ clientQ[c] # <<>>
      /\ pc' = [pc EXCEPT ![c] = IF Head(clientQ[c]) = "err" THEN "cleanup" ELSE "command"]
      /\ clientQ' = [clientQ EXCEPT ![c] = Tail(clientQ[c])]
      /\ UNCHANGED <<sessions, cur, serverQ, exists, sent, outcome, runs, kills, restarts,
                     limits>>
  BY DEF RecvInit, serverVars, killVars
<1>2. Tail(clientQ[c]) = <<>> /\ Mine(c) = {}
  BY <1>1, Reading
<1>3. TypeOK
  BY DEF IInv
<1>4. /\ clientQ' \in [Clients -> Seq(Replies)]
      /\ clientQ'[c] = <<>>
      /\ pc'[c] = IF Head(clientQ[c]) = "err" THEN "cleanup" ELSE "command"
      /\ \A d \in Clients : d # c => pc'[d] = pc[d] /\ clientQ'[d] = clientQ[d]
  BY <1>1, <1>2, <1>3 DEF TypeOK
<1>5. TypeOK'
  BY <1>1, <1>3, <1>4 DEF TypeOK
<1>6. /\ OneSession' /\ \A d : Of(d)' = Of(d)
      /\ \A d : Mine(d)' = Mine(d)
      /\ \A d \in Clients : d # c => Protocol(d)'
  BY <1>1, <1>4, ClientOnly
<1>7. Head(clientQ[c]) = "err" => Of(c) = {}
  BY <1>1 DEF IInv, Protocol, ErrMeansNone
<1>8. Protocol(c)'
  BY <1>2, <1>4, <1>6, <1>7, Alone
<1> QED BY <1>5, <1>6, <1>8 DEF IInv

LEMMA RecvReplyOK == ASSUME IInv, NEW c \in Clients, RecvReply(c) PROVE IInv'
<1>1. /\ pc[c] = "reply" /\ clientQ[c] # <<>>
      /\ pc' = [pc EXCEPT ![c] = IF Head(clientQ[c]) = "ok" THEN "command" ELSE "fin"]
      /\ clientQ' = [clientQ EXCEPT ![c] = Tail(clientQ[c])]
      /\ UNCHANGED <<sessions, cur, serverQ, exists, sent, runs, kills, restarts, limits>>
  BY DEF RecvReply, serverVars, killVars
<1>2. Tail(clientQ[c]) = <<>> /\ Mine(c) = {} /\ Head(clientQ[c]) \in Replies
  BY <1>1, Reading
<1>3. TypeOK
  BY DEF IInv
<1>4. /\ clientQ' \in [Clients -> Seq(Replies)]
      /\ clientQ'[c] = <<>>
      /\ pc'[c] \in {"command", "fin"}
      /\ \A d \in Clients : d # c => pc'[d] = pc[d] /\ clientQ'[d] = clientQ[d]
  BY <1>1, <1>2, <1>3 DEF TypeOK
<1>5. outcome' \in [Clients -> {"none", "failed", "moved"}]
  <2>1. PICK id : id = Head(clientQ[c])
    OBVIOUS
  <2>2. PICK o : o = CASE id = "err" -> "failed"
                       [] id = "all_moved" -> "moved"
                       [] OTHER -> outcome[c]
    OBVIOUS
  <2>3. outcome' = [outcome EXCEPT ![c] = o]
    BY <2>1, <2>2, Zenon DEF RecvReply
  <2>4. o = "failed" \/ o = "moved" \/ o = outcome[c]
    BY <2>2, Zenon
  <2> QED BY <1>3, <2>3, <2>4 DEF TypeOK
<1>6. TypeOK'
  BY <1>1, <1>3, <1>4, <1>5 DEF TypeOK
<1>7. /\ OneSession' /\ \A d : Of(d)' = Of(d)
      /\ \A d : Mine(d)' = Mine(d)
      /\ \A d \in Clients : d # c => Protocol(d)'
  BY <1>1, <1>4, ClientOnly
<1>8. Protocol(c)'
  BY <1>2, <1>4, <1>7, Alone
<1> QED BY <1>6, <1>7, <1>8 DEF IInv

(* A new client finds the MSG_FIN of the old one under way, or no session. *)
LEMMA StartOK == ASSUME IInv, NEW c \in Clients, Start(c) PROVE IInv'
<1>1. /\ pc[c] = "gone" /\ runs[c] < limits.runs[c]
      /\ runs' = [runs EXCEPT ![c] = @ + 1]
      /\ exists' = [exists EXCEPT ![c] = TRUE]
      /\ clientQ' = [clientQ EXCEPT ![c] = <<>>]
      /\ pc' = [pc EXCEPT ![c] = "init"]
      /\ sent' = [sent EXCEPT ![c] = 0]
      /\ outcome' = [outcome EXCEPT ![c] = "none"]
      /\ UNCHANGED <<sessions, cur, serverQ, kills, restarts, limits>>
  BY DEF Start, serverVars, killVars
<1>2. TypeOK /\ limits.cmds \in Nat /\ limits \in Limits
      /\ \A d \in Clients : limits.runs[d] \in Nat
  BY LimitFacts DEF IInv
<1>3. /\ pc'[c] = "init" /\ clientQ'[c] = <<>>
      /\ \A d \in Clients : d # c => pc'[d] = pc[d] /\ clientQ'[d] = clientQ[d]
  BY <1>1, <1>2 DEF TypeOK
<1>4. TypeOK'
  <2>1. clientQ' \in [Clients -> Seq(Replies)]
    BY <1>1, <1>2 DEF TypeOK
  <2>2. \A d \in Clients : runs'[d] \in 0..limits.runs[d]
    BY <1>1, <1>2 DEF TypeOK
  <2>3. sent' \in [Clients -> 0..limits.cmds]
    BY <1>1, <1>2 DEF TypeOK
  <2> QED BY <1>1, <1>2, <2>1, <2>2, <2>3 DEF TypeOK
<1>5. /\ OneSession' /\ \A d : Of(d)' = Of(d)
      /\ \A d : Mine(d)' = Mine(d)
      /\ \A i : Item(i)' = Item(i)
      /\ \A d \in Clients : d # c => Protocol(d)'
  BY <1>1, <1>3, ClientOnly
<1>6. Protocol(c)'
  BY <1>1, <1>3, <1>5
     DEF IInv, Protocol, InOrder, InitWaits, RequestWaits, ReplyAlone, Quiet, FinUnderway,
         ErrMeansNone
<1> QED BY <1>4, <1>5, <1>6 DEF IInv

LEMMA CleanupOK == ASSUME IInv, NEW c \in Clients, Cleanup(c) PROVE IInv'
<1>1. /\ pc[c] = "cleanup"
      /\ exists' = [exists EXCEPT ![c] = FALSE]
      /\ clientQ' = [clientQ EXCEPT ![c] = <<>>]
      /\ pc' = [pc EXCEPT ![c] = "gone"]
      /\ UNCHANGED <<sessions, cur, serverQ, sent, outcome, runs, kills, restarts, limits>>
  BY DEF Cleanup, serverVars, killVars
<1>2. TypeOK
  BY DEF IInv
<1>3. /\ pc'[c] = "gone" /\ clientQ'[c] = <<>>
      /\ \A d \in Clients : d # c => pc'[d] = pc[d] /\ clientQ'[d] = clientQ[d]
  BY <1>1, <1>2 DEF TypeOK
<1>4. TypeOK'
  <2>1. clientQ' \in [Clients -> Seq(Replies)]
    BY <1>1, <1>2 DEF TypeOK
  <2> QED BY <1>1, <1>2, <2>1 DEF TypeOK
<1>5. /\ OneSession' /\ \A d : Of(d)' = Of(d)
      /\ \A d : Mine(d)' = Mine(d)
      /\ \A i : Item(i)' = Item(i)
      /\ \A d \in Clients : d # c => Protocol(d)'
  BY <1>1, <1>3, ClientOnly
<1>6. Protocol(c)'
  BY <1>1, <1>3, <1>5
     DEF IInv, Protocol, InOrder, InitWaits, RequestWaits, ReplyAlone, Quiet, FinUnderway,
         ErrMeansNone
<1> QED BY <1>4, <1>5, <1>6 DEF IInv

(* A killed client leaves everything as it is. *)
LEMMA KillOK == ASSUME IInv, NEW c \in Clients, Kill(c) PROVE IInv'
<1>1. /\ kills < limits.kills /\ kills' = kills + 1
      /\ pc' = [pc EXCEPT ![c] = "killed"]
      /\ UNCHANGED <<sessions, cur, serverQ, clientQ, exists, sent, outcome, runs, restarts,
                     limits>>
  BY DEF Kill, serverVars
<1>2. TypeOK /\ limits.kills \in Nat
  BY LimitFacts DEF IInv
<1>3. /\ pc'[c] = "killed" /\ clientQ'[c] = clientQ[c]
      /\ \A d \in Clients : d # c => pc'[d] = pc[d] /\ clientQ'[d] = clientQ[d]
  BY <1>1, <1>2 DEF TypeOK
<1>4. TypeOK'
  BY <1>1, <1>2 DEF TypeOK
<1>5. /\ OneSession' /\ \A d : Of(d)' = Of(d)
      /\ \A d : Mine(d)' = Mine(d)
      /\ \A i : Item(i)' = Item(i)
      /\ \A d \in Clients : d # c => Protocol(d)'
  BY <1>1, <1>3, ClientOnly
<1>6. Protocol(c)'
  BY <1>1, <1>3, <1>5
     DEF IInv, Protocol, InOrder, InitWaits, RequestWaits, ReplyAlone, Quiet, FinUnderway,
         ErrMeansNone
<1> QED BY <1>4, <1>5, <1>6 DEF IInv

-----------------------------------------------------------------------------
LEMMA InitOK == Init => IInv
<1> SUFFICES ASSUME Init PROVE IInv
  OBVIOUS
<1>1. limits \in Limits /\ limits.cmds \in Nat /\ limits.kills \in Nat
      /\ limits.restarts \in Nat /\ \A c \in Clients : limits.runs[c] \in Nat
  BY RiverAssumption DEF Init
<1>2. TypeOK
  BY <1>1 DEF Init, TypeOK
<1>3. Pipe = {}
  <2>1. Len(serverQ) = 0
    BY DEF Init
  <2>2. 0..0 = {0}
    OBVIOUS
  <2> QED BY <2>1, <2>2 DEF Init, Pipe
<1>4. \A c : Mine(c) = {} /\ Of(c) = {}
  BY <1>3 DEF Init, Mine, Of
<1>5. OneSession
  BY DEF Init, OneSession
<1>6. \A c \in Clients : Protocol(c)
  BY <1>4 DEF Init, Protocol, InOrder, InitWaits, RequestWaits, ReplyAlone, Quiet,
              FinUnderway, ErrMeansNone
<1> QED BY <1>2, <1>5, <1>6 DEF IInv

LEMMA StutterOK == ASSUME IInv, UNCHANGED vars PROVE IInv'
<1>1. UNCHANGED <<sessions, cur, serverQ, clientQ, exists, pc, sent, outcome, runs, kills,
                  restarts, limits>>
  BY DEF vars
<1>2. TypeOK'
  BY <1>1 DEF IInv, TypeOK
<1>3. OneSession'
  BY <1>1, SameSessions
<1>4. ASSUME NEW c \in Clients PROVE Protocol(c)'
  <2>1. /\ Of(c)' = Of(c) /\ Mine(c)' = Mine(c)
        /\ \A i : Item(i)' = Item(i)
    BY <1>1, ClientOnly
  <2> QED BY <1>1, <2>1
          DEF IInv, Protocol, InOrder, InitWaits, RequestWaits, ReplyAlone, Quiet, FinUnderway,
              ErrMeansNone
<1> QED BY <1>2, <1>3, <1>4 DEF IInv

LEMMA NextOK == IInv /\ [Next]_vars => IInv'
<1> SUFFICES ASSUME IInv, [Next]_vars PROVE IInv'
  OBVIOUS
<1>1. CASE UNCHANGED vars
  BY <1>1, StutterOK
<1>2. CASE ServerStep
  BY <1>2, ReceiveOK, HandleInitOK, NotRegisteredOK, SessionRequestOK, HandleFinOK
     DEF ServerStep, Handle
<1>3. CASE ServerRestart
  BY <1>3, ServerRestartOK
<1>4. ASSUME NEW c \in Clients, Start(c) \/ ClientStep(c) \/ Kill(c) PROVE IInv'
  BY <1>4, StartOK, KillOK, SendInitOK, RecvInitOK, SendCommandOK, RecvReplyOK, SendFinOK,
     CleanupOK DEF ClientStep
<1> QED BY <1>1, <1>2, <1>3, <1>4 DEF Next

(* Whatever is killed and however the messages interleave, the server's    *)
(* queue, its sessions and the clients stay in agreement.                  *)
THEOREM Invariance == Spec => []IInv
BY InitOK, NextOK, PTL DEF Spec

(* register_client adds a session without looking for an old one, and no   *)
(* queue id ever has two: the MSG_FIN of the old client is always handled  *)
(* before the MSG_INIT of the new one.                                     *)
THEOREM OneSessionAlways == Spec => []OneSessionPerQueue
<1>1. IInv => OneSessionPerQueue
  BY DEF IInv, OneSession, OneSessionPerQueue
<1> QED BY <1>1, Invariance, PTL

(* The msgrcv of a client takes the first message of its queue for the     *)
(* answer to its last request, and it always is: a queue holds one reply   *)
(* at most, and only while its client waits or has been killed.            *)
THEOREM ReplyInStepAlways == Spec => []ReplyInStep
<1>1. IInv => ReplyInStep
  <2> SUFFICES ASSUME IInv, NEW c \in Clients
               PROVE  /\ Len(clientQ[c]) <= 1
                      /\ clientQ[c] # <<>> => pc[c] \in {"initReply", "reply", "killed"}
    BY DEF ReplyInStep
  <2>1. ReplyAlone(c)
    BY DEF IInv, Protocol
  <2>2. CASE clientQ[c] = <<>>
    BY <2>2
  <2>3. CASE clientQ[c] # <<>>
    <3>1. Len(clientQ[c]) = 1 /\ pc[c] \in {"initReply", "reply", "killed"}
      BY <2>1, <2>3 DEF ReplyAlone
    <3>2. \A n : n = 1 => n <= 1
      OBVIOUS
    <3> QED BY <3>1, <3>2
  <2> QED BY <2>2, <2>3
<1> QED BY <1>1, Invariance, PTL

-----------------------------------------------------------------------------
(***************************************************************************)
(* What a session of the server in SP/task4 goes through is a play of the  *)
(* puzzle, and "All objects moved" is the truth, for every number of       *)
(* clients, every list of commands and every history of kills and          *)
(* restarts.  handle_take does not look at the shore of the object, and    *)
(* handle_move keeps a position in which something was eaten: that no move *)
(* follows it rests on the client, which leaves after an error, and on the *)
(* agreement between client and server proved above.                       *)
(***************************************************************************)

(* A client has its queue for as long as it runs, so it gets its replies. *)
Lands == \A c \in Clients : pc[c] # "gone" => exists[c]

(* handle_move answers with an error. *)
Ate(s) == Together(s, "wolf", "goat") \/ Together(s, "goat", "cabbage")

(* No command of the client is under way, and none will follow. *)
Over(c) ==
    /\ \A i \in Mine(c) : Item(i).id \in {"fin", "init"}
    /\ pc[c] # "command"
    /\ clientQ[c] # <<>> => Head(clientQ[c]) = "err"
    /\ pc[c] = "reply" => clientQ[c] # <<>>

(* The client has heard that everything is moved, or is about to. *)
Told(c) ==
    \/ pc[c] = "reply" /\ clientQ[c] # <<>> /\ Head(clientQ[c]) = "all_moved"
    \/ pc[c] = "fin" /\ outcome[c] = "moved"

Done(s) == AllMoved(s) /\ s.inBoat = NoObject

Truthful(s) == (Ate(s) => Over(s.qid)) /\ (Told(s.qid) => Done(s))

JInv == IInv /\ Lands /\ \A s \in Listed : Truthful(s)

-----------------------------------------------------------------------------
(* A session belongs to a client, and is the one get_session finds. *)
LEMMA ListedFacts ==
    ASSUME IInv, NEW s \in Listed
    PROVE  /\ s \in SessionRecords /\ s.qid \in Clients
           /\ Of(s.qid) # {}
           /\ SessionOf(s.qid) = s
<1>1. PICK i \in DOMAIN sessions : s = sessions[i]
  BY DEF Listed
<1>2. s \in SessionRecords
  <2>1. sessions \in Seq(SessionRecords)
    BY DEF IInv, TypeOK
  <2>2. DOMAIN sessions = 1..Len(sessions)
    BY ONLY <2>1, LenProperties
  <2> QED BY <1>1, <2>1, <2>2, ElementOfSeq
<1>3. i \in Of(s.qid)
  BY <1>1 DEF Of
<1>4. i = FirstOf(s.qid)
  BY <1>3, TheSession DEF IInv
<1> QED BY <1>1, <1>2, <1>3, <1>4 DEF SessionOf, SessionRecords

(* A session stays truthful when its client has no more under way than     *)
(* before and is told nothing new.                                         *)
LEMMA StaysTruthful ==
    ASSUME JInv, NEW s \in Listed, NEW k \in {0, 1},
           \A i \in Mine(s.qid)' : i + k \in Mine(s.qid) /\ Item(i)' = Item(i + k),
           pc'[s.qid] = pc[s.qid], clientQ'[s.qid] = clientQ[s.qid],
           outcome'[s.qid] = outcome[s.qid]
    PROVE  Truthful(s)'
<1>1. PICK c : c = s.qid
  OBVIOUS
<1>2. Truthful(s)
  BY DEF JInv
<1>3. Over(c) => Over(c)'
  BY <1>1 DEF Over
<1>4. Told(c)' => Told(c)
  BY <1>1 DEF Told
<1>5. Ate(s) => Over(c)'
  BY <1>1, <1>2, <1>3 DEF Truthful
<1>6. Told(c)' => Done(s)
  BY <1>1, <1>2, <1>4 DEF Truthful
<1> QED BY <1>1, <1>5, <1>6 DEF Truthful, Ate, Together, Done, AllMoved, Over, Told

(* To show that a session is truthful, once its queue id is given a name. *)
LEMMA TruthfulAt ==
    ASSUME NEW s, NEW c, s.qid = c,
           Ate(s) => Over(c)',
           Told(c)' => Done(s)
    PROVE  Truthful(s)'
BY DEF Truthful, Ate, Together, Done, AllMoved, Over, Told

(* A session whose client still waits for a command has nothing eaten. *)
LEMMA NothingEaten ==
    ASSUME JInv, NEW c, c = cur.qid, cur.id \in {"take", "put", "move"},
           NEW s \in Listed, s.qid = c
    PROVE  ~ Ate(s)
<1>1. cur # NoMsg /\ TypeOK
  BY DEF NoMsg, Msg, JInv, IInv
<1>2. Item(0) = cur /\ 0 \in Mine(c)
  BY <1>1, PipeFacts DEF Mine, Pipe, Item
<1>3. ~ Over(c)
  BY <1>2 DEF Over
<1> QED BY <1>3 DEF JInv, Truthful

(* A handler leaves the other sessions truthful; its own client has heard  *)
(* the reply or is not waiting.                                            *)
LEMMA HandlerTells ==
    ASSUME JInv, NEW c, c = cur.qid, NEW r \in Replies,
           cur.id \in {"init", "take", "put", "move"},
           Handles(cur.id), Reply(c, r)
    PROVE  /\ Lands'
           /\ \A s \in Listed : s.qid # c => Truthful(s)'
           /\ r = "err" => Over(c)'
           /\ Told(c)' => r = "all_moved"
<1>1. /\ cur' = NoMsg
      /\ UNCHANGED <<serverQ, exists, pc, sent, outcome, runs, kills, restarts, limits>>
  BY DEF Handles, clientVars, killVars
<1>2. IInv /\ TypeOK
  BY DEF JInv, IInv
<1>3. cur # NoMsg
  BY DEF NoMsg, Msg
<1>4. /\ cur \in Messages /\ c \in Clients
      /\ 0 \in Mine(c) /\ Item(0) = cur
      /\ \A d : Mine(d)' = Mine(d) \ {0}
      /\ \A d : d # c => Mine(d)' = Mine(d)
      /\ \A d : \A i \in Mine(d)' : Item(i)' = Item(i)
  BY <1>1, <1>2, <1>3, Handled
<1>5. \A d \in Clients : d # c => clientQ'[d] = clientQ[d]
  BY <1>2, <1>4, Replied
<1>6. /\ Mine(c)' = {}
      /\ clientQ[c] = <<>>
      /\ pc[c] \in {"initReply", "reply", "killed"}
  BY <1>2, <1>4, InHand DEF IInv
<1>7. Lands'
  BY <1>1 DEF JInv, Lands
<1>8. clientQ'[c] = <<r>>
  <2>1. exists[c]
    BY <1>4, <1>6 DEF JInv, Lands
  <2>2. clientQ' = [clientQ EXCEPT ![c] = Append(@, r)]
    BY <2>1 DEF Reply
  <2> QED BY <1>2, <1>4, <1>6, <2>2 DEF TypeOK
<1>9. Head(<<r>>) = r /\ <<r>> # <<>>
  OBVIOUS
<1>10. Head(clientQ'[c]) = r /\ clientQ'[c] # <<>>
  BY ONLY <1>8, <1>9
<1>11. r = "err" => Over(c)'
  BY <1>1, <1>6, <1>10 DEF Over
<1>12. Told(c)' => r = "all_moved"
  BY <1>1, <1>6, <1>10 DEF Told
<1>13. ASSUME NEW s \in Listed, s.qid # c PROVE Truthful(s)'
  <2>1. s.qid \in Clients
    BY <1>2, ListedFacts
  <2>2. \A i \in Mine(s.qid) : i \in Int
    BY <1>2, PipeFacts
  <2>3. \A i \in Mine(s.qid)' : i + 0 \in Mine(s.qid) /\ Item(i)' = Item(i + 0)
    <3>1. PICK d : d = s.qid
      OBVIOUS
    <3>2. \A i \in Mine(d)' : i \in Int /\ i \in Mine(d) /\ Item(i)' = Item(i)
      BY <1>4, <1>13, <2>2, <3>1
    <3>3. \A i \in Mine(d)' : i + 0 \in Mine(d) /\ Item(i)' = Item(i + 0)
      BY <3>2
    <3> QED BY <3>1, <3>3
  <2>4. 0 \in {0, 1} /\ pc'[s.qid] = pc[s.qid] /\ outcome'[s.qid] = outcome[s.qid]
        /\ clientQ'[s.qid] = clientQ[s.qid]
    BY <1>1, <1>5, <1>13, <2>1
  <2> QED BY <2>3, <2>4, StaysTruthful
<1> QED BY <1>7, <1>11, <1>12, <1>13

LEMMA InitsTrue ==
    ASSUME JInv, HandleInit \/ HandleInitNoMemory
    PROVE  Lands' /\ \A s \in Listed' : Truthful(s)'
<1>1. cur.id = "init" /\ Handles(cur.id)
  BY DEF HandleInit, HandleInitNoMemory, Handles
<1>2. PICK c : c = cur.qid
  OBVIOUS
<1>3. IInv
  BY DEF JInv
<1>4. Of(c) = {} /\ c \in Clients
  BY <1>1, <1>2, <1>3, InitIsNew
<1>5. CASE HandleInit
  <2>1. sessions' = <<NewSession(c)>> \o sessions /\ Reply(c, "ok") /\ "ok" \in Replies
    BY <1>2, <1>5 DEF HandleInit, Replies
  <2>2. \A t \in Listed' : t = NewSession(c) \/ (t \in Listed /\ t.qid # c)
    BY <1>3, <1>4, <2>1, Registering DEF IInv
  <2>3. /\ Lands'
        /\ \A s \in Listed : s.qid # c => Truthful(s)'
        /\ ~ Told(c)'
    BY <1>1, <1>2, <2>1, HandlerTells
  <2>4. NewSession(c).qid = c /\ ~ Ate(NewSession(c))
    <3>1. /\ NewSession(c).qid = c /\ NewSession(c).right = {}
          /\ NewSession(c).boat = FALSE
      BY DEF NewSession
    <3>2. \A a : (a \in {}) = FALSE
      OBVIOUS
    <3>3. \A a, b : ~ Together(NewSession(c), a, b)
      BY <3>1, <3>2, Zenon DEF Together
    <3>4. ~ Ate(NewSession(c))
      BY <3>3 DEF Ate
    <3> QED BY <3>1, <3>4
  <2>5. Truthful(NewSession(c))'
    BY <2>3, <2>4, TruthfulAt
  <2> QED BY <2>2, <2>3, <2>5
<1>6. CASE HandleInitNoMemory
  <2>1. sessions' = sessions /\ Reply(c, "err") /\ "err" \in Replies
    BY <1>2, <1>6 DEF HandleInitNoMemory, Replies
  <2>2. Listed' = Listed /\ \A s \in Listed : s.qid # c
    BY <1>4, <2>1 DEF Listed, Of
  <2> QED BY <1>1, <1>2, <2>1, <2>2, HandlerTells
<1> QED BY <1>5, <1>6

LEMMA NotRegisteredTrue ==
    ASSUME JInv, NotRegistered
    PROVE  Lands' /\ \A s \in Listed' : Truthful(s)'
<1>1. /\ cur.id \in {"take", "put", "move"} /\ Handles(cur.id)
      /\ sessions' = sessions /\ Of(cur.qid) = {}
  BY DEF NotRegistered, Handles
<1>2. PICK c : c = cur.qid
  OBVIOUS
<1>3. Reply(c, "err") /\ "err" \in Replies
  BY <1>2 DEF NotRegistered, Replies
<1>4. Listed' = Listed /\ \A s \in Listed : s.qid # c
  BY <1>1, <1>2 DEF Listed, Of
<1> QED BY <1>1, <1>2, <1>3, <1>4, HandlerTells

(* How a command changes the session s into t, and what it answers. *)
Takes(s, t, r) ==
    \/ t = s /\ r = "err"
    \/ \E o \in Objects \cup {NoObject} : t = [s EXCEPT !.inBoat = o] /\ r = "ok"

Puts(s, t, r) ==
    \/ t = s /\ r = "err"
    \/ /\ t = [s EXCEPT !.inBoat = NoObject]
       /\ r = IF AllMoved(s) THEN "all_moved" ELSE "ok"

Moves(s, t, r) == t = Moved(s) /\ r = IF Ate(t) THEN "err" ELSE "ok"

(* take, put and move change one session. *)
LEMMA SessionRequest ==
    ASSUME IInv, HandleTake \/ HandlePut \/ HandleMove
    PROVE  \E c \in Clients, s \in Listed, t \in SessionRecords, r \in Replies :
              /\ c = cur.qid /\ s.qid = c /\ t.qid = c
              /\ cur.id \in {"take", "put", "move"} /\ Handles(cur.id)
              /\ Reply(c, r)
              /\ FirstOf(c) \in DOMAIN sessions /\ sessions[FirstOf(c)] = s
              /\ sessions' = [sessions EXCEPT ![FirstOf(c)] = t]
              /\ Takes(s, t, r) \/ Puts(s, t, r) \/ Moves(s, t, r)
<1>1. /\ cur.id \in {"take", "put", "move"} /\ Handles(cur.id)
      /\ Of(cur.qid) # {}
  BY DEF HandleTake, HandlePut, HandleMove, Handles
<1>2. PICK c : c = cur.qid
  OBVIOUS
<1>3. PICK s : s = sessions[FirstOf(c)]
  OBVIOUS
<1>4. FirstOf(c) \in DOMAIN sessions /\ s.qid = c
  BY <1>1, <1>2, <1>3, TheSession DEF IInv
<1>5. s \in Listed
  BY <1>3, <1>4 DEF Listed
<1>6. s \in SessionRecords /\ c \in Clients
  BY <1>4, <1>5, ListedFacts
<1>7. sessions = [sessions EXCEPT ![FirstOf(c)] = s]
  <2>1. sessions \in Seq(SessionRecords)
    BY DEF IInv, TypeOK
  <2>2. sessions \in [1..Len(sessions) -> SessionRecords]
    BY ONLY <2>1, LenProperties
  <2> QED BY <1>3, <2>2
<1>8. \E t \in SessionRecords, r \in Replies :
         /\ t.qid = c /\ Reply(c, r)
         /\ sessions' = [sessions EXCEPT ![FirstOf(c)] = t]
         /\ Takes(s, t, r) \/ Puts(s, t, r) \/ Moves(s, t, r)
  <2>1. {"ok", "err", "all_moved"} \subseteq Replies
    BY DEF Replies
  <2>2. CASE Reply(c, "err") /\ sessions' = sessions /\ (HandleTake \/ HandlePut)
    <3>1. Takes(s, s, "err")
      BY DEF Takes
    <3> QED BY <1>4, <1>6, <1>7, <2>1, <2>2, <3>1
  <2>3. CASE HandleTake /\ ~ (Reply(c, "err") /\ sessions' = sessions)
    <3> DEFINE t == [s EXCEPT !.inBoat = cur.obj]
    <3>1. sessions' = [sessions EXCEPT ![FirstOf(c)].inBoat = cur.obj] /\ Reply(c, "ok")
      BY <1>2, <2>3 DEF HandleTake
    <3>2. sessions' = [sessions EXCEPT ![FirstOf(c)] = t]
      BY <1>3, <3>1
    <3>3. cur.obj \in Objects \cup {NoObject}
      BY <1>1 DEF IInv, TypeOK, NoMsg, Msg, Messages
    <3>4. t \in SessionRecords /\ t.qid = c
      BY <1>4, <1>6, <3>3 DEF SessionRecords
    <3>5. Takes(s, t, "ok")
      BY <3>3 DEF Takes
    <3> QED BY <2>1, <3>1, <3>2, <3>4, <3>5
  <2>4. CASE HandlePut /\ ~ (Reply(c, "err") /\ sessions' = sessions)
    <3> DEFINE t == [s EXCEPT !.inBoat = NoObject]
               r == IF AllMoved(s) THEN "all_moved" ELSE "ok"
    <3>1. sessions' = [sessions EXCEPT ![FirstOf(c)].inBoat = NoObject] /\ Reply(c, r)
      BY <1>2, <1>3, <2>4 DEF HandlePut
    <3>2. sessions' = [sessions EXCEPT ![FirstOf(c)] = t]
      BY <1>3, <3>1
    <3>3. t \in SessionRecords /\ t.qid = c
      BY <1>4, <1>6 DEF SessionRecords
    <3>4. Puts(s, t, r) /\ r \in Replies
      BY <2>1 DEF Puts
    <3> QED BY <3>1, <3>2, <3>3, <3>4
  <2>5. CASE HandleMove
    <3> DEFINE t == Moved(s)
               r == IF Ate(t) THEN "err" ELSE "ok"
    <3>1. sessions' = [sessions EXCEPT ![FirstOf(c)] = t] /\ Reply(c, r)
      BY <1>2, <1>3, <2>5 DEF HandleMove, Ate
    <3>2. t \in SessionRecords /\ t.qid = c
      BY <1>4, <1>6 DEF Moved, SessionRecords
    <3>3. Moves(s, t, r) /\ r \in Replies
      BY <2>1 DEF Moves
    <3> QED BY <3>1, <3>2, <3>3
  <2> QED BY <2>2, <2>3, <2>4, <2>5
<1> QED BY <1>1, <1>2, <1>3, <1>4, <1>5, <1>6, <1>8

LEMMA SessionRequestTrue ==
    ASSUME JInv, HandleTake \/ HandlePut \/ HandleMove
    PROVE  Lands' /\ \A s \in Listed' : Truthful(s)'
<1>1. IInv /\ TypeOK /\ OneSession
  BY DEF JInv, IInv
<1>2. PICK c \in Clients, s \in Listed, t \in SessionRecords, r \in Replies :
        /\ c = cur.qid /\ s.qid = c /\ t.qid = c
        /\ cur.id \in {"take", "put", "move"} /\ Handles(cur.id)
        /\ Reply(c, r)
        /\ FirstOf(c) \in DOMAIN sessions /\ sessions[FirstOf(c)] = s
        /\ sessions' = [sessions EXCEPT ![FirstOf(c)] = t]
        /\ Takes(s, t, r) \/ Puts(s, t, r) \/ Moves(s, t, r)
  BY <1>1, SessionRequest
<1>3. ~ Ate(s)
  BY <1>2, NothingEaten
<1>4. \A u \in Listed' : u = t \/ (u \in Listed /\ u.qid # c)
  BY <1>1, <1>2, OneChanged
<1>5. /\ Lands'
      /\ \A u \in Listed : u.qid # c => Truthful(u)'
      /\ r = "err" => Over(c)'
      /\ Told(c)' => r = "all_moved"
  BY <1>2, HandlerTells
<1>6. s \in SessionRecords
  BY <1>1, ListedFacts
<1>7. (Ate(t) => r = "err") /\ (r = "all_moved" => Done(t))
  <2>1. CASE Takes(s, t, r)
    BY <1>3, <1>6, <2>1 DEF Takes, Ate, Together, SessionRecords
  <2>2. CASE Puts(s, t, r)
    BY <1>3, <1>6, <2>2 DEF Puts, Ate, Together, SessionRecords, Done, AllMoved
  <2>3. CASE Moves(s, t, r)
    BY <2>3 DEF Moves
  <2> QED BY <1>2, <2>1, <2>2, <2>3
<1>8. Truthful(t)'
  BY <1>2, <1>5, <1>7, TruthfulAt
<1> QED BY <1>4, <1>5, <1>8

LEMMA FinTrue ==
    ASSUME JInv, HandleFin PROVE Lands' /\ \A s \in Listed' : Truthful(s)'
<1>1. /\ cur.id = "fin" /\ cur' = NoMsg
      /\ UNCHANGED <<serverQ, clientQ, exists, pc, sent, outcome, runs, kills, restarts,
                     limits>>
  BY DEF HandleFin, Handles, clientVars, killVars
<1>2. IInv /\ TypeOK /\ OneSession
  BY DEF JInv, IInv
<1>3. cur # NoMsg
  BY <1>1 DEF NoMsg, Msg
<1>4. PICK c : c = cur.qid
  OBVIOUS
<1>5. /\ \A d : Mine(d)' = Mine(d) \ {0}
      /\ \A d : \A i \in Mine(d)' : Item(i)' = Item(i)
  BY <1>1, <1>2, <1>3, <1>4, Handled
<1>6. \A s \in Listed' : s \in Listed
  <2>1. CASE Of(c) = {}
    BY <1>4, <2>1 DEF HandleFin, Listed
  <2>2. CASE Of(c) # {}
    <3>1. sessions' = RemoveAt(sessions, FirstOf(c))
      BY <1>4, <2>2 DEF HandleFin
    <3> QED BY <1>2, <2>2, <3>1, Unregistering
  <2> QED BY <2>1, <2>2
<1>7. Lands'
  BY <1>1 DEF JInv, Lands
<1>8. ASSUME NEW s \in Listed PROVE Truthful(s)'
  <2>1. PICK d : d = s.qid
    OBVIOUS
  <2>2. \A i \in Mine(d) : i \in Int
    BY <1>2, PipeFacts
  <2>3. \A i \in Mine(d)' : i \in Int /\ i \in Mine(d) /\ Item(i)' = Item(i)
    BY <1>5, <2>2
  <2>4. \A i \in Mine(d)' : i + 0 \in Mine(d) /\ Item(i)' = Item(i + 0)
    BY <2>3
  <2>5. 0 \in {0, 1}
    OBVIOUS
  <2> QED BY <1>1, <2>1, <2>4, <2>5, StaysTruthful
<1> QED BY <1>6, <1>7, <1>8

LEMMA ReceiveTrue ==
    ASSUME JInv, Receive PROVE Lands' /\ \A s \in Listed' : Truthful(s)'
<1>1. UNCHANGED <<sessions, clientQ, exists, pc, outcome>>
  BY DEF Receive, clientVars
<1>2. \A d : \A i \in Mine(d)' : i + 1 \in Mine(d) /\ Item(i)' = Item(i + 1)
  BY ReceiveShifts DEF JInv
<1>3. Lands' /\ Listed' = Listed
  BY <1>1 DEF JInv, Lands, Listed
<1>4. ASSUME NEW s \in Listed PROVE Truthful(s)'
  <2>1. PICK d : d = s.qid
    OBVIOUS
  <2>2. 1 \in {0, 1}
    OBVIOUS
  <2> QED BY <1>1, <1>2, <2>1, <2>2, StaysTruthful
<1> QED BY <1>3, <1>4

-----------------------------------------------------------------------------
(* A step of the client c leaves the sessions of the others truthful, and  *)
(* its own if the client keeps to the rules.                               *)
LEMMA ClientTrue ==
    ASSUME JInv, NEW c \in Clients, sessions' = sessions,
           \A d : d # c => Mine(d)' = Mine(d),
           \A d : \A i \in Mine(d) : Item(i)' = Item(i),
           \A d \in Clients : d # c =>
              /\ pc'[d] = pc[d] /\ clientQ'[d] = clientQ[d]
              /\ outcome'[d] = outcome[d] /\ exists'[d] = exists[d],
           pc'[c] # "gone" => exists'[c],
           Of(c) # {} /\ Over(c) => Over(c)',
           Of(c) # {} /\ Told(c)' => Told(c)
    PROVE  Lands' /\ \A s \in Listed' : Truthful(s)'
<1>1. IInv /\ TypeOK
  BY DEF JInv, IInv
<1>2. Lands'
  BY DEF JInv, Lands
<1>3. Listed' = Listed
  BY DEF Listed
<1>4. ASSUME NEW s \in Listed PROVE Truthful(s)'
  <2>1. PICK d : d = s.qid
    OBVIOUS
  <2>2. d \in Clients /\ Of(d) # {}
    BY <1>1, <2>1, ListedFacts
  <2>3. CASE d # c
    <3>1. \A i \in Mine(d) : i \in Int
      BY <1>1, PipeFacts
    <3>2. \A i \in Mine(d)' : i \in Int /\ i \in Mine(d) /\ Item(i)' = Item(i)
      BY <2>3, <3>1
    <3>3. \A i \in Mine(d)' : i + 0 \in Mine(d) /\ Item(i)' = Item(i + 0)
      BY <3>2
    <3>4. 0 \in {0, 1}
      OBVIOUS
    <3> QED BY <2>1, <2>2, <2>3, <3>3, <3>4, StaysTruthful
  <2>4. CASE d = c
    <3>1. Truthful(s)
      BY DEF JInv
    <3>2. Ate(s) => Over(c)'
      BY <2>1, <2>2, <2>4, <3>1 DEF Truthful
    <3>3. Told(c)' => Done(s)
      BY <2>1, <2>2, <2>4, <3>1 DEF Truthful
    <3> QED BY <2>1, <2>4, <3>2, <3>3, TruthfulAt
  <2> QED BY <2>3, <2>4
<1> QED BY <1>2, <1>3, <1>4

LEMMA SendsTrue ==
    ASSUME JInv, NEW c \in Clients, SendInit(c) \/ SendCommand(c) \/ SendFin(c)
    PROVE  Lands' /\ \A s \in Listed' : Truthful(s)'
<1>1. /\ UNCHANGED <<sessions, cur, clientQ, exists, outcome>>
      /\ \/ pc[c] = "init" /\ pc' = [pc EXCEPT ![c] = "initReply"]
         \/ pc[c] = "command" /\ pc' = [pc EXCEPT ![c] = "reply"]
         \/ pc[c] \in {"command", "fin"} /\ pc' = [pc EXCEPT ![c] = "cleanup"]
  BY DEF SendInit, SendCommand, SendFin, serverVars
<1>2. PICK m \in Messages :
        /\ serverQ' = Append(serverQ, m) /\ m.qid = c
        /\ pc'[c] # "reply" => m.id \in {"init", "fin"}
  <2>1. pc \in [Clients -> {"gone", "init", "initReply", "command", "reply", "fin",
                            "cleanup", "killed"}]
    BY DEF JInv, IInv, TypeOK
  <2>2. CASE SendInit(c)
    BY <2>2, SentMessages DEF SendInit, Send, Msg
  <2>3. CASE SendCommand(c)
    <3>1. pc'[c] = "reply"
      BY <2>1, <2>3 DEF SendCommand
    <3>2. PICK m \in Requests(c) : serverQ' = Append(serverQ, m)
      BY <2>3 DEF SendCommand, Send
    <3> QED BY <3>1, <3>2, SentMessages
  <2>4. CASE SendFin(c)
    BY <2>4, SentMessages DEF SendFin, Send, Msg
  <2> QED BY <2>2, <2>3, <2>4
<1>3. IInv /\ TypeOK /\ Lands
  BY DEF JInv, IInv
<1>4. /\ \A d \in Clients : d # c => pc'[d] = pc[d]
      /\ \/ pc'[c] = "initReply" /\ pc[c] = "init"
         \/ pc'[c] = "reply" /\ pc[c] = "command"
         \/ pc'[c] = "cleanup" /\ pc[c] # "gone"
  <2>1. DOMAIN pc = Clients /\ pc = [d \in Clients |-> pc[d]]
    BY <1>3 DEF TypeOK
  <2>2. ASSUME NEW v, pc' = [pc EXCEPT ![c] = v]
        PROVE  pc'[c] = v /\ \A d \in Clients : d # c => pc'[d] = pc[d]
    BY <2>1, <2>2
  <2>3. CASE pc[c] = "init" /\ pc' = [pc EXCEPT ![c] = "initReply"]
    BY <2>2, <2>3
  <2>4. CASE pc[c] = "command" /\ pc' = [pc EXCEPT ![c] = "reply"]
    BY <2>2, <2>4
  <2>5. CASE pc[c] \in {"command", "fin"} /\ pc' = [pc EXCEPT ![c] = "cleanup"]
    BY <2>2, <2>5
  <2> QED BY <1>1, <2>3, <2>4, <2>5
<1>5. PICK k : k = Len(serverQ) + 1
  OBVIOUS
<1>6. /\ Mine(c)' = Mine(c) \cup {k}
      /\ \A d : d # c => Mine(d)' = Mine(d)
      /\ \A d : \A i \in Mine(d) : Item(i)' = Item(i)
      /\ Item(k)' = m
  BY <1>1, <1>2, <1>3, <1>5, Sending
<1>7. pc'[c] # "gone" => exists'[c]
  BY <1>1, <1>3, <1>4 DEF Lands
<1>8. ASSUME Over(c) PROVE Over(c)'
  <2>1. pc'[c] # "reply" /\ pc'[c] # "command"
    BY <1>4, <1>8 DEF Over
  <2>2. \A i \in Mine(c)' : Item(i)'.id \in {"fin", "init"}
    BY <1>2, <1>6, <1>8, <2>1 DEF Over
  <2>3. clientQ'[c] # <<>> => Head(clientQ'[c]) = "err"
    BY <1>1, <1>8 DEF Over
  <2> QED BY <2>1, <2>2, <2>3 DEF Over
<1>9. ~ Told(c)'
  <2>1. pc[c] = "command" => clientQ[c] = <<>>
    BY <1>3 DEF IInv, Protocol, ReplyAlone
  <2> QED BY <1>1, <1>4, <2>1 DEF Told
<1> QED BY <1>1, <1>4, <1>6, <1>7, <1>8, <1>9, ClientTrue

LEMMA ReadsTrue ==
    ASSUME JInv, NEW c \in Clients, RecvInit(c) \/ RecvReply(c)
    PROVE  Lands' /\ \A s \in Listed' : Truthful(s)'
<1>1. /\ UNCHANGED <<sessions, cur, serverQ, exists>>
      /\ clientQ[c] # <<>> /\ clientQ' = [clientQ EXCEPT ![c] = Tail(clientQ[c])]
      /\ pc[c] \in {"initReply", "reply"}
  BY DEF RecvInit, RecvReply, serverVars
<1>2. IInv /\ TypeOK /\ Lands
  BY DEF JInv, IInv
<1>3. Tail(clientQ[c]) = <<>> /\ Mine(c) = {} /\ Head(clientQ[c]) \in Replies
  BY <1>1, <1>2, Reading
<1>4. PICK id : id = Head(clientQ[c])
  OBVIOUS
<1>5. \/ /\ pc[c] = "initReply"
         /\ pc' = [pc EXCEPT ![c] = IF id = "err" THEN "cleanup" ELSE "command"]
      \/ /\ pc[c] = "reply"
         /\ pc' = [pc EXCEPT ![c] = IF id = "ok" THEN "command" ELSE "fin"]
  BY <1>4 DEF RecvInit, RecvReply
<1>6. PICK o : /\ outcome' = [outcome EXCEPT ![c] = o]
               /\ pc[c] = "reply" /\ id = "err" => o = "failed"
  <2>1. CASE RecvInit(c)
    <3>1. outcome' = [outcome EXCEPT ![c] = outcome[c]]
      BY <1>2, <2>1 DEF RecvInit, TypeOK
    <3>2. pc[c] = "initReply"
      BY <2>1 DEF RecvInit
    <3> QED BY <3>1, <3>2
  <2>2. CASE RecvReply(c)
    <3>1. PICK o : o = CASE id = "err" -> "failed"
                         [] id = "all_moved" -> "moved"
                         [] OTHER -> outcome[c]
      OBVIOUS
    <3>2. outcome' = [outcome EXCEPT ![c] = o]
      BY <1>4, <2>2, <3>1, Zenon DEF RecvReply
    <3>3. "err" # "all_moved"
      OBVIOUS
    <3>4. id = "err" => o = "failed"
      BY <3>1, <3>3, Zenon
    <3> QED BY <3>2, <3>4
  <2> QED BY <2>1, <2>2
<1>7. /\ clientQ'[c] = <<>> /\ outcome'[c] = o
      /\ \/ pc[c] = "initReply" /\ pc'[c] = (IF id = "err" THEN "cleanup" ELSE "command")
         \/ pc[c] = "reply" /\ pc'[c] = (IF id = "ok" THEN "command" ELSE "fin")
      /\ \A d \in Clients : d # c =>
            pc'[d] = pc[d] /\ clientQ'[d] = clientQ[d] /\ outcome'[d] = outcome[d]
  <2>1. DOMAIN pc = Clients /\ DOMAIN clientQ = Clients /\ DOMAIN outcome = Clients
    BY <1>2 DEF TypeOK
  <2>2. /\ clientQ'[c] = <<>> /\ outcome'[c] = o
        /\ \A d \in Clients : d # c => clientQ'[d] = clientQ[d] /\ outcome'[d] = outcome[d]
    BY <1>1, <1>3, <1>6, <2>1
  <2>3. /\ \/ pc[c] = "initReply" /\ pc'[c] = (IF id = "err" THEN "cleanup" ELSE "command")
           \/ pc[c] = "reply" /\ pc'[c] = (IF id = "ok" THEN "command" ELSE "fin")
        /\ \A d \in Clients : d # c => pc'[d] = pc[d]
    BY <1>5, <2>1
  <2> QED BY <2>2, <2>3
<1>8. /\ \A d : Mine(d)' = Mine(d)
      /\ \A i : Item(i)' = Item(i)
  BY <1>1, <1>2, <1>7, ClientOnly
<1>9. pc'[c] # "gone" => exists'[c]
  BY <1>1, <1>2 DEF Lands
<1>10. ASSUME Of(c) # {}, Over(c) PROVE Over(c)'
  <2>1. id = "err"
    BY <1>1, <1>4, <1>10 DEF Over
  <2>2. pc[c] # "initReply"
    BY <1>1, <1>2, <1>4, <1>10, <2>1 DEF IInv, Protocol, ErrMeansNone
  <2>3. pc'[c] = "fin"
    BY <1>7, <2>1, <2>2
  <2> QED BY <1>3, <1>7, <1>8, <2>3 DEF Over
<1>11. ASSUME Told(c)' PROVE Told(c)
  <2>1. pc'[c] = "fin" /\ outcome'[c] = "moved"
    BY <1>7, <1>11 DEF Told
  <2>2. pc[c] = "reply" /\ id # "ok" /\ o = "moved"
    BY <1>7, <2>1
  <2>3. id = "all_moved"
    BY <1>3, <1>4, <1>6, <2>2 DEF Replies
  <2> QED BY <1>1, <1>4, <2>2, <2>3 DEF Told
<1> QED BY <1>1, <1>7, <1>8, <1>9, <1>10, <1>11, ClientTrue

LEMMA LifeTrue ==
    ASSUME JInv, NEW c \in Clients, Start(c) \/ Cleanup(c) \/ Kill(c)
    PROVE  Lands' /\ \A s \in Listed' : Truthful(s)'
<1>1. UNCHANGED <<sessions, cur, serverQ>>
  BY DEF Start, Cleanup, Kill, serverVars
<1>2. IInv /\ TypeOK /\ Lands
  BY DEF JInv, IInv
<1>3. \A d \in Clients : d # c =>
         /\ pc'[d] = pc[d] /\ clientQ'[d] = clientQ[d]
         /\ outcome'[d] = outcome[d] /\ exists'[d] = exists[d]
  BY <1>2 DEF Start, Cleanup, Kill, TypeOK
<1>4. /\ pc'[c] \in {"init", "gone", "killed"}
      /\ pc'[c] # "gone" => exists'[c]
      /\ clientQ'[c] = <<>> \/ clientQ'[c] = clientQ[c]
  BY <1>2 DEF Start, Cleanup, Kill, TypeOK, Lands
<1>5. /\ \A d : Mine(d)' = Mine(d)
      /\ \A i : Item(i)' = Item(i)
  BY <1>1, <1>2, <1>3, ClientOnly
<1>6. Over(c) => Over(c)'
  BY <1>4, <1>5 DEF Over
<1>7. ~ Told(c)'
  BY <1>4 DEF Told
<1> QED BY <1>1, <1>3, <1>4, <1>5, <1>6, <1>7, ClientTrue

-----------------------------------------------------------------------------
LEMMA TrueInit == Init => JInv
<1> SUFFICES ASSUME Init PROVE JInv
  OBVIOUS
<1>1. Listed = {}
  BY DEF Init, Listed
<1>2. Lands
  BY DEF Init, Lands
<1> QED BY <1>1, <1>2, InitOK DEF JInv

LEMMA TrueNext == JInv /\ [Next]_vars => JInv'
<1> SUFFICES ASSUME JInv, [Next]_vars PROVE JInv'
  OBVIOUS
<1>1. IInv'
  BY NextOK DEF JInv
<1>2. Lands' /\ \A s \in Listed' : Truthful(s)'
  <2>1. CASE UNCHANGED vars
    BY <2>1 DEF vars, JInv, Lands, Listed, Truthful, Over, Told, Mine, Pipe, Item
  <2>2. CASE ServerStep
    BY <2>2, ReceiveTrue, InitsTrue, NotRegisteredTrue, SessionRequestTrue, FinTrue
       DEF ServerStep, Handle
  <2>3. CASE ServerRestart
    BY <2>3 DEF ServerRestart, clientVars, JInv, Lands, Listed
  <2>4. ASSUME NEW c \in Clients, Start(c) \/ ClientStep(c) \/ Kill(c)
        PROVE  Lands' /\ \A s \in Listed' : Truthful(s)'
    BY <2>4, SendsTrue, ReadsTrue, LifeTrue DEF ClientStep
  <2> QED BY <2>1, <2>2, <2>3, <2>4 DEF Next
<1> QED BY <1>1, <1>2 DEF JInv

(* Whatever is killed and however the messages interleave, client and      *)
(* server agree on what was answered and on what may still come.           *)
THEOREM TrueAlways == Spec => []JInv
BY TrueInit, TrueNext, PTL DEF Spec

(* The client prints "All objects moved" after MSG_ALL_MOVED, and then     *)
(* everything is across, nothing is in the boat and nothing was eaten.     *)
THEOREM MovedIsTrueAlways == Spec => []MovedIsTrue
<1>1. JInv => MovedIsTrue
  <2> SUFFICES ASSUME JInv, NEW c \in Clients,
                      pc[c] = "fin", outcome[c] = "moved", Of(c) # {}
               PROVE  /\ SessionOf(c).right = Objects
                      /\ SessionOf(c).boat
                      /\ SessionOf(c).inBoat = NoObject
    BY DEF MovedIsTrue
  <2>1. FirstOf(c) \in DOMAIN sessions /\ sessions[FirstOf(c)].qid = c
    BY TheSession DEF JInv, IInv
  <2>2. PICK s \in Listed : s = SessionOf(c) /\ s.qid = c
    BY <2>1 DEF Listed, SessionOf
  <2>3. Told(c)
    BY DEF Told
  <2> QED BY <2>2, <2>3 DEF JInv, Truthful, Done, AllMoved
<1> QED BY <1>1, TrueAlways, PTL

-----------------------------------------------------------------------------
Right == [c \in Clients |-> SessionOf(c).right]
Boat == [c \in Clients |-> SessionOf(c).boat]

(* handle_move carries what is in the boat if it was on the boat's shore,  *)
(* and otherwise nothing.                                                  *)
LEMMA Carries ==
    ASSUME NEW s \in SessionRecords
    PROVE  \E cargo \in SUBSET {o \in Objects : (o \in s.right) = s.boat} :
              /\ \A a, b \in cargo : a = b
              /\ Moved(s).right = IF s.boat THEN s.right \ cargo ELSE s.right \cup cargo
              /\ Moved(s).boat = ~ s.boat
              /\ Moved(s).qid = s.qid
<1>1. s.right \in SUBSET Objects /\ s.boat \in BOOLEAN
  BY DEF SessionRecords
<1>2. PICK r : r = s.right
  OBVIOUS
<1>3. PICK x : x = s.inBoat
  OBVIOUS
<1>4. /\ Moved(s).right = IF ~ s.boat THEN r \cup ({x} \cap Objects) ELSE r \ {x}
      /\ Moved(s).boat = ~ s.boat
      /\ Moved(s).qid = s.qid
  BY <1>2, <1>3 DEF Moved, SessionRecords
<1>6. CASE s.boat
  <2>1. s.boat = TRUE
    BY <1>1, <1>6
  <2> DEFINE cargo == {x} \cap r
  <2>2. cargo = {} \/ cargo = {x}
    OBVIOUS
  <2>3. r \ cargo = r \ {x}
    OBVIOUS
  <2>4. cargo \in SUBSET {o \in Objects : (o \in r) = TRUE}
    BY <1>1, <1>2
  <2> HIDE DEF cargo
  <2> QED BY <1>2, <1>4, <1>6, <2>1, <2>2, <2>3, <2>4
<1>7. CASE ~ s.boat
  <2>1. s.boat = FALSE
    BY <1>1, <1>7
  <2> DEFINE cargo == ({x} \cap Objects) \ r
  <2>2. cargo = {} \/ cargo = {x}
    OBVIOUS
  <2>3. r \cup cargo = r \cup ({x} \cap Objects)
    OBVIOUS
  <2>4. cargo \in SUBSET {o \in Objects : (o \in r) = FALSE}
    OBVIOUS
  <2> HIDE DEF cargo
  <2> QED BY <1>2, <1>4, <1>7, <2>1, <2>2, <2>3, <2>4
<1> QED BY <1>6, <1>7

(* The end of the game is what handle_move calls an error. *)
LEMMA EatenIsAte ==
    ASSUME NEW s \in SessionRecords,
           NEW B, B = {o \in Objects : (o \in s.right) = s.boat},
           "goat" \notin B, "wolf" \notin B \/ "cabbage" \notin B
    PROVE  Ate(s)
<1>1. {"goat", "wolf", "cabbage"} \subseteq Objects
  BY DEF Objects
<1>2. ASSUME NEW o \in Objects, o \notin B
      PROVE  (o \in s.right) # s.boat
  BY <1>2
<1>3. s.boat \in BOOLEAN
  BY DEF SessionRecords
<1>4. ASSUME NEW a \in Objects, NEW b \in Objects, a \notin B, b \notin B
      PROVE  Together(s, a, b)
  <2>1. (a \in s.right) # s.boat /\ (b \in s.right) # s.boat
    BY <1>2, <1>4
  <2>2. CASE s.boat = TRUE
    <3>1. ~ (a \in s.right) /\ ~ (b \in s.right)
      BY <2>1, <2>2
    <3>2. (a \in s.right) = (b \in s.right)
      BY <3>1
    <3> QED BY <2>1, <3>2, Zenon DEF Together
  <2>3. CASE s.boat = FALSE
    <3>1. a \in s.right /\ b \in s.right
      <4>1. \A o : ~ (o \in s.right) => (o \in s.right) = FALSE
        OBVIOUS
      <4> QED BY <2>1, <2>3, <4>1, Zenon
    <3>2. (a \in s.right) = (b \in s.right)
      BY <3>1
    <3> QED BY <2>1, <3>2, Zenon DEF Together
  <2> QED BY <1>3, <2>2, <2>3
<1> QED BY <1>1, <1>4 DEF Ate

(* A session is the one of its client, and a client without one begins. *)
LEMMA Belongs ==
    IInv => /\ \A t \in Listed : t.qid \in Clients /\ SessionOf(t.qid) = t
            /\ \A c : Of(c) = {} => SessionOf(c) = NewSession(c)
            /\ \A c : Of(c) # {} => \E t \in Listed : t.qid = c
<1> SUFFICES ASSUME IInv
             PROVE  /\ \A t \in Listed : t.qid \in Clients /\ SessionOf(t.qid) = t
                    /\ \A c : Of(c) = {} => SessionOf(c) = NewSession(c)
                    /\ \A c : Of(c) # {} => \E t \in Listed : t.qid = c
  OBVIOUS
<1>1. \A t \in Listed : t.qid \in Clients /\ SessionOf(t.qid) = t
  BY ListedFacts
<1>2. \A c : Of(c) = {} => SessionOf(c) = NewSession(c)
  BY DEF SessionOf
<1>3. \A c : Of(c) # {} => \E t \in Listed : t.qid = c
  BY DEF Of, Listed
<1> QED BY <1>1, <1>2, <1>3

LEMMA BelongsNext ==
    ASSUME IInv'
    PROVE  /\ \A t \in Listed' : t.qid \in Clients /\ SessionOf(t.qid)' = t
           /\ \A c : Of(c)' = {} => SessionOf(c)' = NewSession(c)
           /\ \A c : Of(c)' # {} => \E t \in Listed' : t.qid = c
<1>1. (IInv => /\ \A t \in Listed : t.qid \in Clients /\ SessionOf(t.qid) = t
               /\ \A c : Of(c) = {} => SessionOf(c) = NewSession(c)
               /\ \A c : Of(c) # {} => \E t \in Listed : t.qid = c)'
  BY Belongs, PTL
<1> QED BY <1>1

(* A client whose session is neither new nor changed sees the same game. *)
LEMMA SameGame ==
    ASSUME IInv, IInv', NEW d,
           \A t \in Listed' : t.qid = d => t \in Listed,
           \A t \in Listed : t.qid = d => t \in Listed'
    PROVE  SessionOf(d)' = SessionOf(d)
<1>1. CASE Of(d)' = {}
  <2>1. Of(d) = {}
    <3> SUFFICES ASSUME Of(d) # {} PROVE FALSE
      OBVIOUS
    <3>1. PICK t \in Listed' : t.qid = d
      BY Belongs
    <3> QED BY <1>1, <3>1 DEF Listed, Of
  <2> QED BY <1>1, <2>1, Belongs, BelongsNext
<1>2. CASE Of(d)' # {}
  <2>1. PICK t \in Listed' : t.qid = d
    BY <1>2, BelongsNext
  <2> QED BY <2>1, Belongs, BelongsNext
<1> QED BY <1>1, <1>2

LEMMA GameInit == Init => Game!NewGame
<1> SUFFICES ASSUME Init PROVE Game!NewGame
  OBVIOUS
<1>1. \A c : SessionOf(c) = NewSession(c)
  BY DEF Init, SessionOf, Of
<1> QED BY <1>1 DEF Game!NewGame, NewSession

(* Steps that change no session, or none that the players see. *)
LEMMA GameStays ==
    ASSUME \A c \in Clients : /\ SessionOf(c)'.right = SessionOf(c).right
                              /\ SessionOf(c)'.boat = SessionOf(c).boat
    PROVE  UNCHANGED Game!puzzleVars
BY DEF Game!puzzleVars

(* MSG_INIT gives a client the session it has for its players already. *)
LEMMA InitPlays ==
    ASSUME JInv, JInv', HandleInit PROVE UNCHANGED Game!puzzleVars
<1>1. IInv /\ IInv' /\ cur.id = "init"
  BY DEF JInv, HandleInit, Handles
<1>2. PICK c : c = cur.qid
  OBVIOUS
<1>3. Of(c) = {} /\ c \in Clients
  BY <1>1, <1>2, InitIsNew
<1>4. /\ \A t \in Listed' : t = NewSession(c) \/ (t \in Listed /\ t.qid # c)
      /\ Listed \subseteq Listed'
  <2>1. sessions' = <<NewSession(c)>> \o sessions
    BY <1>2 DEF HandleInit
  <2> QED BY <1>1, <1>3, <2>1, Registering DEF IInv
<1>5. ASSUME NEW d \in Clients PROVE SessionOf(d)' = SessionOf(d)
  <2>1. CASE d = c
    <3>1. SessionOf(c)' = NewSession(c)
      <4>1. CASE Of(c)' = {}
        BY <1>1, <4>1, BelongsNext
      <4>2. CASE Of(c)' # {}
        <5>1. PICK t \in Listed' : t.qid = c /\ SessionOf(c)' = t
          BY <1>1, <4>2, BelongsNext
        <5> QED BY <1>4, <5>1
      <4> QED BY <4>1, <4>2
    <3> QED BY <1>1, <1>3, <2>1, <3>1, Belongs
  <2>2. CASE d # c
    <3>1. \A t \in Listed' : t.qid = d => t \in Listed
      BY <1>4, <2>2 DEF NewSession
    <3>2. \A t \in Listed : t.qid = d => t \in Listed'
      BY <1>4
    <3> QED BY <1>1, <3>1, <3>2, SameGame
  <2> QED BY <2>1, <2>2
<1> QED BY <1>5, GameStays

(* The answers to take and put are no moves; the boat crosses with what is *)
(* in it, or without what is not on its shore.                             *)
LEMMA SessionRequestPlays ==
    ASSUME JInv, JInv', HandleTake \/ HandlePut \/ HandleMove
    PROVE  [Game!Play]_(Game!puzzleVars)
<1>1. IInv /\ IInv' /\ TypeOK /\ OneSession
  BY DEF JInv, IInv
<1>2. PICK c \in Clients, s \in Listed, t \in SessionRecords, r \in Replies :
        /\ c = cur.qid /\ s.qid = c /\ t.qid = c
        /\ cur.id \in {"take", "put", "move"} /\ Handles(cur.id)
        /\ Reply(c, r)
        /\ FirstOf(c) \in DOMAIN sessions /\ sessions[FirstOf(c)] = s
        /\ sessions' = [sessions EXCEPT ![FirstOf(c)] = t]
        /\ Takes(s, t, r) \/ Puts(s, t, r) \/ Moves(s, t, r)
  BY <1>1, SessionRequest
<1>3. ~ Ate(s) /\ s \in SessionRecords /\ SessionOf(c) = s
  BY <1>1, <1>2, NothingEaten, ListedFacts
<1>4. /\ \A u \in Listed' : u = t \/ (u \in Listed /\ u.qid # c)
      /\ \A u \in Listed : u.qid # c => u \in Listed'
      /\ Of(c)' = Of(c)
  BY <1>1, <1>2, OneChanged
<1>5. SessionOf(c)' = t
  <2>1. Of(c)' # {}
    BY <1>1, <1>2, <1>4, ListedFacts
  <2>2. PICK u \in Listed' : u.qid = c /\ SessionOf(c)' = u
    BY <1>1, <2>1, BelongsNext
  <2> QED BY <1>4, <2>2
<1>6. \A d : d # c => SessionOf(d)' = SessionOf(d)
  <2> TAKE d
  <2> HAVE d # c
  <2>1. \A u \in Listed' : u.qid = d => u \in Listed
    BY <1>2, <1>4
  <2>2. \A u \in Listed : u.qid = d => u \in Listed'
    BY <1>4
  <2> QED BY <1>1, <2>1, <2>2, SameGame
<1>7. CASE Takes(s, t, r) \/ Puts(s, t, r)
  <2>1. t.right = s.right /\ t.boat = s.boat
    BY <1>3, <1>7 DEF Takes, Puts, SessionRecords
  <2>2. \A d \in Clients : /\ SessionOf(d)'.right = SessionOf(d).right
                           /\ SessionOf(d)'.boat = SessionOf(d).boat
    BY <1>3, <1>5, <1>6, <2>1
  <2> QED BY <2>2, GameStays
<1>8. CASE Moves(s, t, r)
  <2>1. t = Moved(s)
    BY <1>8 DEF Moves
  <2> DEFINE B == {o \in Objects : (o \in s.right) = s.boat}
  <2>2. PICK cargo \in SUBSET B :
          /\ \A a, b \in cargo : a = b
          /\ t.right = IF s.boat THEN s.right \ cargo ELSE s.right \cup cargo
          /\ t.boat = ~ s.boat
    BY <1>3, <2>1, Carries
  <2>3. Right[c] = s.right /\ Boat[c] = s.boat
    BY <1>3 DEF Right, Boat
  <2>4. Right' = [Right EXCEPT ![c] = t.right] /\ Boat' = [Boat EXCEPT ![c] = t.boat]
    BY <1>5, <1>6 DEF Right, Boat
  <2>5. Game!BesideBoat(c) = B
    BY <2>3 DEF Game!BesideBoat, Game!Objects, Objects, Right, Boat
  <2>6. ~ Game!Eaten(c)
    BY <1>3, <2>5, EatenIsAte DEF Game!Eaten
  <2>7. Game!Cross(c)
    <3>1. /\ cargo \in SUBSET Game!BesideBoat(c) /\ \A a, b \in cargo : a = b
          /\ Right' = [Right EXCEPT ![c] = IF Boat[c] THEN @ \ cargo ELSE @ \cup cargo]
          /\ Boat' = [Boat EXCEPT ![c] = ~ @]
      BY <2>2, <2>3, <2>4, <2>5
    <3> QED BY <2>6, <3>1 DEF Game!Cross, Right, Boat
  <2> QED BY <2>7 DEF Game!Play
<1> QED BY <1>2, <1>7, <1>8

(* MSG_FIN lets the client begin again. *)
LEMMA FinPlays ==
    ASSUME JInv, JInv', HandleFin PROVE [Game!Play]_(Game!puzzleVars)
<1>1. IInv /\ IInv' /\ TypeOK /\ OneSession
  BY DEF JInv, IInv
<1>2. PICK c : c = cur.qid
  OBVIOUS
<1>3. CASE Of(c) = {}
  <2>1. sessions' = sessions
    BY <1>2, <1>3 DEF HandleFin
  <2>2. \A d : SessionOf(d)' = SessionOf(d)
    BY <2>1 DEF SessionOf, Of, FirstOf
  <2> QED BY <2>2, GameStays
<1>4. CASE Of(c) # {}
  <2>1. sessions' = RemoveAt(sessions, FirstOf(c))
    BY <1>2, <1>4 DEF HandleFin
  <2>2. /\ Of(c)' = {}
        /\ \A t \in Listed' : t \in Listed /\ t.qid # c
        /\ \A t \in Listed : t.qid # c => t \in Listed'
    BY <1>1, <1>4, <2>1, Unregistering
  <2>3. SessionOf(c)' = NewSession(c)
    BY <1>1, <2>2, BelongsNext
  <2>4. \A d : d # c => SessionOf(d)' = SessionOf(d)
    <3> TAKE d
    <3> HAVE d # c
    <3>1. \A t \in Listed' : t.qid = d => t \in Listed
      BY <2>2
    <3>2. \A t \in Listed : t.qid = d => t \in Listed'
      BY <2>2
    <3> QED BY <1>1, <3>1, <3>2, SameGame
  <2>5. c \in Clients
    BY <1>1, <1>4, Belongs
  <2>6. /\ Right' = [d \in Clients |-> IF d \in {c} THEN {} ELSE Right[d]]
        /\ Boat' = [d \in Clients |-> d \notin {c} /\ Boat[d]]
    <3>1. /\ \A d \in Clients : SessionOf(d)'.right = IF d \in {c} THEN {} ELSE SessionOf(d).right
          /\ SessionOf(c)'.boat = FALSE
      BY <2>3, <2>4 DEF NewSession
    <3>2. \A d \in Clients : SessionOf(d).boat \in BOOLEAN
      <4> TAKE d \in Clients
      <4>1. CASE Of(d) = {}
        <5>1. SessionOf(d).boat = FALSE
          BY <1>1, <4>1, Belongs DEF NewSession
        <5> QED BY <5>1
      <4>2. CASE Of(d) # {}
        BY <1>1, <4>2, Belongs, ListedFacts DEF SessionRecords
      <4> QED BY <4>1, <4>2
    <3>3. \A d \in Clients : SessionOf(d)'.boat = (d \notin {c} /\ SessionOf(d).boat)
      <4> TAKE d \in Clients
      <4>1. CASE d = c
        BY <3>1, <4>1
      <4>2. CASE d # c
        BY <2>4, <3>2, <4>2
      <4> QED BY <4>1, <4>2
    <3> QED BY <3>1, <3>3 DEF Right, Boat
  <2>7. Game!Restart({c})
    BY <2>6 DEF Game!Restart, Right, Boat
  <2> QED BY <2>5, <2>7 DEF Game!Play
<1> QED BY <1>3, <1>4

LEMMA PuzzleStep ==
    ASSUME JInv, JInv', [Next]_vars PROVE [Game!Play]_(Game!puzzleVars)
<1>1. CASE sessions' = sessions
  <2>1. \A d : SessionOf(d)' = SessionOf(d)
    BY <1>1 DEF SessionOf, Of, FirstOf
  <2> QED BY <2>1, GameStays
<1>2. CASE HandleInit
  BY <1>2, InitPlays
<1>3. CASE HandleTake \/ HandlePut \/ HandleMove
  BY <1>3, SessionRequestPlays
<1>4. CASE HandleFin
  BY <1>4, FinPlays
<1>5. CASE ServerRestart
  <2>1. \A d : SessionOf(d)' = NewSession(d)
    BY <1>5 DEF ServerRestart, SessionOf, Of
  <2>2. /\ Right' = [d \in Clients |-> IF d \in Clients THEN {} ELSE Right[d]]
        /\ Boat' = [d \in Clients |-> d \notin Clients /\ Boat[d]]
    BY <2>1 DEF Right, Boat, NewSession
  <2>3. Game!Restart(Clients)
    BY <2>2 DEF Game!Restart, Right, Boat
  <2> QED BY <2>3 DEF Game!Play
<1>6. \/ sessions' = sessions \/ HandleInit \/ HandleTake \/ HandlePut \/ HandleMove
      \/ HandleFin \/ ServerRestart
  BY DEF Next, vars, ServerStep, Handle, Receive, HandleInitNoMemory, NotRegistered, Start,
         ClientStep, SendInit, RecvInit, SendCommand, RecvReply, SendFin, Cleanup, Kill,
         serverVars
<1> QED BY <1>1, <1>2, <1>3, <1>4, <1>5, <1>6

(* Every session the server keeps is played by the rules of the puzzle:    *)
(* handle_take and handle_move allow no crossing with two objects, with an *)
(* object of the other shore, or after something was eaten.                *)
THEOREM PlaysThePuzzleAlways == Spec => PlaysThePuzzle
<1>1. JInv /\ JInv' /\ [Next]_vars => [Game!Play]_(Game!puzzleVars)
  BY PuzzleStep
<1> QED BY <1>1, GameInit, TrueAlways, PTL DEF Spec, PlaysThePuzzle, Game!Puzzle
====
