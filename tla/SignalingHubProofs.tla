------------------------- MODULE SignalingHubProofs -------------------------
(***************************************************************************)
(* Theorems about a signaling room, for any number of clients, any         *)
(* capacity of the room and any size of the buffers.                       *)
(***************************************************************************)
EXTENDS SignalingHub, SequenceLemmas, FiniteSetTheorems, TLAPS

----------------------------------------------------------------------------
(* Type correctness, the capacities of the room and the buffers included.  *)

LEMMA MessageFields ==
    ASSUME NEW type \in Type, NEW c \in Client
    PROVE  /\ Message_(type, c) \in Message
           /\ Message_(type, c).type = type
           /\ Message_(type, c).from = c
  BY DEF Message_, Message

SendOK ==
    send \in [Client -> Seq(Message)] /\ \A c \in Client : Len(send[c]) <= SendBuffer

\* A client's channel either takes a message or misses it.
LEMMA SendToEffect ==
    ASSUME HubTypeOK, NEW clients \in SUBSET Client, NEW message \in Message,
           SendTo(clients, message)
    PROVE  /\ \A c \in Client : \/ send'[c] = send[c]
                                \/ /\ c \in clients /\ HasRoom(c)
                                   /\ send'[c] = Append(send[c], message)
           /\ SendOK'
           /\ \A c \in clients : \/ send'[c] = Append(send[c], message)
                                 \/ <<c, message.from>> \in missed'
           /\ missed \subseteq missed'
           /\ missed' \subseteq Client \X Client
           /\ \A c, p \in Client : <<c, p>> \in missed' =>
                 <<c, p>> \in missed \/ (c \in clients /\ p = message.from)
  <1>1. \A c \in Client : send'[c] = IF c \in clients /\ HasRoom(c) THEN Append(send[c], message)
                                                                   ELSE send[c]
    BY DEF SendTo
  <1>2. missed' = missed \union {<<c, message.from>> : c \in {d \in clients : ~HasRoom(d)}}
    BY DEF SendTo
  <1>3. message.from \in Client
    BY DEF Message
  <1>4. \A c \in Client : send'[c] \in Seq(Message) /\ Len(send'[c]) <= SendBuffer
    <2> TAKE c \in Client
    <2>1. send[c] \in Seq(Message) /\ Len(send[c]) <= SendBuffer /\ Len(send[c]) \in Nat
      BY DEF HubTypeOK
    <2>2. /\ Append(send[c], message) \in Seq(Message)
          /\ Len(Append(send[c], message)) = Len(send[c]) + 1
      BY <2>1
    <2>3. CASE c \in clients /\ HasRoom(c)
      <3>1. send'[c] = Append(send[c], message) /\ Len(send[c]) < SendBuffer
        BY <1>1, <2>3 DEF HasRoom
      <3> QED
        BY <2>1, <2>2, <3>1, HubAssumption
    <2>4. CASE ~(c \in clients /\ HasRoom(c))
      <3>1. send'[c] = send[c]
        BY <1>1, <2>4
      <3> QED
        BY <2>1, <3>1
    <2> QED
      BY <2>3, <2>4
  <1>5. missed \subseteq missed' /\ missed' \subseteq Client \X Client
    BY <1>2, <1>3 DEF HubTypeOK
  <1>6. \A c \in clients : send'[c] = Append(send[c], message) \/ <<c, message.from>> \in missed'
    BY <1>1, <1>2
  <1>7. \A c, p \in Client : <<c, p>> \in missed' =>
           <<c, p>> \in missed \/ (c \in clients /\ p = message.from)
    BY <1>2
  <1>8. send' \in [Client -> Seq(Message)]
    <2>1. send' = [c \in Client |-> send'[c]]
      BY DEF SendTo
    <2> QED
      BY <1>4, <2>1
  <1>9. SendOK'
    BY <1>4, <1>8 DEF SendOK
  <1> QED
    BY <1>1, <1>5, <1>6, <1>7, <1>9

LEMMA HubTypeInit == Init => HubTypeOK
  <1> SUFFICES ASSUME Init PROVE HubTypeOK
    OBVIOUS
  <1>1. Cardinality(room) <= RoomCapacity
    BY FS_EmptySet, HubAssumption DEF Init
  <1>2. SendOK
    <2>1. <<>> \in Seq(Message) /\ Len(<<>>) = 0
      OBVIOUS
    <2> QED
      BY <2>1, HubAssumption DEF Init, SendOK
  <1>3. calls \in [Client -> [Client -> Call]]
    BY DEF Init, Call
  <1> QED
    BY <1>1, <1>2, <1>3 DEF Init, HubTypeOK, SendOK, Conn, Browser

\* The room stays within its capacity as one joins it and as one leaves.
LEMMA RoomSize ==
    ASSUME HubTypeOK, NEW c \in Client
    PROVE  /\ Cardinality(room) < RoomCapacity => Cardinality(room \union {c}) <= RoomCapacity
           /\ Cardinality(room \ {c}) <= RoomCapacity
           /\ Cardinality(room) \in Nat
  <1>1. IsFiniteSet(room) /\ Cardinality(room) \in Nat
    BY HubAssumption, FS_Subset, FS_CardinalityType DEF HubTypeOK
  <1>2. Cardinality(room \union {c}) = IF c \in room THEN Cardinality(room)
                                                   ELSE Cardinality(room) + 1
    BY <1>1, FS_AddElement
  <1>3. Cardinality(room \ {c}) = IF c \in room THEN Cardinality(room) - 1
                                                ELSE Cardinality(room)
    BY <1>1, FS_RemoveElement
  <1> QED
    BY <1>1, <1>2, <1>3, HubAssumption DEF HubTypeOK

LEMMA SetCallType ==
    ASSUME HubTypeOK, NEW c \in Client, NEW p \in Client, NEW state \in Call, SetCall(c, p, state)
    PROVE  calls' \in [Client -> [Client -> Call]]
  BY DEF HubTypeOK, SetCall

\* What the browsers make of a message leaves their calls well typed.
LEMMA CallTypes ==
    ASSUME HubTypeOK, NEW c \in Client, NEW p \in Client,
           \/ HandlePeers(c) \/ HandleJoin(c, p) \/ HandleOffer(c, p)
           \/ HandleAnswer(c, p) \/ HandleLeave(c, p)
    PROVE  calls' \in [Client -> [Client -> Call]]
  <1>1. \/ calls' = calls
        \/ \E state \in Call : SetCall(c, p, state)
    BY DEF HandlePeers, HandleJoin, HandleOffer, HandleAnswer, HandleLeave, Call
  <1> QED
    BY <1>1, SetCallType DEF HubTypeOK

LEMMA HubTypeStep == HubTypeOK /\ [Next]_vars => HubTypeOK'
  <1> SUFFICES ASSUME HubTypeOK, [Next]_vars PROVE HubTypeOK'
    OBVIOUS
  <1>0. SendOK
    BY DEF HubTypeOK, SendOK
  <1>1. ASSUME NEW c \in Client, Join(c) PROVE HubTypeOK'
    <2>1. conn' \in [Client -> Conn] /\ browser' \in [Client -> Browser]
      BY <1>1 DEF HubTypeOK, Join, ConnGoTo, Conn, Browser
    <2>2. Message_("join", c) \in Message
      BY MessageFields DEF Type
    <2>3. CASE Cardinality(room) >= RoomCapacity
      BY <1>0, <1>1, <2>1, <2>3 DEF HubTypeOK, Join
    <2>4. CASE ~(Cardinality(room) >= RoomCapacity)
      <3>1. SendTo(room, Message_("join", c)) /\ room' = room \union {c} /\ calls' = calls
        BY <1>1, <2>4 DEF Join
      <3>2. SendOK' /\ missed' \subseteq Client \X Client
        BY <2>2, <3>1, SendToEffect DEF HubTypeOK
      <3>3. Cardinality(room') <= RoomCapacity
        <4>1. Cardinality(room) < RoomCapacity
          <5>1. Cardinality(room) \in Nat
            BY RoomSize
          <5> QED
            BY <2>4, <5>1, HubAssumption
        <4> QED
          BY <3>1, <4>1, RoomSize
      <3> QED
        BY <2>1, <3>1, <3>2, <3>3 DEF HubTypeOK, SendOK
    <2> QED
      BY <2>3, <2>4
  <1>2. ASSUME NEW c \in Client, StartPumps(c) PROVE HubTypeOK'
    <2>1. conn' \in [Client -> Conn]
      BY <1>2 DEF HubTypeOK, StartPumps, ConnGoTo, Conn
    <2>2. Message_("peers", c) \in Message
      BY MessageFields DEF Type
    <2>3. SendTo({c}, Message_("peers", c)) /\ UNCHANGED <<room, browser, calls>>
      BY <1>2 DEF StartPumps
    <2>4. SendOK' /\ missed' \subseteq Client \X Client
      BY <2>2, <2>3, SendToEffect
    <2> QED
      BY <2>1, <2>3, <2>4 DEF HubTypeOK, SendOK
  <1>3. ASSUME NEW c \in Client, Leave(c) PROVE HubTypeOK'
    <2>1. conn' \in [Client -> Conn]
      BY <1>3 DEF HubTypeOK, Leave, ConnGoTo, Conn
    <2>2. Message_("leave", c) \in Message
      BY MessageFields DEF Type
    <2>3. SendTo(room \ {c}, Message_("leave", c)) /\ room' = room \ {c}
          /\ UNCHANGED <<browser, calls>>
      BY <1>3 DEF Leave
    <2>4. SendOK' /\ missed' \subseteq Client \X Client
      BY <2>2, <2>3, SendToEffect DEF HubTypeOK
    <2> QED
      BY <2>1, <2>3, <2>4, RoomSize DEF HubTypeOK, SendOK
  <1>4. ASSUME NEW c \in Client, CloseSend(c) PROVE HubTypeOK'
    <2>1. conn' \in [Client -> Conn]
      BY <1>4 DEF HubTypeOK, CloseSend, ConnGoTo, Conn
    <2>2. send' = [send EXCEPT ![c] = <<>>] /\ UNCHANGED <<room, browser, calls, missed>>
      BY <1>4 DEF CloseSend
    <2>3. SendOK'
      <3>1. <<>> \in Seq(Message) /\ Len(<<>>) = 0
        OBVIOUS
      <3> QED
        BY <1>0, <2>2, <3>1, HubAssumption DEF SendOK
    <2> QED
      BY <2>1, <2>2, <2>3 DEF HubTypeOK, SendOK
  <1>5. ASSUME NEW c \in Client, Deliver(c) PROVE HubTypeOK'
    <2>1. send[c] \in Seq(Message) /\ send[c] # <<>> /\ Len(send[c]) <= SendBuffer
      BY <1>5 DEF HubTypeOK, Deliver
    <2>2. Head(send[c]) \in Message
      BY <2>1, HeadTailToSet
    <2>7. Head(send[c]).from \in Client
      BY <2>2 DEF Message
    <2>3. Tail(send[c]) \in Seq(Message) /\ Len(Tail(send[c])) <= SendBuffer
      BY <2>1, HubAssumption
    <2>4. send' = [send EXCEPT ![c] = Tail(@)] /\ UNCHANGED <<room, conn, browser, missed>>
      BY <1>5 DEF Deliver
    <2>5. SendOK'
      BY <1>0, <2>3, <2>4 DEF SendOK
    <2>6. calls' \in [Client -> [Client -> Call]]
      BY <1>5, <2>7, CallTypes DEF Deliver
    <2> QED
      BY <2>4, <2>5, <2>6 DEF HubTypeOK, SendOK
  <1>6. ASSUME NEW c \in Client, NEW p \in Client, Offer(c, p) \/ Answer(c, p) PROVE HubTypeOK'
    <2>1. calls' \in [Client -> [Client -> Call]]
      <3>1. SetCall(c, p, "offered") \/ SetCall(c, p, "connected")
        BY <1>6 DEF Offer, Answer
      <3> QED
        BY <3>1, SetCallType DEF Call
    <2>2. SendOK' /\ missed' \subseteq Client \X Client
      <3>1. Message_("offer", c) \in Message /\ Message_("answer", c) \in Message
        BY MessageFields DEF Type
      <3>2. \/ SendTo({p}, Message_("offer", c))
            \/ SendTo({p}, Message_("answer", c))
            \/ UNCHANGED <<send, missed>>
        BY <1>6 DEF Offer, Answer, Route
      <3>3. CASE SendTo({p}, Message_("offer", c))
        BY <3>1, <3>3, SendToEffect
      <3>4. CASE SendTo({p}, Message_("answer", c))
        BY <3>1, <3>4, SendToEffect
      <3>5. CASE UNCHANGED <<send, missed>>
        BY <1>0, <3>5 DEF HubTypeOK, SendOK
      <3> QED
        BY <3>2, <3>3, <3>4, <3>5
    <2>3. UNCHANGED <<room, conn, browser>>
      BY <1>6 DEF Offer, Answer
    <2> QED
      BY <2>1, <2>2, <2>3 DEF HubTypeOK, SendOK
  <1>7. ASSUME NEW c \in Client, HangUp(c) \/ Cut(c) PROVE HubTypeOK'
    <2>1. browser' \in [Client -> Browser] /\ calls' \in [Client -> [Client -> Call]]
      BY <1>7 DEF HubTypeOK, HangUp, Cut, Browser, Call
    <2>2. UNCHANGED <<room, conn, send, missed>>
      BY <1>7 DEF HangUp, Cut
    <2> QED
      BY <2>1, <2>2 DEF HubTypeOK
  <1>8. CASE UNCHANGED vars
    BY <1>8 DEF HubTypeOK, vars
  <1> QED
    BY <1>1, <1>2, <1>3, <1>4, <1>5, <1>6, <1>7, <1>8 DEF Next

\* Every variable keeps its type, the room never holds more clients than it has room
\* for, and no buffer more messages, whatever joins, leaves and overflows (hub.go,
\* Join; client.go, Send).
THEOREM HubTypeCorrect == Spec => []HubTypeOK
  BY HubTypeInit, HubTypeStep, PTL DEF Spec

----------------------------------------------------------------------------
(* What a step does to one channel and to one call.                        *)

\* Who sends which message, and to whom.
Fresh(c, message) ==
    \/ message.type = "join" /\ Join(message.from) /\ c \in room
                             /\ conn'[message.from] = "joined" /\ message.from \in room'
    \/ message.type = "peers" /\ StartPumps(message.from) /\ c = message.from
    \/ message.type = "leave" /\ Leave(message.from) /\ c \in room \ {message.from}
    \/ message.type = "offer" /\ Offer(message.from, c) /\ c \in room
    \/ message.type = "answer" /\ Answer(message.from, c) /\ c \in room

LEMMA ChannelStep ==
    ASSUME HubTypeOK, [Next]_vars, NEW c \in Client
    PROVE  \/ send'[c] = send[c]
           \/ \E message \in Message : /\ Fresh(c, message)
                                       /\ send'[c] = Append(send[c], message)
           \/ Deliver(c) /\ send[c] # <<>> /\ send'[c] = Tail(send[c])
           \/ CloseSend(c) /\ send'[c] = <<>>
  <1> DEFINE Goal == \/ send'[c] = send[c]
                     \/ \E message \in Message : /\ Fresh(c, message)
                                                 /\ send'[c] = Append(send[c], message)
                     \/ Deliver(c) /\ send[c] # <<>> /\ send'[c] = Tail(send[c])
                     \/ CloseSend(c) /\ send'[c] = <<>>
  <1> SUFFICES Goal
    OBVIOUS
  <1>0. send \in [Client -> Seq(Message)] /\ room \subseteq Client
    BY DEF HubTypeOK
  <1>1. ASSUME NEW d \in Client, Join(d) PROVE Goal
    <2>1. CASE Cardinality(room) >= RoomCapacity
      BY <1>1, <2>1 DEF Join
    <2>2. CASE ~(Cardinality(room) >= RoomCapacity)
      <3>1. SendTo(room, Message_("join", d)) /\ conn'[d] = "joined" /\ d \in room'
        BY <1>1, <2>2 DEF Join, ConnGoTo, HubTypeOK
      <3>2. /\ Message_("join", d) \in Message /\ Message_("join", d).from = d
            /\ Message_("join", d).type = "join"
        BY MessageFields DEF Type
      <3>3. \/ send'[c] = send[c]
            \/ c \in room /\ send'[c] = Append(send[c], Message_("join", d))
        BY <1>0, <3>1, <3>2, SendToEffect
      <3>4. c \in room => Fresh(c, Message_("join", d))
        BY <1>1, <3>1, <3>2 DEF Fresh
      <3> QED
        BY <3>2, <3>3, <3>4
    <2> QED
      BY <2>1, <2>2
  <1>2. ASSUME NEW d \in Client, StartPumps(d) PROVE Goal
    <2>1. SendTo({d}, Message_("peers", d))
      BY <1>2 DEF StartPumps
    <2>2. /\ Message_("peers", d) \in Message /\ Message_("peers", d).from = d
          /\ Message_("peers", d).type = "peers"
      BY MessageFields DEF Type
    <2>3. \/ send'[c] = send[c]
          \/ c = d /\ send'[c] = Append(send[c], Message_("peers", d))
      <3>1. {d} \in SUBSET Client
        OBVIOUS
      <3> QED
        BY <2>1, <2>2, <3>1, SendToEffect
    <2>4. c = d => Fresh(c, Message_("peers", d))
      BY <1>2, <2>2 DEF Fresh
    <2> QED
      BY <2>2, <2>3, <2>4
  <1>3. ASSUME NEW d \in Client, Leave(d) PROVE Goal
    <2>1. SendTo(room \ {d}, Message_("leave", d))
      BY <1>3 DEF Leave
    <2>2. /\ Message_("leave", d) \in Message /\ Message_("leave", d).from = d
          /\ Message_("leave", d).type = "leave"
      BY MessageFields DEF Type
    <2>3. \/ send'[c] = send[c]
          \/ c \in room \ {d} /\ send'[c] = Append(send[c], Message_("leave", d))
      <3>1. room \ {d} \in SUBSET Client
        BY <1>0
      <3> QED
        BY <3>1, <2>1, <2>2, SendToEffect
    <2>4. c \in room \ {d} => Fresh(c, Message_("leave", d))
      BY <1>3, <2>2 DEF Fresh
    <2> QED
      BY <2>2, <2>3, <2>4
  <1>4. ASSUME NEW d \in Client, CloseSend(d) PROVE Goal
    BY <1>0, <1>4 DEF CloseSend
  <1>5. ASSUME NEW d \in Client, Deliver(d) PROVE Goal
    <2>1. send[d] # <<>> /\ send' = [send EXCEPT ![d] = Tail(@)]
      BY <1>5 DEF Deliver
    <2> QED
      BY <1>0, <1>5, <2>1
  <1>6. ASSUME NEW d \in Client, NEW p \in Client, Offer(d, p) PROVE Goal
    <2>1. CASE p \in room
      <3>1. SendTo({p}, Message_("offer", d))
        BY <1>6, <2>1 DEF Offer, Route
      <3>2. /\ Message_("offer", d) \in Message /\ Message_("offer", d).from = d
            /\ Message_("offer", d).type = "offer"
        BY MessageFields DEF Type
      <3>3. \/ send'[c] = send[c]
            \/ c = p /\ send'[c] = Append(send[c], Message_("offer", d))
        <4>1. {p} \in SUBSET Client
          OBVIOUS
        <4> QED
          BY <3>1, <3>2, <4>1, SendToEffect
      <3>4. c = p => Fresh(c, Message_("offer", d))
        BY <1>6, <2>1, <3>2 DEF Fresh
      <3> QED
        BY <3>2, <3>3, <3>4
    <2>2. CASE p \notin room
      BY <1>6, <2>2 DEF Offer, Route
    <2> QED
      BY <2>1, <2>2
  <1>7. ASSUME NEW d \in Client, NEW p \in Client, Answer(d, p) PROVE Goal
    <2>1. CASE p \in room
      <3>1. SendTo({p}, Message_("answer", d))
        BY <1>7, <2>1 DEF Answer, Route
      <3>2. /\ Message_("answer", d) \in Message /\ Message_("answer", d).from = d
            /\ Message_("answer", d).type = "answer"
        BY MessageFields DEF Type
      <3>3. \/ send'[c] = send[c]
            \/ c = p /\ send'[c] = Append(send[c], Message_("answer", d))
        <4>1. {p} \in SUBSET Client
          OBVIOUS
        <4> QED
          BY <3>1, <3>2, <4>1, SendToEffect
      <3>4. c = p => Fresh(c, Message_("answer", d))
        BY <1>7, <2>1, <3>2 DEF Fresh
      <3> QED
        BY <3>2, <3>3, <3>4
    <2>2. CASE p \notin room
      BY <1>7, <2>2 DEF Answer, Route
    <2> QED
      BY <2>1, <2>2
  <1>8. ASSUME NEW d \in Client, HangUp(d) \/ Cut(d) PROVE Goal
    BY <1>8 DEF HangUp, Cut
  <1>9. CASE UNCHANGED vars
    BY <1>9 DEF vars
  <1> QED
    BY <1>1, <1>2, <1>3, <1>4, <1>5, <1>6, <1>7, <1>8, <1>9 DEF Next

\* How far a call gets when the browser handles a message.
Handled(type, call) ==
    CASE type = "join" -> "offering"
      [] type = "offer" -> "answering"
      [] type = "answer" -> "connected"
      [] type = "leave" -> "none"
      [] OTHER -> call

LEMMA CallStep ==
    ASSUME HubTypeOK, [Next]_vars, NEW c \in Client, NEW p \in Client
    PROVE  \/ calls'[c][p] = calls[c][p]
           \/ HangUp(c) /\ calls'[c][p] = "none"
           \/ /\ Deliver(c) /\ Head(send[c]).from = p /\ Head(send[c]).type # "peers"
              /\ Head(send[c]).type = "answer" => calls[c][p] # "none"
              /\ calls'[c][p] = Handled(Head(send[c]).type, calls[c][p])
           \/ Offer(c, p) /\ calls'[c][p] = "offered"
           \/ Answer(c, p) /\ calls'[c][p] = "connected"
  <1> DEFINE Goal == \/ calls'[c][p] = calls[c][p]
                     \/ HangUp(c) /\ calls'[c][p] = "none"
                     \/ /\ Deliver(c) /\ Head(send[c]).from = p
                        /\ Head(send[c]).type # "peers"
                        /\ Head(send[c]).type = "answer" => calls[c][p] # "none"
                        /\ calls'[c][p] = Handled(Head(send[c]).type, calls[c][p])
                     \/ Offer(c, p) /\ calls'[c][p] = "offered"
                     \/ Answer(c, p) /\ calls'[c][p] = "connected"
  <1> SUFFICES Goal
    OBVIOUS
  <1>0. calls \in [Client -> [Client -> Call]]
    BY DEF HubTypeOK
  <1>1. \A d, q \in Client, state \in Call :
            SetCall(d, q, state) =>
                \/ calls'[c][p] = calls[c][p] /\ ~(c = d /\ p = q)
                \/ c = d /\ p = q /\ calls'[c][p] = state
    BY <1>0 DEF SetCall
  <1>2. ASSUME NEW d \in Client,
               Join(d) \/ StartPumps(d) \/ Leave(d) \/ CloseSend(d) \/ Cut(d)
        PROVE  Goal
    <2>1. calls' = calls
      BY <1>2 DEF Join, StartPumps, Leave, CloseSend, Cut
    <2> QED
      BY <2>1
  <1>3. ASSUME NEW d \in Client, Deliver(d) PROVE Goal
    <2> DEFINE message == Head(send[d])
    <2>1. message \in Message
      BY <1>3, HeadTailToSet DEF HubTypeOK, Deliver
    <2>2. message.from \in Client /\ message.type \in Type
      BY <2>1 DEF Message
    <2>3. \/ calls' = calls
          \/ message.type = "join" /\ SetCall(d, message.from, "offering")
          \/ message.type = "offer" /\ SetCall(d, message.from, "answering")
          \/ message.type = "answer" /\ SetCall(d, message.from, "connected")
                                     /\ calls[d][message.from] # "none"
          \/ message.type = "leave" /\ SetCall(d, message.from, "none")
      BY <1>3 DEF Deliver, HandlePeers, HandleJoin, HandleOffer, HandleAnswer, HandleLeave
    <2> QED
      BY <1>1, <1>3, <2>2, <2>3 DEF Call, Handled
  <1>4. ASSUME NEW d \in Client, NEW q \in Client, Offer(d, q) PROVE Goal
    BY <1>1, <1>4 DEF Offer, Call
  <1>5. ASSUME NEW d \in Client, NEW q \in Client, Answer(d, q) PROVE Goal
    BY <1>1, <1>5 DEF Answer, Call
  <1>6. ASSUME NEW d \in Client, HangUp(d) PROVE Goal
    BY <1>0, <1>6 DEF HangUp
  <1>7. CASE UNCHANGED vars
    BY <1>7 DEF vars
  <1> QED
    BY <1>2, <1>3, <1>4, <1>5, <1>6, <1>7 DEF Next

----------------------------------------------------------------------------
(* The room, the connections and the browsers agree.                       *)

\* Who is registered is who has an open connection, and a browser that is in the call
\* is registered.
Standing ==
    \A c \in Client : /\ c \in room <=> conn[c] \in {"joined", "reading"}
                      /\ browser[c] = "in" => c \in room

LEMMA StandingStep == HubTypeOK /\ Standing /\ [Next]_vars => Standing'
  <1> SUFFICES ASSUME HubTypeOK, Standing, [Next]_vars, NEW c \in Client
               PROVE  /\ c \in room' <=> conn'[c] \in {"joined", "reading"}
                      /\ browser'[c] = "in" => c \in room'
    BY DEF Standing
  <1>0. /\ conn \in [Client -> Conn] /\ browser \in [Client -> Browser]
        /\ c \in room <=> conn[c] \in {"joined", "reading"}
        /\ browser[c] = "in" => c \in room
    BY DEF HubTypeOK, Standing
  <1>1. ASSUME NEW d \in Client, Join(d)
        PROVE  /\ c \in room' <=> conn'[c] \in {"joined", "reading"}
               /\ browser'[c] = "in" => c \in room'
    BY <1>0, <1>1 DEF Join, ConnGoTo
  <1>2. ASSUME NEW d \in Client, StartPumps(d) \/ Leave(d) \/ CloseSend(d)
        PROVE  /\ c \in room' <=> conn'[c] \in {"joined", "reading"}
               /\ browser'[c] = "in" => c \in room'
    BY <1>0, <1>2 DEF StartPumps, Leave, CloseSend, ConnGoTo
  <1>3. ASSUME NEW d \in Client, NEW p \in Client, Deliver(d) \/ Offer(d, p) \/ Answer(d, p)
        PROVE  UNCHANGED <<room, conn, browser>>
    BY <1>3 DEF Deliver, Offer, Answer
  <1>4. ASSUME NEW d \in Client, HangUp(d) \/ Cut(d)
        PROVE  /\ c \in room' <=> conn'[c] \in {"joined", "reading"}
               /\ browser'[c] = "in" => c \in room'
    BY <1>0, <1>4 DEF HangUp, Cut
  <1>5. CASE UNCHANGED vars
    BY <1>0, <1>5 DEF vars
  <1> QED
    BY <1>0, <1>1, <1>2, <1>3, <1>4, <1>5 DEF Next

LEMMA StandingInit == Init => Standing
  BY DEF Init, Standing

\* The hub only ever sends to open channels: a client leaves the room before its
\* channel is closed (client.go, ReadPump; hub.go, Leave).
THEOREM MembersStayOpen == Spec => []MembersAreOpen
  <1>1. HubTypeOK /\ Standing => MembersAreOpen
    BY DEF HubTypeOK, Standing, MembersAreOpen
  <1> QED
    BY <1>1, HubTypeInit, HubTypeStep, StandingInit, StandingStep, PTL DEF Spec

----------------------------------------------------------------------------
(* Nobody has heard of a client before it joins, or hears from it after it *)
(* has left.                                                               *)

\* What is in a channel after a step.
LEMMA WaitingStep ==
    ASSUME HubTypeOK, [Next]_vars, NEW c \in Client, NEW message
    PROVE  /\ message \in ToSet(send[c]) => message \in Message /\ message.from \in Client
           /\ message \in ToSet(send'[c]) =>
                 message \in ToSet(send[c]) \/ (message \in Message /\ Fresh(c, message))
           /\ message \in ToSet(send[c]) =>
                 \/ message \in ToSet(send'[c])
                 \/ Deliver(c) /\ message = Head(send[c])
                 \/ CloseSend(c)
  <1>1. send[c] \in Seq(Message)
    BY DEF HubTypeOK
  <1>2. message \in ToSet(send[c]) => message \in Message /\ message.from \in Client
    BY <1>1, ToSetSubset DEF Message
  <1>3. CASE send'[c] = send[c]
    BY <1>2, <1>3
  <1>4. CASE \E fresh \in Message : Fresh(c, fresh) /\ send'[c] = Append(send[c], fresh)
    BY <1>1, <1>2, <1>4, AppendToSet
  <1>5. CASE Deliver(c) /\ send[c] # <<>> /\ send'[c] = Tail(send[c])
    BY <1>1, <1>2, <1>5, HeadTailToSet
  <1>6. CASE CloseSend(c) /\ send'[c] = <<>>
    <2>1. ToSet(<<>>) = {}
      BY DEF ToSet
    <2> QED
      BY <1>2, <1>6, <2>1
  <1> QED
    BY <1>3, <1>4, <1>5, <1>6, ChannelStep

\* Whoever sends a message joins with it or is in the room.
LEMMA SenderStands ==
    ASSUME HubTypeOK, Standing, NEW c \in Client, NEW message \in Message, Fresh(c, message)
    PROVE  /\ message.from \in Client
           /\ c \in room
           /\ message.type = "join" => /\ conn[message.from] = "new"
                                       /\ conn'[message.from] = "joined"
                                       /\ message.from \in room'
           /\ message.type # "join" => message.from \in room /\ conn[message.from] # "new"
           /\ message.type = "leave" => conn'[message.from] = "left"
           /\ message.type \in {"peers", "offer", "answer"} => message.from \in room'
  <1> DEFINE p == message.from
  <1>1. p \in Client /\ message.type \in Type
    BY DEF Message
  <1>2. conn \in [Client -> Conn]
    BY DEF HubTypeOK
  <1>3. CASE message.type = "join"
    BY <1>1, <1>3 DEF Fresh, Join
  <1>4. CASE message.type = "peers"
    BY <1>1, <1>2, <1>4 DEF Fresh, StartPumps, Standing
  <1>5. CASE message.type = "leave"
    BY <1>1, <1>2, <1>5 DEF Fresh, Leave, Standing, ConnGoTo
  <1>6. CASE message.type = "offer"
    BY <1>1, <1>6 DEF Fresh, Offer, Standing
  <1>7. CASE message.type = "answer"
    BY <1>1, <1>7 DEF Fresh, Answer, Standing
  <1> QED
    BY <1>1, <1>3, <1>4, <1>5, <1>6, <1>7 DEF Type

LEMMA ConnStep ==
    ASSUME HubTypeOK, [Next]_vars, NEW x \in Client
    PROVE  /\ conn'[x] = "new" => conn[x] = "new"
           /\ conn[x] \in {"left", "closed"} => conn'[x] \in {"left", "closed"}
  <1>0. conn \in [Client -> Conn]
    BY DEF HubTypeOK
  <1>1. ASSUME NEW d \in Client, Join(d) \/ StartPumps(d) \/ Leave(d) \/ CloseSend(d)
        PROVE  /\ conn'[x] = "new" => conn[x] = "new"
               /\ conn[x] \in {"left", "closed"} => conn'[x] \in {"left", "closed"}
    BY <1>0, <1>1 DEF Join, StartPumps, Leave, CloseSend, ConnGoTo
  <1>2. ASSUME NEW d \in Client, NEW p \in Client,
               Deliver(d) \/ Offer(d, p) \/ Answer(d, p) \/ HangUp(d) \/ Cut(d)
        PROVE  conn' = conn
    BY <1>2 DEF Deliver, Offer, Answer, HangUp, Cut
  <1> QED
    BY <1>1, <1>2 DEF Next, vars

Newcomers ==
    \A x \in Client :
        conn[x] = "new" =>
            /\ send[x] = <<>>
            /\ \A c \in Client : /\ calls[x][c] = "none" /\ calls[c][x] = "none"
                                 /\ \A message \in ToSet(send[c]) : message.from # x

LEMMA NewcomersInit == Init => Newcomers
  <1>1. ToSet(<<>>) = {}
    BY DEF ToSet
  <1> QED
    BY <1>1 DEF Init, Newcomers

LEMMA NewcomersStep == HubTypeOK /\ Standing /\ Newcomers /\ [Next]_vars => Newcomers'
  <1> SUFFICES ASSUME HubTypeOK, Standing, Newcomers, [Next]_vars,
                      NEW x \in Client, conn'[x] = "new"
               PROVE  /\ send'[x] = <<>>
                      /\ \A c \in Client :
                            /\ calls'[x][c] = "none" /\ calls'[c][x] = "none"
                            /\ \A message \in ToSet(send'[c]) : message.from # x
    BY DEF Newcomers
  <1>1. conn[x] = "new" /\ x \notin room
    BY ConnStep DEF Standing
  <1>2. /\ send[x] = <<>>
        /\ \A c \in Client : /\ calls[x][c] = "none" /\ calls[c][x] = "none"
                             /\ \A message \in ToSet(send[c]) : message.from # x
    BY <1>1 DEF Newcomers
  <1>3. send'[x] = <<>>
    <2>1. ~ \E message \in Message : Fresh(x, message)
      BY <1>1, SenderStands
    <2> QED
      BY <1>2, <2>1, ChannelStep
  <1>4. ASSUME NEW c \in Client PROVE \A message \in ToSet(send'[c]) : message.from # x
    <2> SUFFICES ASSUME NEW message \in ToSet(send'[c]), message.from = x PROVE FALSE
      OBVIOUS
    <2>1. message \in Message /\ Fresh(c, message)
      BY <1>2, WaitingStep
    <2> QED
      BY <1>1, <2>1, SenderStands
  <1>5. ASSUME NEW c \in Client PROVE calls'[x][c] = "none"
    <2>1. ~Deliver(x) /\ ~Offer(x, c) /\ ~Answer(x, c)
      BY <1>1, <1>2 DEF Deliver, Offer, Answer
    <2> QED
      BY <1>2, <2>1, CallStep
  <1>6. ASSUME NEW c \in Client PROVE calls'[c][x] = "none"
    <2>1. ~Offer(c, x) /\ ~Answer(c, x)
      BY <1>2 DEF Offer, Answer
    <2>2. Deliver(c) => Head(send[c]).from # x
      <3> SUFFICES ASSUME Deliver(c) PROVE Head(send[c]).from # x
        OBVIOUS
      <3>1. send[c] \in Seq(Message) /\ send[c] # <<>>
        BY DEF HubTypeOK, Deliver
      <3>2. Head(send[c]) \in ToSet(send[c])
        BY <3>1, HeadTailToSet
      <3> QED
        BY <1>2, <3>2
    <2> QED
      BY <1>2, <2>1, <2>2, CallStep
  <1> QED
    BY <1>3, <1>4, <1>5, <1>6

\* Once a client's leaving has been announced, nothing from it follows.
Departed ==
    \A c, p \in Client : \A i \in 1 .. Len(send[c]) :
        send[c][i] = Message_("leave", p) =>
            /\ conn[p] \in {"left", "closed"}
            /\ \A j \in 1 .. Len(send[c]) : i < j => send[c][j].from # p

LEMMA DepartedInit == Init => Departed
  <1>1. Len(<<>>) = 0
    OBVIOUS
  <1> QED
    BY <1>1 DEF Init, Departed

LEMMA DepartedStep == HubTypeOK /\ Standing /\ Departed /\ [Next]_vars => Departed'
  <1> SUFFICES ASSUME HubTypeOK, Standing, Departed, [Next]_vars,
                      NEW c \in Client, NEW p \in Client, NEW i \in 1 .. Len(send'[c]),
                      send'[c][i] = Message_("leave", p)
               PROVE  /\ conn'[p] \in {"left", "closed"}
                      /\ \A j \in 1 .. Len(send'[c]) : i < j => send'[c][j].from # p
    BY DEF Departed
  <1>0. send[c] \in Seq(Message) /\ Len(send[c]) \in Nat
    BY DEF HubTypeOK
  <1>1. ASSUME NEW k \in 1 .. Len(send[c]), send[c][k] = Message_("leave", p)
        PROVE  /\ conn[p] \in {"left", "closed"} /\ conn'[p] \in {"left", "closed"}
               /\ \A j \in 1 .. Len(send[c]) : k < j => send[c][j].from # p
    BY <1>1, ConnStep DEF Departed
  <1>2. CASE send'[c] = send[c]
    BY <1>1, <1>2
  <1>3. CASE \E message \in Message : Fresh(c, message) /\ send'[c] = Append(send[c], message)
    <2>1. PICK message \in Message : Fresh(c, message) /\ send'[c] = Append(send[c], message)
      BY <1>3
    <2>2. /\ Len(send'[c]) = Len(send[c]) + 1
          /\ send'[c][Len(send[c]) + 1] = message
          /\ \A k \in 1 .. Len(send[c]) : send'[c][k] = send[c][k]
      BY <1>0, <2>1
    <2>3. CASE i = Len(send[c]) + 1
      <3>1. message = Message_("leave", p)
        BY <2>2, <2>3
      <3>2. message.type = "leave" /\ message.from = p
        BY <3>1, MessageFields DEF Type
      <3>3. conn'[p] = "left"
        BY <2>1, <3>2, SenderStands
      <3> QED
        BY <1>0, <2>2, <2>3, <3>3
    <2>4. CASE i # Len(send[c]) + 1
      <3>1. i \in 1 .. Len(send[c]) /\ send[c][i] = Message_("leave", p)
        BY <1>0, <2>2, <2>4
      <3>2. message.from # p
        <4> SUFFICES ASSUME message.from = p PROVE FALSE
          OBVIOUS
        <4>1. conn[p] \in {"left", "closed"}
          BY <1>1, <3>1
        <4> QED
          BY <2>1, <4>1, SenderStands DEF Standing
      <3>3. \A j \in 1 .. Len(send'[c]) : j \in 1 .. Len(send[c]) \/ j = Len(send[c]) + 1
        BY <1>0, <2>2
      <3> QED
        BY <1>1, <2>2, <3>1, <3>2, <3>3
    <2> QED
      BY <2>3, <2>4
  <1>4. CASE send[c] # <<>> /\ send'[c] = Tail(send[c])
    <2>1. /\ Len(send'[c]) = Len(send[c]) - 1
          /\ \A k \in 1 .. Len(send'[c]) : /\ k + 1 \in 1 .. Len(send[c])
                                           /\ send'[c][k] = send[c][k + 1]
      BY <1>0, <1>4
    <2>2. i + 1 \in 1 .. Len(send[c]) /\ send[c][i + 1] = Message_("leave", p)
      BY <2>1
    <2>3. \A j \in 1 .. Len(send'[c]) : i < j => i + 1 < j + 1
      BY <1>0
    <2> QED
      BY <1>1, <2>1, <2>2, <2>3
  <1>5. CASE send'[c] = <<>>
    <2>1. Len(<<>>) = 0
      OBVIOUS
    <2> QED
      BY <1>5, <2>1
  <1> QED
    BY <1>2, <1>3, <1>4, <1>5, ChannelStep

----------------------------------------------------------------------------
(* No ghost calls.                                                         *)

Gone(c, p) == p \in room \/ Waiting(c, "leave", p) \/ <<c, p>> \in missed

HeardOf(c, p) ==
    \/ calls[c][p] # "none" /\ browser[c] = "in"
    \/ \E message \in ToSet(send[c]) : message.from = p

\* Stronger than NoGhostCalls: it is about what is still waiting as well.
NoGhosts == \A c, p \in Client : c \in room /\ HeardOf(c, p) => Gone(c, p)

LEMMA NoGhostsInit == Init => NoGhosts
  BY DEF Init, NoGhosts

\* News that is waiting, or was dropped, stays so until it is read.
LEMMA GoneStep ==
    ASSUME HubTypeOK, Standing, [Next]_vars, NEW c \in Client, NEW p \in Client,
           c \in room, c \in room', Gone(c, p)
    PROVE  Gone(c, p)' \/ (Deliver(c) /\ Head(send[c]) = Message_("leave", p))
  <1>1. CASE Waiting(c, "leave", p)
    <2>1. ~CloseSend(c)
      BY DEF CloseSend, Standing
    <2> QED
      BY <1>1, <2>1, WaitingStep DEF Waiting, Gone
  <1>2. CASE <<c, p>> \in missed
    <2>1. missed \subseteq missed'
      BY DEF Next, vars, Join, StartPumps, Leave, CloseSend, Deliver, Offer, Answer, Route,
             HangUp, Cut, SendTo
    <2> QED
      BY <1>2, <2>1 DEF Gone
  <1>3. CASE p \in room
    <2>1. CASE Leave(p)
      <3>1. /\ Message_("leave", p) \in Message /\ Message_("leave", p).from = p
        BY MessageFields DEF Type
      <3>2. SendTo(room \ {p}, Message_("leave", p)) /\ room \ {p} \in SUBSET Client
        BY <2>1 DEF Leave, HubTypeOK
      <3>3. c \in room \ {p}
        BY <2>1 DEF Leave
      <3>4. \/ send'[c] = Append(send[c], Message_("leave", p))
            \/ <<c, p>> \in missed'
        BY <3>1, <3>2, <3>3, SendToEffect
      <3>5. send[c] \in Seq(Message)
        BY DEF HubTypeOK
      <3>6. Message_("leave", p) \in ToSet(Append(send[c], Message_("leave", p)))
        BY <3>1, <3>5, AppendToSet
      <3> QED
        BY <3>4, <3>6 DEF Gone, Waiting
    <2>2. CASE ~Leave(p)
      <3>1. p \in room'
        BY <1>3, <2>2 DEF Next, vars, Join, StartPumps, Leave, CloseSend, Deliver, Offer,
                          Answer, HangUp, Cut
      <3> QED
        BY <3>1 DEF Gone
    <2> QED
      BY <2>1, <2>2
  <1> QED
    BY <1>1, <1>2, <1>3 DEF Gone

LEMMA NoGhostsStep ==
    HubTypeOK /\ Standing /\ Newcomers /\ Departed /\ NoGhosts /\ [Next]_vars => NoGhosts'
  <1> SUFFICES ASSUME HubTypeOK, Standing, Newcomers, Departed, NoGhosts, [Next]_vars,
                      NEW c \in Client, NEW p \in Client, c \in room', HeardOf(c, p)'
               PROVE  Gone(c, p)'
    BY DEF NoGhosts
  <1>0. send[c] \in Seq(Message) /\ Len(send[c]) \in Nat
    BY DEF HubTypeOK
  \* A browser hears of a client from that client.
  <1>1. ASSUME ~HeardOf(c, p) PROVE Gone(c, p)'
    <2>1. CASE \E message \in ToSet(send'[c]) : message.from = p
      <3>1. PICK message \in Message : Fresh(c, message) /\ message.from = p
        BY <1>1, <2>1, WaitingStep DEF HeardOf
      <3>2. CASE message.type = "leave"
        <4>1. Leave(p) /\ c \in room \ {p}
          BY <3>1, <3>2 DEF Fresh
        <4>2. p \in room
          BY <3>1, <3>2, SenderStands
        <4>3. ~Deliver(c)
          BY <4>1 DEF Leave, Deliver, HubTypeOK, ConnGoTo
        <4> QED
          BY <4>1, <4>2, <4>3, GoneStep DEF Gone
      <3>3. CASE message.type # "leave"
        <4>1. p \in room'
          BY <3>1, <3>3, SenderStands DEF Message, Type
        <4> QED
          BY <4>1 DEF Gone
      <3> QED
        BY <3>2, <3>3
    <2>2. CASE calls'[c][p] # "none" /\ browser'[c] = "in"
      <3>1. browser[c] = "in" \/ Join(c)
        BY <2>2 DEF Next, vars, Join, StartPumps, Leave, CloseSend, Deliver, Offer, Answer,
                    HangUp, Cut, HubTypeOK
      <3>2. CASE Join(c)
        BY <2>2, <3>2 DEF Join, Newcomers
      <3>3. CASE browser[c] = "in"
        <4>1. calls[c][p] = "none"
          BY <1>1, <3>3 DEF HeardOf
        <4>2. ~Offer(c, p) /\ ~Answer(c, p)
          BY <4>1 DEF Offer, Answer
        <4>3. Deliver(c) /\ Head(send[c]).from = p
          BY <2>2, <4>1, <4>2, CallStep
        <4>4. Head(send[c]) \in ToSet(send[c])
          BY <1>0, <4>3, HeadTailToSet DEF Deliver
        <4> QED
          BY <1>1, <4>3, <4>4 DEF HeardOf
      <3> QED
        BY <3>1, <3>2, <3>3
    <2> QED
      BY <2>1, <2>2 DEF HeardOf
  <1>2. ASSUME HeardOf(c, p) PROVE Gone(c, p)'
    <2>1. CASE c \notin room
      <3>1. Join(c)
        <4>1. ASSUME NEW d \in Client, Join(d) PROVE Join(c)
          <5>1. c # d => room' = room \/ room' = room \union {d}
            BY <4>1 DEF Join
          <5> QED
            BY <2>1, <4>1, <5>1
        <4> QED
          BY <2>1, <4>1 DEF Next, vars, StartPumps, Leave, CloseSend, Deliver, Offer, Answer,
                            HangUp, Cut
      <3>2. send[c] = <<>> /\ calls[c][p] = "none"
        BY <3>1 DEF Join, Newcomers
      <3>3. ToSet(<<>>) = {}
        BY DEF ToSet
      <3> QED
        BY <1>2, <3>2, <3>3 DEF HeardOf
    <2>2. CASE c \in room
      <3>1. Gone(c, p)
        BY <1>2, <2>2 DEF NoGhosts
      \* Once the browser has read that p left, it knows nothing of p.
      <3>2. ~(Deliver(c) /\ Head(send[c]) = Message_("leave", p))
        <4> SUFFICES ASSUME Deliver(c), Head(send[c]) = Message_("leave", p) PROVE FALSE
          OBVIOUS
        <4>1. send[c] # <<>> /\ 1 \in 1 .. Len(send[c]) /\ send[c][1] = Message_("leave", p)
          BY <1>0 DEF Deliver
        <4>2. \A j \in 1 .. Len(send[c]) : 1 < j => send[c][j].from # p
          BY <4>1 DEF Departed
        <4>3. send'[c] = Tail(send[c])
          BY DEF Deliver, HubTypeOK
        <4>4. \A message \in ToSet(send'[c]) : message.from # p
          <5>1. /\ Len(Tail(send[c])) = Len(send[c]) - 1
                /\ \A k \in 1 .. Len(Tail(send[c])) : /\ k + 1 \in 1 .. Len(send[c])
                                                      /\ Tail(send[c])[k] = send[c][k + 1]
                                                      /\ 1 < k + 1
            BY <1>0, <4>1
          <5> QED
            BY <4>2, <4>3, <5>1 DEF ToSet
        <4>5. calls'[c][p] = "none"
          <5>1. /\ Message_("leave", p).type = "leave" /\ Message_("leave", p).from = p
            BY MessageFields DEF Type
          <5>2. SetCall(c, p, "none")
            BY <5>1 DEF Deliver, HandleLeave
          <5> QED
            BY <5>2 DEF SetCall, HubTypeOK
        <4> QED
          BY <4>4, <4>5 DEF HeardOf
      <3> QED
        BY <2>2, <3>1, <3>2, GoneStep
    <2> QED
      BY <2>1, <2>2
  <1> QED
    BY <1>1, <1>2

HubInv == HubTypeOK /\ Standing /\ Newcomers /\ Departed /\ NoGhosts

LEMMA HubInvAlways == Spec => []HubInv
  BY HubTypeInit, HubTypeStep, StandingInit, StandingStep, NewcomersInit, NewcomersStep,
     DepartedInit, DepartedStep, NoGhostsInit, NoGhostsStep, PTL DEF Spec, HubInv

\* A browser in the room goes on with a call to somebody who has left only while the
\* news of that is on its way or was dropped, however joins, departures, messages and
\* overflowing buffers interleave (hub.go, Leave; client.go, ReadPump; call.js).
THEOREM NoCallOutlivesItsPeer == Spec => []NoGhostCalls
  <1>1. HubInv => NoGhostCalls
    BY DEF HubInv, HubTypeOK, NoGhosts, NoGhostCalls, HeardOf, Gone
  <1> QED
    BY <1>1, HubInvAlways, PTL

----------------------------------------------------------------------------
(* No glare.                                                               *)

\* c is the one of the two that calls the other.
Ahead(c, p) ==
    \/ Waiting(c, "join", p)
    \/ calls[c][p] \in {"offering", "offered"}
    \/ Waiting(p, "offer", c)

OneIsAhead == \A c, p \in Client : ~(Ahead(c, p) /\ Ahead(p, c))

LEMMA OneIsAheadInit == Init => OneIsAhead
  <1>1. ToSet(<<>>) = {}
    BY DEF ToSet
  <1> QED
    BY <1>1 DEF Init, OneIsAhead, Ahead, Waiting

\* Only somebody's joining puts a client ahead, and then the other is new.
LEMMA AheadStep ==
    ASSUME HubTypeOK, Standing, [Next]_vars, NEW c \in Client, NEW p \in Client, Ahead(c, p)'
    PROVE  Ahead(c, p) \/ (conn[p] = "new" /\ conn[c] # "new")
  <1>1. CASE Waiting(c, "join", p)'
    <2>1. /\ Message_("join", p).type = "join" /\ Message_("join", p).from = p
      BY MessageFields DEF Type
    <2>2. Message_("join", p) \in ToSet(send'[c])
      BY <1>1 DEF Waiting, Message_
    <2>3. \/ Message_("join", p) \in ToSet(send[c])
          \/ Message_("join", p) \in Message /\ Fresh(c, Message_("join", p))
      BY <2>2, WaitingStep
    <2>4. ASSUME Message_("join", p) \in Message, Fresh(c, Message_("join", p))
          PROVE  conn[p] = "new" /\ conn[c] # "new"
      BY <2>1, <2>4, SenderStands DEF Standing
    <2> QED
      BY <2>3, <2>4 DEF Ahead, Waiting
  <1>2. CASE (calls[c][p] \in {"offering", "offered"})'
    <2>1. CASE calls'[c][p] = calls[c][p]
      BY <1>2, <2>1 DEF Ahead
    <2>2. CASE /\ Deliver(c) /\ Head(send[c]).from = p /\ Head(send[c]).type # "peers"
               /\ calls'[c][p] = Handled(Head(send[c]).type, calls[c][p])
      <3>1. send[c] \in Seq(Message) /\ send[c] # <<>>
        BY <2>2 DEF HubTypeOK, Deliver
      <3>2. Head(send[c]) \in Message /\ Head(send[c]) \in ToSet(send[c])
        BY <3>1, HeadTailToSet
      <3>3. Head(send[c]).type = "join"
        <4>1. Head(send[c]).type \in Type
          BY <3>2 DEF Message
        <4> QED
          BY <1>2, <2>2, <4>1 DEF Handled, Type
      <3>4. Head(send[c]) = Message_("join", p)
        BY <2>2, <3>2, <3>3 DEF Message, Message_
      <3> QED
        BY <3>2, <3>4 DEF Ahead, Waiting
    <2>3. CASE Offer(c, p)
      BY <2>3 DEF Offer, Ahead
    <2> QED
      BY <1>2, <2>1, <2>2, <2>3, CallStep
  <1>3. CASE Waiting(p, "offer", c)'
    <2>1. /\ Message_("offer", c).type = "offer" /\ Message_("offer", c).from = c
      BY MessageFields DEF Type
    <2>2. Message_("offer", c) \in ToSet(send'[p])
      BY <1>3 DEF Waiting, Message_
    <2>3. \/ Message_("offer", c) \in ToSet(send[p])
          \/ Message_("offer", c) \in Message /\ Fresh(p, Message_("offer", c))
      BY <2>2, WaitingStep
    <2>4. ASSUME Fresh(p, Message_("offer", c)) PROVE calls[c][p] = "offering"
      BY <2>1, <2>4 DEF Fresh, Offer
    <2> QED
      BY <2>3, <2>4 DEF Ahead, Waiting
  <1> QED
    BY <1>1, <1>2, <1>3 DEF Ahead

LEMMA OneIsAheadStep ==
    HubTypeOK /\ Standing /\ Newcomers /\ OneIsAhead /\ [Next]_vars => OneIsAhead'
  <1> SUFFICES ASSUME HubTypeOK, Standing, Newcomers, OneIsAhead, [Next]_vars,
                      NEW c \in Client, NEW p \in Client, Ahead(c, p)', Ahead(p, c)'
               PROVE  FALSE
    BY DEF OneIsAhead
  <1>1. ASSUME NEW x \in Client, NEW y \in Client, conn[x] = "new" PROVE ~Ahead(x, y)
    <2>1. send[x] = <<>> /\ calls[x][y] = "none"
      BY <1>1 DEF Newcomers
    <2>2. \A message \in ToSet(send[y]) : message.from # x
      BY <1>1 DEF Newcomers
    <2>3. ToSet(<<>>) = {} /\ Message_("offer", x).from = x
      BY MessageFields DEF ToSet, Type
    <2> QED
      BY <2>1, <2>2, <2>3 DEF Ahead, Waiting
  <1> QED
    BY <1>1, AheadStep DEF OneIsAhead

\* No two browsers offer each other a call, whatever joins, leaves and is dropped: of
\* any two, the one that was there first calls (message.go, TypePeers; call.js).
THEOREM NoTwoOffersMeet == Spec => []NoGlare
  <1>1. OneIsAhead => NoGlare
    BY DEF OneIsAhead, Ahead, NoGlare
  <1> QED
    BY <1>1, HubInvAlways, OneIsAheadInit, OneIsAheadStep, PTL DEF Spec, HubInv

----------------------------------------------------------------------------
(* A room at rest is connected: how far the negotiation of two browsers    *)
(* that are both in the call has come.                                     *)

SilentIn(s, p) == \A i \in 1 .. Len(s) : s[i].from # p

OnlyIn(s, p, type) ==
    \E i \in 1 .. Len(s) : /\ s[i] = Message_(type, p)
                           /\ \A j \in 1 .. Len(s) : j # i => s[j].from # p

LEMMA AppendMail ==
    ASSUME NEW s \in Seq(Message), NEW message \in Message, NEW p \in Client, NEW type \in Type
    PROVE  /\ message.from # p /\ SilentIn(s, p) => SilentIn(Append(s, message), p)
           /\ message.from # p /\ OnlyIn(s, p, type) => OnlyIn(Append(s, message), p, type)
           /\ message = Message_(type, p) /\ SilentIn(s, p) =>
                 OnlyIn(Append(s, message), p, type)
  <1> DEFINE t == Append(s, message)
  <1>1. /\ Len(s) \in Nat /\ Len(t) = Len(s) + 1 /\ t[Len(s) + 1] = message
        /\ \A i \in 1 .. Len(s) : t[i] = s[i] /\ i \in 1 .. Len(t)
        /\ Len(s) + 1 \in 1 .. Len(t)
        /\ \A i \in 1 .. Len(t) : i \in 1 .. Len(s) \/ i = Len(s) + 1
    OBVIOUS
  <1> HIDE DEF t
  <1>2. message.from # p /\ SilentIn(s, p) => SilentIn(t, p)
    BY <1>1 DEF SilentIn
  <1>3. message.from # p /\ OnlyIn(s, p, type) => OnlyIn(t, p, type)
    <2> SUFFICES ASSUME message.from # p, OnlyIn(s, p, type) PROVE OnlyIn(t, p, type)
      OBVIOUS
    <2>1. PICK i \in 1 .. Len(s) : /\ s[i] = Message_(type, p)
                                   /\ \A j \in 1 .. Len(s) : j # i => s[j].from # p
      BY DEF OnlyIn
    <2>2. i \in 1 .. Len(t) /\ t[i] = Message_(type, p)
      BY <1>1, <2>1
    <2>3. ASSUME NEW j \in 1 .. Len(t), j # i PROVE t[j].from # p
      BY <1>1, <2>1, <2>3
    <2> QED
      BY <2>2, <2>3 DEF OnlyIn
  <1>4. message = Message_(type, p) /\ SilentIn(s, p) => OnlyIn(t, p, type)
    <2> SUFFICES ASSUME message = Message_(type, p), SilentIn(s, p) PROVE OnlyIn(t, p, type)
      OBVIOUS
    <2>1. ASSUME NEW j \in 1 .. Len(t), j # Len(s) + 1 PROVE t[j].from # p
      BY <1>1, <2>1 DEF SilentIn
    <2> QED
      BY <1>1, <2>1 DEF OnlyIn
  <1> QED
    BY <1>2, <1>3, <1>4 DEF t

LEMMA TailMail ==
    ASSUME NEW s \in Seq(Message), s # <<>>, NEW p \in Client, NEW type \in Type
    PROVE  /\ SilentIn(s, p) => Head(s).from # p /\ SilentIn(Tail(s), p)
           /\ Head(s).from # p /\ OnlyIn(s, p, type) => OnlyIn(Tail(s), p, type)
           /\ Head(s).from = p /\ OnlyIn(s, p, type) =>
                 Head(s).type = type /\ SilentIn(Tail(s), p)
  <1> DEFINE t == Tail(s)
  <1>1. /\ Len(s) \in Nat /\ Len(t) = Len(s) - 1 /\ Head(s) = s[1] /\ 1 \in 1 .. Len(s)
        /\ \A i \in 1 .. Len(t) : t[i] = s[i + 1] /\ i + 1 \in 1 .. Len(s) /\ i + 1 # 1
        /\ \A i \in 1 .. Len(s) : i # 1 => i - 1 \in 1 .. Len(t) /\ (i - 1) + 1 = i
        /\ \A i, j \in 1 .. Len(t) : i # j => i + 1 # j + 1
    OBVIOUS
  <1> HIDE DEF t
  <1>2. SilentIn(s, p) => Head(s).from # p /\ SilentIn(t, p)
    BY <1>1 DEF SilentIn
  <1>3. Head(s).from # p /\ OnlyIn(s, p, type) => OnlyIn(t, p, type)
    <2> SUFFICES ASSUME Head(s).from # p, OnlyIn(s, p, type) PROVE OnlyIn(t, p, type)
      OBVIOUS
    <2>1. PICK i \in 1 .. Len(s) : /\ s[i] = Message_(type, p)
                                   /\ \A j \in 1 .. Len(s) : j # i => s[j].from # p
      BY DEF OnlyIn
    <2>2. i # 1
      BY <1>1, <2>1, MessageFields
    <2>3. i - 1 \in 1 .. Len(t) /\ t[i - 1] = Message_(type, p)
      BY <1>1, <2>1, <2>2
    <2>4. ASSUME NEW j \in 1 .. Len(t), j # i - 1 PROVE t[j].from # p
      <3>1. j + 1 \in 1 .. Len(s) /\ j + 1 # i /\ t[j] = s[j + 1]
        BY <1>1, <2>3, <2>4
      <3> QED
        BY <2>1, <3>1
    <2> QED
      BY <2>3, <2>4 DEF OnlyIn
  <1>4. Head(s).from = p /\ OnlyIn(s, p, type) => Head(s).type = type /\ SilentIn(t, p)
    <2> SUFFICES ASSUME Head(s).from = p, OnlyIn(s, p, type)
                 PROVE  Head(s).type = type /\ SilentIn(t, p)
      OBVIOUS
    <2>1. PICK i \in 1 .. Len(s) : /\ s[i] = Message_(type, p)
                                   /\ \A j \in 1 .. Len(s) : j # i => s[j].from # p
      BY DEF OnlyIn
    <2>2. i = 1
      BY <1>1, <2>1
    <2>3. Head(s).type = type
      BY <1>1, <2>1, <2>2, MessageFields
    <2>4. SilentIn(t, p)
      BY <1>1, <2>1, <2>2 DEF SilentIn
    <2> QED
      BY <2>3, <2>4
  <1> QED
    BY <1>2, <1>3, <1>4 DEF t

Silent(c, p) == SilentIn(send[c], p)
Only(c, p, type) == OnlyIn(send[c], p, type)

At(c, p, call, other) == calls[c][p] = call /\ calls[p][c] = other

\* c, who calls, and p, who joined later.
Negotiation(c, p) ==
    \/ Only(c, p, "join")   /\ Silent(p, c)        /\ At(c, p, "none", "none")
    \/ Silent(c, p)         /\ Silent(p, c)        /\ At(c, p, "offering", "none")
    \/ Silent(c, p)         /\ Only(p, c, "offer") /\ At(c, p, "offered", "none")
    \/ Silent(c, p)         /\ Silent(p, c)        /\ At(c, p, "offered", "answering")
    \/ Only(c, p, "answer") /\ Silent(p, c)        /\ At(c, p, "offered", "connected")
    \/ Silent(c, p)         /\ Silent(p, c)        /\ At(c, p, "connected", "connected")

Both(c, p) ==
    /\ c # p /\ browser[c] = "in" /\ browser[p] = "in"
    /\ <<c, p>> \notin missed /\ <<p, c>> \notin missed

Negotiated == \A c, p \in Client : Both(c, p) => Negotiation(c, p) \/ Negotiation(p, c)

\* What c does about p.
Turns(c, p) == (Deliver(c) /\ Head(send[c]).from = p) \/ Offer(c, p) \/ Answer(c, p)

LEMMA MissedGrows == [Next]_vars => missed \subseteq missed'
  BY DEF Next, vars, Join, StartPumps, Leave, CloseSend, Deliver, Offer, Answer, Route, HangUp,
         Cut, SendTo

\* Whatever happens elsewhere, the two stay where they are.
LEMMA OthersTurn ==
    ASSUME HubTypeOK, Standing, [Next]_vars, NEW c \in Client, NEW p \in Client,
           Both(c, p), Both(c, p)', ~Turns(c, p), ~Turns(p, c)
    PROVE  /\ calls'[c][p] = calls[c][p]
           /\ Silent(c, p) => Silent(c, p)'
           /\ \A type \in Type : Only(c, p, type) => Only(c, p, type)'
  <1>1. c \in room /\ p \in room /\ conn[c] \notin {"new", "left"} /\ conn[p] \notin {"new"}
    BY DEF Both, Standing
  <1>2. calls'[c][p] = calls[c][p]
    <2>1. ~HangUp(c)
      BY DEF HangUp, Both, HubTypeOK
    <2> QED
      BY <2>1, CallStep DEF Turns
  <1>3. ~CloseSend(c)
    BY <1>1 DEF CloseSend
  <1>4. ASSUME NEW message \in Message, Fresh(c, message) PROVE message.from # p
    BY <1>1, <1>4 DEF Fresh, Join, Leave, Turns, Both, Message, Type
  <1>5. send[c] \in Seq(Message)
    BY DEF HubTypeOK
  <1>6. CASE send'[c] = send[c]
    BY <1>2, <1>6 DEF Silent, Only
  <1>7. CASE \E message \in Message : Fresh(c, message) /\ send'[c] = Append(send[c], message)
    <2>1. PICK message \in Message : /\ message.from # p
                                     /\ send'[c] = Append(send[c], message)
      BY <1>4, <1>7
    <2>2. \A type \in Type : Only(c, p, type) => Only(c, p, type)'
      BY <1>5, <2>1, AppendMail DEF Only
    <2>3. Silent(c, p) => Silent(c, p)'
      <3>1. "join" \in Type
        BY DEF Type
      <3> QED
        BY <1>5, <2>1, <3>1, AppendMail DEF Silent
    <2> QED
      BY <1>2, <2>2, <2>3
  <1>8. CASE Deliver(c) /\ send[c] # <<>> /\ send'[c] = Tail(send[c])
    <2>1. Head(send[c]).from # p
      BY <1>8 DEF Turns
    <2>2. \A type \in Type : Only(c, p, type) => Only(c, p, type)'
      BY <1>5, <1>8, <2>1, TailMail DEF Only
    <2>3. Silent(c, p) => Silent(c, p)'
      <3>1. "join" \in Type
        BY DEF Type
      <3> QED
        BY <1>5, <1>8, <2>1, <3>1, TailMail DEF Silent
    <2> QED
      BY <1>2, <2>2, <2>3
  <1> QED
    BY <1>3, <1>6, <1>7, <1>8, ChannelStep

\* What the other finds when c sends it a message.
LEMMA MailArrives ==
    ASSUME HubTypeOK, NEW c \in Client, NEW p \in Client, NEW type \in Type,
           c \in room, Route(p, c, type), <<c, p>> \notin missed', Silent(c, p)
    PROVE  Only(c, p, type)'
  <1>1. SendTo({c}, Message_(type, p)) /\ {c} \in SUBSET Client
    BY DEF Route
  <1>2. /\ Message_(type, p) \in Message /\ Message_(type, p).from = p
    BY MessageFields
  <1>3. send'[c] = Append(send[c], Message_(type, p))
    BY <1>1, <1>2, SendToEffect
  <1>4. send[c] \in Seq(Message)
    BY DEF HubTypeOK
  <1> QED
    BY <1>2, <1>3, <1>4, AppendMail DEF Only, Silent

\* What c makes of what it finds.
LEMMA MailRead ==
    ASSUME HubTypeOK, NEW c \in Client, NEW p \in Client, c # p,
           Deliver(c), Head(send[c]).from = p
    PROVE  /\ ~Silent(c, p)
           /\ \A type \in Type : Only(c, p, type) => Head(send[c]).type = type /\ Silent(c, p)'
           /\ Silent(p, c) => Silent(p, c)'
           /\ \A type \in Type : Only(p, c, type) => Only(p, c, type)'
           /\ calls'[p][c] = calls[p][c]
           /\ Head(send[c]).type = "join" => calls'[c][p] = "offering"
           /\ Head(send[c]).type = "offer" => calls'[c][p] = "answering"
           /\ Head(send[c]).type = "answer" /\ calls[c][p] # "none" => calls'[c][p] = "connected"
  <1>1. /\ send[c] \in Seq(Message) /\ send[c] # <<>>
        /\ send'[c] = Tail(send[c]) /\ send'[p] = send[p]
    BY DEF HubTypeOK, Deliver
  <1>2. \A type \in Type : Only(c, p, type) => Head(send[c]).type = type /\ Silent(c, p)'
    BY <1>1, TailMail DEF Only, Silent
  <1>3. ~Silent(c, p)
    <2>1. "join" \in Type
      BY DEF Type
    <2> QED
      BY <1>1, <2>1, TailMail DEF Silent
  <1>4. /\ Silent(p, c) => Silent(p, c)'
        /\ \A type \in Type : Only(p, c, type) => Only(p, c, type)'
    BY <1>1 DEF Silent, Only
  <1>5. calls \in [Client -> [Client -> Call]]
    BY DEF HubTypeOK
  <1>6. \/ calls' = calls
        \/ \E state \in Call : SetCall(c, p, state)
    BY DEF Deliver, HandlePeers, HandleJoin, HandleOffer, HandleAnswer, HandleLeave, Call
  <1>7. calls'[p][c] = calls[p][c]
    BY <1>5, <1>6 DEF SetCall
  <1>8. /\ Head(send[c]).type = "join" => SetCall(c, p, "offering")
        /\ Head(send[c]).type = "offer" => SetCall(c, p, "answering")
        /\ Head(send[c]).type = "answer" /\ calls[c][p] # "none" => SetCall(c, p, "connected")
    BY DEF Deliver, HandleJoin, HandleOffer, HandleAnswer
  <1>9. \A state \in Call : SetCall(c, p, state) => calls'[c][p] = state
    BY <1>5 DEF SetCall
  <1>10. {"offering", "answering", "connected"} \subseteq Call
    BY DEF Call
  <1> QED
    BY <1>2, <1>3, <1>4, <1>7, <1>8, <1>9, <1>10

\* What a browser does after its awaits.
LEMMA MailSent ==
    ASSUME HubTypeOK, Standing, NEW c \in Client, NEW p \in Client, c # p,
           Offer(c, p) \/ Answer(c, p), Both(c, p)'
    PROVE  /\ Silent(c, p) => Silent(c, p)'
           /\ calls'[p][c] = calls[p][c]
           /\ Offer(c, p) => /\ calls[c][p] = "offering" /\ calls'[c][p] = "offered"
                             /\ Silent(p, c) => Only(p, c, "offer")'
           /\ Answer(c, p) => /\ calls[c][p] = "answering" /\ calls'[c][p] = "connected"
                              /\ Silent(p, c) => Only(p, c, "answer")'
  <1>1. calls \in [Client -> [Client -> Call]]
    BY DEF HubTypeOK
  <1>2. p \in room /\ <<p, c>> \notin missed'
    BY DEF Offer, Answer, Both, Standing
  <1>3. /\ Offer(c, p) => Route(c, p, "offer") /\ SetCall(c, p, "offered")
        /\ Answer(c, p) => Route(c, p, "answer") /\ SetCall(c, p, "connected")
    BY DEF Offer, Answer
  <1>4. calls'[p][c] = calls[p][c]
    BY <1>1, <1>3 DEF SetCall
  <1>5. send'[c] = send[c]
    <2>1. \E type \in Type : SendTo({p}, Message_(type, c))
      BY <1>2, <1>3 DEF Route, Type
    <2> QED
      BY <2>1 DEF SendTo
  <1>6. Silent(c, p) => Silent(c, p)'
    BY <1>5 DEF Silent
  <1>7. "offer" \in Type /\ "answer" \in Type
    BY DEF Type
  <1>8. Offer(c, p) => /\ calls[c][p] = "offering" /\ calls'[c][p] = "offered"
                       /\ Silent(p, c) => Only(p, c, "offer")'
    <2>1. Offer(c, p) => calls[c][p] = "offering" /\ calls'[c][p] = "offered"
      BY <1>1, <1>3 DEF Offer, SetCall
    <2> QED
      BY <1>2, <1>3, <1>7, <2>1, MailArrives
  <1>9. Answer(c, p) => /\ calls[c][p] = "answering" /\ calls'[c][p] = "connected"
                        /\ Silent(p, c) => Only(p, c, "answer")'
    <2>1. Answer(c, p) => calls[c][p] = "answering" /\ calls'[c][p] = "connected"
      BY <1>1, <1>3 DEF Answer, SetCall
    <2> QED
      BY <1>2, <1>3, <1>7, <2>1, MailArrives
  <1> QED
    BY <1>4, <1>6, <1>8, <1>9

\* Every step of the two takes the negotiation from one stage to the next.
LEMMA NegotiationStep ==
    ASSUME HubTypeOK, Standing, [Next]_vars, NEW c \in Client, NEW p \in Client,
           Both(c, p), Both(c, p)', Negotiation(c, p)
    PROVE  Negotiation(c, p)'
  <1>0. c # p /\ Both(p, c) /\ Both(p, c)'
    BY DEF Both
  <1> DEFINE Stage1 == Only(c, p, "join") /\ Silent(p, c) /\ At(c, p, "none", "none")
             Stage2 == Silent(c, p) /\ Silent(p, c) /\ At(c, p, "offering", "none")
             Stage3 == Silent(c, p) /\ Only(p, c, "offer") /\ At(c, p, "offered", "none")
             Stage4 == Silent(c, p) /\ Silent(p, c) /\ At(c, p, "offered", "answering")
             Stage5 == Only(c, p, "answer") /\ Silent(p, c) /\ At(c, p, "offered", "connected")
             Stage6 == Silent(c, p) /\ Silent(p, c) /\ At(c, p, "connected", "connected")
  <1>1. Stage1 \/ Stage2 \/ Stage3 \/ Stage4 \/ Stage5 \/ Stage6
    BY DEF Negotiation
  <1>2. SUFFICES Stage1' \/ Stage2' \/ Stage3' \/ Stage4' \/ Stage5' \/ Stage6'
    BY DEF Negotiation
  <1>3. {"join", "offer", "answer"} \subseteq Type
    BY DEF Type
  <1>4. CASE ~Turns(c, p) /\ ~Turns(p, c)
    <2>1. /\ calls'[c][p] = calls[c][p]
          /\ Silent(c, p) => Silent(c, p)'
          /\ \A type \in Type : Only(c, p, type) => Only(c, p, type)'
      BY <1>4, OthersTurn
    <2>2. /\ calls'[p][c] = calls[p][c]
          /\ Silent(p, c) => Silent(p, c)'
          /\ \A type \in Type : Only(p, c, type) => Only(p, c, type)'
      BY <1>0, <1>4, OthersTurn
    <2> QED
      BY <1>1, <1>3, <2>1, <2>2 DEF At
  <1>5. CASE Deliver(c) /\ Head(send[c]).from = p
    <2>1. Stage1 => Stage2'
      BY <1>0, <1>3, <1>5, MailRead DEF At
    <2>2. Stage5 => Stage6'
      BY <1>0, <1>3, <1>5, MailRead DEF At
    <2>3. ~Silent(c, p)
      BY <1>0, <1>5, MailRead
    <2> QED
      BY <1>1, <2>1, <2>2, <2>3
  <1>6. CASE Deliver(p) /\ Head(send[p]).from = c
    <2>1. Stage3 => Stage4'
      BY <1>0, <1>3, <1>6, MailRead DEF At
    <2>2. ~Silent(p, c)
      BY <1>0, <1>6, MailRead
    <2> QED
      BY <1>1, <2>1, <2>2
  <1>7. CASE Offer(c, p)
    <2>1. Stage2 => Stage3'
      BY <1>0, <1>7, MailSent DEF At
    <2>2. calls[c][p] = "offering"
      BY <1>7 DEF Offer
    <2> QED
      BY <1>1, <2>1, <2>2 DEF At
  <1>8. CASE Answer(p, c)
    <2>1. Stage4 => Stage5'
      BY <1>0, <1>8, MailSent DEF At
    <2>2. calls[p][c] = "answering"
      BY <1>8 DEF Answer
    <2> QED
      BY <1>1, <2>1, <2>2 DEF At
  <1>9. ~Offer(p, c) /\ ~Answer(c, p)
    BY <1>1 DEF Offer, Answer, At
  <1> QED
    BY <1>4, <1>5, <1>6, <1>7, <1>8, <1>9 DEF Turns

LEMMA NegotiatedInit == Init => Negotiated
  BY DEF Init, Negotiated, Both

\* A newcomer has its negotiation with everyone in the room before it.
LEMMA NewcomerNegotiates ==
    ASSUME HubTypeOK, Standing, Newcomers, [Next]_vars, NEW c \in Client, NEW p \in Client,
           Join(c), Both(c, p)'
    PROVE  Negotiation(p, c)'
  <1>1. c # p /\ browser[p] = "in" /\ p \in room /\ conn[c] = "new" /\ c \notin room
    BY DEF Both, Join, Standing, HubTypeOK
  <1>2. Cardinality(room) < RoomCapacity
    <2>1. browser'[c] = "in" /\ Cardinality(room) \in Nat
      BY RoomSize DEF Both
    <2> QED
      BY <2>1, HubAssumption DEF Join, HubTypeOK
  <1>3. SendTo(room, Message_("join", c)) /\ room \in SUBSET Client /\ calls' = calls
    <2>1. Cardinality(room) \in Nat
      BY RoomSize
    <2>2. ~(Cardinality(room) >= RoomCapacity)
      BY <1>2, <2>1, HubAssumption
    <2>3. room \in SUBSET Client
      BY DEF HubTypeOK
    <2> QED
      BY <2>2, <2>3 DEF Join
  <1>4. /\ "join" \in Type /\ Message_("join", c) \in Message /\ Message_("join", c).from = c
    BY MessageFields DEF Type
  <1>5. send[p] \in Seq(Message) /\ send'[p] = Append(send[p], Message_("join", c))
    BY <1>1, <1>3, <1>4, SendToEffect DEF Both, HubTypeOK
  <1>6. send'[c] = <<>>
    BY <1>1, <1>3, <1>4, SendToEffect DEF Newcomers
  <1>7. Silent(p, c)
    <2>1. \A message \in ToSet(send[p]) : message.from # c
      BY <1>1 DEF Newcomers
    <2> QED
      BY <2>1 DEF Silent, SilentIn, ToSet
  <1>8. Only(p, c, "join")'
    BY <1>4, <1>5, <1>7, AppendMail DEF Only, Silent
  <1>9. Silent(c, p)'
    <2>1. Len(<<>>) = 0
      OBVIOUS
    <2> QED
      BY <1>6, <2>1 DEF Silent, SilentIn
  <1>10. At(p, c, "none", "none")'
    BY <1>1, <1>3 DEF At, Newcomers
  <1> QED
    BY <1>8, <1>9, <1>10 DEF Negotiation

LEMMA NegotiatedStep ==
    HubTypeOK /\ Standing /\ Newcomers /\ Negotiated /\ [Next]_vars => Negotiated'
  <1> SUFFICES ASSUME HubTypeOK, Standing, Newcomers, Negotiated, [Next]_vars,
                      NEW c \in Client, NEW p \in Client, Both(c, p)'
               PROVE  Negotiation(c, p)' \/ Negotiation(p, c)'
    BY DEF Negotiated
  <1>1. Both(p, c)'
    BY DEF Both
  <1>2. \A d \in Client : browser'[d] = "in" => browser[d] = "in" \/ Join(d)
    BY DEF Next, vars, Join, StartPumps, Leave, CloseSend, Deliver, Offer, Answer, HangUp, Cut,
           HubTypeOK
  <1>3. CASE Join(c)
    BY <1>3, NewcomerNegotiates
  <1>4. CASE Join(p)
    BY <1>1, <1>4, NewcomerNegotiates
  <1>5. CASE ~Join(c) /\ ~Join(p)
    <2>1. Both(c, p) /\ Both(p, c)
      BY <1>2, <1>5, MissedGrows DEF Both
    <2>2. Negotiation(c, p) \/ Negotiation(p, c)
      BY <2>1 DEF Negotiated
    <2> QED
      BY <1>1, <2>1, <2>2, NegotiationStep
  <1> QED
    BY <1>3, <1>4, <1>5

\* Nobody is left out: when a room of any size is at rest, every two browsers in it
\* between which no message was dropped are connected, on both sides (hub.go, Join and
\* Route; call.js).
THEOREM NobodyIsLeftOut == Spec => []QuietRoomIsConnected
  <1>1. HubTypeOK /\ Negotiated => QuietRoomIsConnected
    <2> SUFFICES ASSUME HubTypeOK, Negotiated, Quiet, NEW c \in room, NEW p \in room, c # p,
                        <<c, p>> \notin missed, <<p, c>> \notin missed
                 PROVE  calls[c][p] = "connected"
      BY DEF QuietRoomIsConnected
    <2>1. c \in Client /\ p \in Client
      BY DEF HubTypeOK
    <2>2. Negotiation(c, p) \/ Negotiation(p, c)
      BY <2>1 DEF Negotiated, Both, Quiet
    <2>3. send[c] = <<>> /\ send[p] = <<>> /\ ~Negotiating(c) /\ ~Negotiating(p)
      BY DEF Quiet
    <2>4. Len(<<>>) = 0
      OBVIOUS
    <2>5. \A type : ~Only(c, p, type) /\ ~Only(p, c, type)
      BY <2>3, <2>4 DEF Only, OnlyIn
    <2> QED
      BY <2>1, <2>2, <2>3, <2>5 DEF Negotiation, At, Negotiating
  <1> QED
    BY <1>1, HubInvAlways, NegotiatedInit, NegotiatedStep, PTL DEF Spec, HubInv
=============================================================================
