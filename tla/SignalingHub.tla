---------------------------- MODULE SignalingHub ----------------------------
(***************************************************************************)
(* WebRTC signaling: one room of gateway/internal/websocket's Hub, with    *)
(* the handler and the two pumps of each connection, and the browsers'     *)
(* side of it, web/call.js, which negotiates a call between every two      *)
(* browsers of the room.                                                   *)
(*                                                                         *)
(*   new -> joined -> reading -> left -> closed        refused             *)
(*                                                                         *)
(* A client is one connection: joining again means a new client.  Whoever  *)
(* is in the room when p joins offers p a call, and p answers.  ICE        *)
(* candidates follow the path of an offer and are left out.  A message a   *)
(* browser sends is routed in the step that sends it, and one a WritePump  *)
(* writes is handled in that step: either side's being slow is the same    *)
(* as the step's being late.                                               *)
(***************************************************************************)
EXTENDS FiniteSetsExt, SequencesExt

CONSTANTS Client,
          RoomCapacity,  \* maxClientsPerRoom
          SendBuffer,    \* sendBuffer
          MaxDepartures  \* bounds how many clients hang up or are cut off

ASSUME HubAssumption ==
    /\ IsFiniteSet(Client)
    /\ RoomCapacity \in Nat
    /\ SendBuffer \in Nat
    /\ MaxDepartures \in Nat

VARIABLES room,     \* Hub: the clients registered in the room
          conn,     \* where the handler and the ReadPump of each client stand
          send,     \* each client's buffered channel
          browser,  \* each client's browser: not joined, in the call, hung up, or cut
                    \* off from signaling
          calls,    \* each browser's peers, and how far the call to each has come
          missed    \* history: <<c, p>> when a message about p for c was dropped

vars == <<room, conn, send, browser, calls, missed>>

Conn == {"new", "joined", "reading", "left", "closed", "refused"}
Browser == {"idle", "in", "out", "cut"}
Call == {"none", "offering", "offered", "answering", "connected"}
Type == {"peers", "join", "offer", "answer", "leave"}
Message == [type : Type, from : Client]

HubTypeOK ==
    /\ room \subseteq Client /\ Cardinality(room) <= RoomCapacity
    /\ conn \in [Client -> Conn]
    /\ send \in [Client -> Seq(Message)] /\ \A c \in Client : Len(send[c]) <= SendBuffer
    /\ browser \in [Client -> Browser]
    /\ calls \in [Client -> [Client -> Call]]
    /\ missed \subseteq Client \X Client

Init ==
    /\ room = {}
    /\ conn = [c \in Client |-> "new"]
    /\ send = [c \in Client |-> <<>>]
    /\ browser = [c \in Client |-> "idle"]
    /\ calls = [c \in Client |-> [p \in Client |-> "none"]]
    /\ missed = {}

ConnGoTo(c, label) == conn' = [conn EXCEPT ![c] = label]
SetCall(c, p, state) == calls' = [calls EXCEPT ![c][p] = state]
Message_(type, from) == [type |-> type, from |-> from]

----------------------------------------------------------------------------
(* The hub and the connections.                                            *)

HasRoom(c) == Len(send[c]) < SendBuffer

\* Send, to each of some clients: it never blocks, and drops what does not fit.
SendTo(clients, message) ==
    /\ send' = [c \in Client |-> IF c \in clients /\ HasRoom(c) THEN Append(send[c], message)
                                                               ELSE send[c]]
    /\ missed' = missed \union {<<c, message.from>> : c \in {d \in clients : ~HasRoom(d)}}

\* Mutant: the check lets one too many in.
JoinOverfull(c) ==
    /\ conn[c] = "new"
    /\ browser' = [browser EXCEPT ![c] = "in"]
    /\ IF Cardinality(room) > RoomCapacity
         THEN ConnGoTo(c, "refused") /\ UNCHANGED <<room, send, missed>>
         ELSE /\ SendTo(room, Message_("join", c))
              /\ room' = room \union {c}
              /\ ConnGoTo(c, "joined")
    /\ UNCHANGED calls

\* The browser connects, and the handler has the hub register it.
Join(c) ==
    /\ conn[c] = "new"
    /\ IF Cardinality(room) >= RoomCapacity
         THEN /\ ConnGoTo(c, "refused")
              /\ browser' = [browser EXCEPT ![c] = "cut"]
              /\ UNCHANGED <<room, send, missed>>
         ELSE /\ SendTo(room, Message_("join", c))
              /\ room' = room \union {c}
              /\ ConnGoTo(c, "joined")
              /\ browser' = [browser EXCEPT ![c] = "in"]
    /\ UNCHANGED calls

\* The handler starts WritePump, sends the list of peers, and becomes ReadPump.
StartPumps(c) ==
    /\ conn[c] = "joined"
    /\ SendTo({c}, Message_("peers", c))
    /\ ConnGoTo(c, "reading")
    /\ UNCHANGED <<room, browser, calls>>

\* Mutant: only a client that says so is announced to have left.
LeaveUnannounced(c) ==
    /\ conn[c] = "reading"
    /\ browser[c] \in {"out", "cut"}
    /\ room' = room \ {c}
    /\ IF browser[c] = "out" THEN SendTo(room \ {c}, Message_("leave", c))
                             ELSE UNCHANGED <<send, missed>>
    /\ ConnGoTo(c, "left")
    /\ UNCHANGED <<browser, calls>>

\* ReadPump reads "leave", a closed connection, or nothing for pongWait; deferred,
\* it has the hub remove the client.
Leave(c) ==
    /\ conn[c] = "reading"
    /\ browser[c] \in {"out", "cut"}
    /\ room' = room \ {c}
    /\ SendTo(room \ {c}, Message_("leave", c))
    /\ ConnGoTo(c, "left")
    /\ UNCHANGED <<browser, calls>>

\* Mutant: ReadPump closes the channel before it leaves the room.
CloseSendFirst(c) ==
    /\ conn[c] = "reading"
    /\ browser[c] \in {"out", "cut"}
    /\ ConnGoTo(c, "closed")
    /\ UNCHANGED <<room, send, browser, calls, missed>>

\* It closes the channel; WritePump, or nobody any more, takes what is left in it.
CloseSend(c) ==
    /\ conn[c] = "left"
    /\ ConnGoTo(c, "closed")
    /\ send' = [send EXCEPT ![c] = <<>>]
    /\ UNCHANGED <<room, browser, calls, missed>>

\* Route, of a message from c that has reached ReadPump.
Route(c, p, type) ==
    IF p \in room THEN SendTo({p}, Message_(type, c)) ELSE UNCHANGED <<send, missed>>

----------------------------------------------------------------------------
(* The browsers.                                                           *)

\* Mutant: a newcomer offers calls as well.
HandlePeersOffering(c) ==
    calls' = [calls EXCEPT ![c] = [p \in Client |->
                IF p \in room \ {c} /\ calls[c][p] = "none" THEN "offering" ELSE calls[c][p]]]

\* A newcomer waits for the others' offers.
HandlePeers(c) == UNCHANGED calls

HandleJoin(c, p) == SetCall(c, p, "offering")

\* Mutant: an offer from a peer that is not known is dropped.
HandleOfferIfKnown(c, p) ==
    IF calls[c][p] # "none" THEN SetCall(c, p, "answering") ELSE UNCHANGED calls

\* getOrCreatePeer, and handleOffer until its first await.
HandleOffer(c, p) == SetCall(c, p, "answering")

HandleAnswer(c, p) ==
    IF calls[c][p] # "none" THEN SetCall(c, p, "connected") ELSE UNCHANGED calls

HandleLeave(c, p) == SetCall(c, p, "none")

\* WritePump writes a message, and onmessage handles it.
Deliver(c) ==
    /\ conn[c] = "reading"
    /\ browser[c] = "in"
    /\ send[c] # <<>>
    /\ LET message == Head(send[c])
           p == message.from
       IN  \/ message.type = "peers" /\ HandlePeers(c)
           \/ message.type = "join" /\ HandleJoin(c, p)
           \/ message.type = "offer" /\ HandleOffer(c, p)
           \/ message.type = "answer" /\ HandleAnswer(c, p)
           \/ message.type = "leave" /\ HandleLeave(c, p)
    /\ send' = [send EXCEPT ![c] = Tail(@)]
    /\ UNCHANGED <<room, conn, browser, missed>>

\* createOffer, after its awaits; a call that was closed meanwhile throws.
Offer(c, p) ==
    /\ browser[c] = "in"
    /\ calls[c][p] = "offering"
    /\ SetCall(c, p, "offered")
    /\ Route(c, p, "offer")
    /\ UNCHANGED <<room, conn, browser>>

\* handleOffer, after its awaits.
Answer(c, p) ==
    /\ browser[c] = "in"
    /\ calls[c][p] = "answering"
    /\ SetCall(c, p, "connected")
    /\ Route(c, p, "answer")
    /\ UNCHANGED <<room, conn, browser>>

MayDepart(c) ==
    /\ browser[c] = "in"
    /\ Cardinality({d \in Client : browser[d] \in {"out", "cut"} /\ conn[d] # "refused"})
          < MaxDepartures

\* hangup: the browser sends "leave" and closes its calls.
HangUp(c) ==
    /\ MayDepart(c)
    /\ browser' = [browser EXCEPT ![c] = "out"]
    /\ calls' = [calls EXCEPT ![c] = [p \in Client |-> "none"]]
    /\ UNCHANGED <<room, conn, send, missed>>

\* The connection breaks; onclose only logs it, and the calls go on.
Cut(c) ==
    /\ MayDepart(c)
    /\ browser' = [browser EXCEPT ![c] = "cut"]
    /\ UNCHANGED <<room, conn, send, calls, missed>>

Next ==
    \E c \in Client :
       \/ Join(c) \/ StartPumps(c) \/ Leave(c) \/ CloseSend(c) \/ Deliver(c)
       \/ \E p \in Client : Offer(c, p) \/ Answer(c, p)
       \/ HangUp(c) \/ Cut(c)

Spec == Init /\ [][Next]_vars

----------------------------------------------------------------------------
(* Properties.                                                             *)

\* The hub never sends to a channel that was closed, which would bring the gateway
\* down: whoever is in the room has one that is open (client.go, ReadPump).
MembersAreOpen == \A c \in room : conn[c] \in {"joined", "reading"}

Waiting(c, type, p) == Message_(type, p) \in ToSet(send[c])

\* A browser in the room has a call with somebody who is not only while the news of
\* that is on its way, or was dropped (hub.go, Leave: "so it can tear down its
\* connection").
NoGhostCalls ==
    \A c \in room, p \in Client :
        calls[c][p] # "none" /\ browser[c] = "in" =>
            p \in room \/ Waiting(c, "leave", p) \/ <<c, p>> \in missed

Negotiating(c) == \E p \in Client : calls[c][p] \in {"offering", "answering"}

\* Everyone in the room is there and nothing is under way.
Quiet ==
    \A c \in room : /\ conn[c] = "reading" /\ browser[c] = "in"
                    /\ send[c] = <<>> /\ ~Negotiating(c)

\* When a room comes to rest every two browsers in it are connected, on both sides,
\* unless a message between them was dropped: nobody was left out by joining while
\* others joined, left or negotiated (hub.go, Join; call.js).
QuietRoomIsConnected ==
    Quiet => \A c, p \in room :
                c # p => \/ calls[c][p] = "connected"
                         \/ <<c, p>> \in missed \/ <<p, c>> \in missed

\* No two browsers offer each other a call: an offer never reaches one that has an
\* offer of its own to the sender (hub.go, Join; message.go, TypePeers: "The new
\* client waits for each of them to send it an offer").
NoGlare ==
    \A c, p \in Client : Waiting(c, "offer", p) => calls[c][p] \notin {"offering", "offered"}
=============================================================================
