------------------------- MODULE TcpEndpoint_proofs -------------------------
(***************************************************************************)
(* Proofs about TcpEndpoint, for any number of connections, calls, topics  *)
(* and threads of the executor.                                            *)
(***************************************************************************)
EXTENDS TcpEndpoint, SequenceTheorems, FiniteSetTheorems, TLAPS

-----------------------------------------------------------------------------
(***************************************************************************)
(* Types.                                                                  *)
(***************************************************************************)
ReaderPlaces == {"none", "read", "handle", "body", "header", "flag", "request", "response",
                 "error", "refuse", "clear", "finally", "done"}

\* What a thread works on is there while it works on it.
WithHand == {"handle", "body", "header", "flag", "request", "response"}
HandHeld == \A c \in Conns : reader[c] \in WithHand => hand[c] \in Messages
ItemHeld == \A c \in Conns : sender[c] = "send" => held[c] \in Items
CallHasNumber == \A k \in Calls : callback[k] = "put" => srvId[k] \in Nat

TypeInv == TypeOK /\ HandHeld /\ ItemHeld /\ CallHasNumber

LEMMA ItemTypes ==
    /\ Handshake \in Items /\ Other \in Items
    /\ \A i \in Nat : Request(i) \in Items
    /\ \A i : Request(i) \in Items => i \in Nat
    /\ \A i : Request(i) # Handshake /\ Request(i) # Other
    /\ Handshake # Other
BY EndpointAssumption DEF Handshake, Other, Request, Items

LEMMA MessageTypes ==
    /\ \A i \in Nat : Header("response", i) \in Messages /\ Answer(i) \in Messages
    /\ \A r \in Requests : Header("request", r) \in Messages /\ Body(r) \in Messages
    /\ Unknown \in Messages /\ Extras \subseteq Messages
    /\ \A m \in Messages : /\ m.kind = "response" => m.id \in Nat
                           /\ m.kind = "request" => m.id \in Requests
                           /\ m.id \in Nat \cup Requests \cup {None}
BY DEF Header, Answer, Body, Unknown, Extras, Messages

\* Putting an item keeps the types of all queues.
LEMMA PutType ==
    ASSUME TypeOK, NEW item \in Items, Put(item)
    PROVE  local' \in [Conns -> Seq(Items)]
<1>1. queue \in Conns /\ local \in [Conns -> Seq(Items)]
      BY DEF Put, TypeOK
<1>2. Append(local[queue], item) \in Seq(Items)
      BY <1>1, AppendProperties
<1> QED BY <1>1, <1>2 DEF Put

\* A client thread that goes on keeps the message that it still needs.
LEMMA GoesType ==
    ASSUME TypeOK, HandHeld, NEW c \in Conns, NEW from, NEW to \in ReaderPlaces, Goes(c, from, to),
           to = "handle" => toRos[c] # <<>>,
           to \in WithHand \ {"handle"} => from \in WithHand
    PROVE  /\ reader' \in [Conns -> ReaderPlaces]
           /\ hand' \in [Conns -> Messages \cup {None}]
           /\ HandHeld'
<1>1. reader' = [reader EXCEPT ![c] = to] /\ reader[c] = from
      BY DEF Goes
<1>2. PICK m : /\ hand' = [hand EXCEPT ![c] = m]
               /\ to = "handle" => m = Head(toRos[c])
               /\ to \in WithHand \ {"handle"} => m = hand[c]
               /\ to \notin WithHand => m = None
      BY DEF Goes, WithHand
<1>3. reader \in [Conns -> ReaderPlaces] /\ hand \in [Conns -> Messages \cup {None}]
      BY DEF TypeOK, ReaderPlaces
<1>4. to = "handle" => Head(toRos[c]) \in Messages
      BY HeadTailProperties DEF TypeOK
<1>5. to \in WithHand \ {"handle"} => hand[c] \in Messages
      BY <1>1 DEF HandHeld
<1>6. /\ m \in Messages \cup {None}
      /\ to \in WithHand => m \in Messages
      BY <1>2, <1>4, <1>5
<1> QED BY <1>1, <1>2, <1>3, <1>6 DEF HandHeld

\* Queues when they are cleared or their first element is taken.
LEMMA QueueTypes ==
    ASSUME TypeOK, NEW c \in Conns
    PROVE  /\ [toRos EXCEPT ![c] = <<>>] \in [Conns -> Seq(Messages)]
           /\ toRos[c] # <<>> => [toRos EXCEPT ![c] = Tail(@)] \in [Conns -> Seq(Messages)]
           /\ [local EXCEPT ![c] = <<>>] \in [Conns -> Seq(Items)]
           /\ local[c] # <<>> => /\ Head(local[c]) \in Items
                                /\ [local EXCEPT ![c] = Tail(@)] \in [Conns -> Seq(Items)]
<1>1. toRos \in [Conns -> Seq(Messages)] /\ local \in [Conns -> Seq(Items)]
      BY DEF TypeOK
<1>2. <<>> \in Seq(Messages) /\ <<>> \in Seq(Items)
      BY EmptySeq
<1>3. toRos[c] # <<>> => Tail(toRos[c]) \in Seq(Messages)
      BY <1>1, HeadTailProperties
<1>4. local[c] # <<>> => Head(local[c]) \in Items /\ Tail(local[c]) \in Seq(Items)
      BY <1>1, HeadTailProperties
<1> QED BY <1>1, <1>2, <1>3, <1>4

LEMMA InitType == Init => TypeInv
<1> SUFFICES ASSUME Init PROVE TypeInv
    OBVIOUS
<1>1. TypeOK
  <2>1. <<>> \in Seq(Messages) /\ <<>> \in Seq(Items)
        BY EmptySeq
  <2>2. toRos \in [Conns -> Seq(Messages)] /\ local \in [Conns -> Seq(Items)]
        BY <2>1 DEF Init
  <2>3. extras \in 0..MaxExtra /\ nextSrvId \in Nat /\ serving \subseteq [id : Nat \cup Requests \cup {None}, at : {"call", "put"}]
        BY EndpointAssumption DEF Init
  <2>4. toUnity \in [Conns -> SUBSET Items] /\ unasked \subseteq Requests /\ waiting \subseteq Nat
        BY DEF Init
  <2>5. /\ reader \in [Conns -> ReaderPlaces] /\ hand \in [Conns -> Messages \cup {None}]
        /\ sender \in [Conns -> {"none", "start", "get", "send", "finally", "release", "done"}]
        /\ held \in [Conns -> Items \cup {None}] /\ halt \in [Conns -> BOOLEAN]
        /\ link \in [Conns -> {"none", "up", "gone"}]
        BY DEF Init, ReaderPlaces
  <2>6. /\ callback \in [Callbacks -> {"idle", "put", "sleep", "asleep", "done", "raised"}]
        /\ srvId \in [Calls -> Nat \cup {None}] /\ result \in [Calls -> Messages \cup {None}]
        BY DEF Init
  <2>7. /\ queue \in Conns \cup {None} /\ pendingSrvId \in Nat \cup Requests \cup {None}
        /\ pendingSrvIsRequest \in BOOLEAN /\ registered \in SUBSET {"topic", "service"}
        BY DEF Init
  <2> QED BY <2>2, <2>3, <2>4, <2>5, <2>6, <2>7 DEF TypeOK, ReaderPlaces
<1>2. HandHeld /\ ItemHeld
      BY DEF Init, HandHeld, ItemHeld, WithHand
<1>3. CallHasNumber
      BY DEF Init, CallHasNumber, Callbacks
<1> QED BY <1>1, <1>2, <1>3 DEF TypeInv

LEMMA UnityType ==
    ASSUME TypeInv, NEW c \in Conns, Accept(c) \/ Unity(c) \/ Disconnect(c)
    PROVE  TypeInv'
<1> USE DEF TypeInv
<1>1. CASE Accept(c)
      BY <1>1 DEF Accept, TypeOK, HandHeld, WithHand, ItemHeld, CallHasNumber, unityVars, pendingVars,
                  serviceVars
<1>2. CASE Disconnect(c)
  <2>1. toRos' \in [Conns -> Seq(Messages)]
    <3>1. toRos' = toRos \/ toRos' = [toRos EXCEPT ![c] = <<>>]
          BY <1>2 DEF Disconnect
    <3>2. toRos \in [Conns -> Seq(Messages)]
          BY DEF TypeOK
    <3> QED BY <3>1, <3>2, QueueTypes
  <2>2. toUnity' \in [Conns -> SUBSET Items]
        BY <1>2 DEF Disconnect, TypeOK
  <2> QED BY <1>2, <2>1, <2>2 DEF Disconnect, TypeOK, HandHeld, ItemHeld, CallHasNumber,
            readerVars, senderVars, pendingVars, serviceVars
<1>3. ASSUME NEW msgs \in Seq(Messages), UnitySends(c, msgs),
             toUnity' \in [Conns -> SUBSET Items], extras' \in 0..MaxExtra, unasked' \subseteq Requests
      PROVE  TypeInv'
  <2>1. toRos[c] \o msgs \in Seq(Messages)
        BY <1>3, ConcatProperties DEF TypeOK
  <2>2. toRos' \in [Conns -> Seq(Messages)]
        BY <1>3, <2>1 DEF UnitySends, TypeOK
  <2> QED BY <1>3, <2>2 DEF UnitySends, TypeOK, HandHeld, ItemHeld, CallHasNumber,
            readerVars, senderVars, pendingVars, serviceVars
<1>4. ASSUME NEW k \in Calls, UnityAnswers(c, srvId[k]) PROVE TypeInv'
  <2>1. srvId[k] \in Nat
        BY <1>4, ItemTypes DEF UnityAnswers, TypeOK
  <2>2. <<Header("response", srvId[k]), Answer(srvId[k])>> \in Seq(Messages)
        BY <2>1, MessageTypes
  <2>3. toUnity' \in [Conns -> SUBSET Items] /\ extras' \in 0..MaxExtra /\ unasked' \subseteq Requests
        BY <1>4 DEF UnityAnswers, TypeOK
  <2> QED BY <1>3, <1>4, <2>2, <2>3 DEF UnityAnswers
<1>5. ASSUME NEW r \in Requests, UnityCalls(c, r) PROVE TypeInv'
  <2>1. PICK body \in {Body(r), Unknown} : UnitySends(c, <<Header("request", r), body>>)
        BY <1>5 DEF UnityCalls
  <2>2. <<Header("request", r), body>> \in Seq(Messages)
        BY <2>1, MessageTypes
  <2>3. toUnity' \in [Conns -> SUBSET Items] /\ extras' \in 0..MaxExtra /\ unasked' \subseteq Requests
        BY <1>5, EndpointAssumption DEF UnityCalls, TypeOK
  <2> QED BY <1>3, <2>1, <2>2, <2>3
<1>6. ASSUME NEW m \in Extras, UnityExtra(c, m) PROVE TypeInv'
  <2>1. <<m>> \in Seq(Messages)
        BY MessageTypes
  <2>2. toUnity' \in [Conns -> SUBSET Items] /\ extras' \in 0..MaxExtra /\ unasked' \subseteq Requests
        BY <1>6, EndpointAssumption DEF UnityExtra, TypeOK
  <2> QED BY <1>3, <1>6, <2>1, <2>2 DEF UnityExtra
<1> QED BY <1>1, <1>2, <1>4, <1>5, <1>6 DEF Unity

LEMMA ReaderType ==
    ASSUME TypeInv, NEW c \in Conns, ClientThread(c)
    PROVE  TypeInv'
<1> USE DEF TypeInv
<1>1. CASE ReadMessage(c)
  <2>1. toRos' \in [Conns -> Seq(Messages)]
    <3>1. toRos' = toRos \/ (toRos[c] # <<>> /\ toRos' = [toRos EXCEPT ![c] = Tail(@)])
          BY <1>1 DEF ReadMessage
    <3> QED BY <3>1, QueueTypes DEF TypeOK
  <2>2. reader' \in [Conns -> ReaderPlaces] /\ hand' \in [Conns -> Messages \cup {None}] /\ HandHeld'
        BY <1>1, GoesType DEF ReadMessage, ReaderPlaces, WithHand
  <2> QED BY <1>1, <2>1, <2>2 DEF ReadMessage, TypeOK, ReaderPlaces, ItemHeld, CallHasNumber,
            unityVars, senderVars, pendingVars, serviceVars
<1>2. CASE TakeAsBody(c)
  <2>2. reader' \in [Conns -> ReaderPlaces] /\ hand' \in [Conns -> Messages \cup {None}] /\ HandHeld'
        BY <1>2, GoesType DEF TakeAsBody, ReaderPlaces, WithHand
  <2> QED BY <1>2, <2>2 DEF TakeAsBody, TypeOK, ReaderPlaces, ItemHeld, CallHasNumber,
            unityVars, senderVars, pendingVars, serviceVars
<1>3. CASE TakeHeader(c)
  <2>1. reader' \in [Conns -> ReaderPlaces] /\ hand' \in [Conns -> Messages \cup {None}] /\ HandHeld'
        BY <1>3, GoesType DEF TakeHeader, ReaderPlaces, WithHand
  <2>2. pendingSrvId' \in Nat \cup Requests \cup {None} /\ pendingSrvIsRequest' \in BOOLEAN
    <3>1. reader[c] = "header" => hand[c] \in Messages
          BY DEF HandHeld, WithHand
    <3>2. pendingSrvIsRequest' \in BOOLEAN
          BY <1>3 DEF TakeHeader, TypeOK, pendingVars
    <3>3. pendingSrvId' \in Nat \cup Requests \cup {None}
          BY <1>3, <3>1, MessageTypes DEF TakeHeader, TypeOK, Goes, pendingVars
    <3> QED BY <3>2, <3>3
  <2> QED BY <1>3, <2>1, <2>2 DEF TakeHeader, TypeOK, ReaderPlaces, ItemHeld, CallHasNumber,
            unityVars, senderVars, serviceVars
<1>4. CASE TakeRegistration(c)
  <2>1. reader' \in [Conns -> ReaderPlaces] /\ hand' \in [Conns -> Messages \cup {None}] /\ HandHeld'
        BY <1>4, GoesType DEF TakeRegistration, ReaderPlaces, WithHand
  <2>2. registered' \in SUBSET {"topic", "service"}
        BY <1>4 DEF TakeRegistration, TypeOK
  <2> QED BY <1>4, <2>1, <2>2 DEF TakeRegistration, TypeOK, ReaderPlaces, ItemHeld, CallHasNumber,
            unityVars, senderVars, pendingVars, serviceVars
<1>5. CASE TakeOther(c)
  <2>1. reader' \in [Conns -> ReaderPlaces] /\ hand' \in [Conns -> Messages \cup {None}] /\ HandHeld'
        BY <1>5, GoesType DEF TakeOther, ReaderPlaces, WithHand
  <2> QED BY <1>5, <2>1 DEF TakeOther, TypeOK, ReaderPlaces, ItemHeld, CallHasNumber,
            unityVars, senderVars, pendingVars, serviceVars
<1>6. CASE SendError(c)
  <2>1. reader' \in [Conns -> ReaderPlaces] /\ hand' \in [Conns -> Messages \cup {None}] /\ HandHeld'
        BY <1>6, GoesType DEF SendError, ReaderPlaces, WithHand
  <2>2. local' \in [Conns -> Seq(Items)]
        BY <1>6, PutType, ItemTypes DEF SendError, TypeOK
  <2> QED BY <1>6, <2>1, <2>2 DEF SendError, TypeOK, ReaderPlaces, ItemHeld, CallHasNumber,
            unityVars, senderVars, pendingVars, serviceVars
<1>7. CASE Resume(c)
  <2>1. reader' \in [Conns -> ReaderPlaces] /\ hand' \in [Conns -> Messages \cup {None}] /\ HandHeld'
        BY <1>7, GoesType DEF Resume, ReaderPlaces, WithHand
  <2>2. result' \in [Calls -> Messages \cup {None}] /\ waiting' \subseteq Nat
        BY <1>7 DEF Resume, TypeOK
  <2>3. /\ callback' \in [Callbacks -> {"idle", "put", "sleep", "asleep", "done", "raised"}]
        /\ CallHasNumber'
    <3>1. callback \in [Callbacks -> {"idle", "put", "sleep", "asleep", "done", "raised"}] /\ Calls \subseteq Callbacks
          BY DEF TypeOK, Callbacks
    <3>2. srvId' = srvId
          BY <1>7 DEF Resume
    <3>3. callback' = callback \/ \E k \in Calls : callback' = [callback EXCEPT ![k] = "done"]
          BY <1>7 DEF Resume, Notify
    <3> QED BY <3>1, <3>2, <3>3 DEF CallHasNumber
  <2> QED BY <1>7, <2>1, <2>2, <2>3 DEF Resume, TypeOK, ReaderPlaces, ItemHeld,
            unityVars, senderVars, pendingVars
<1>8. CASE CallService(c)
  <2>1. reader' \in [Conns -> ReaderPlaces] /\ hand' \in [Conns -> Messages \cup {None}] /\ HandHeld'
        BY <1>8, GoesType DEF CallService, ReaderPlaces, WithHand
  <2>2. serving' \subseteq [id : Nat \cup Requests \cup {None}, at : {"call", "put"}]
        BY <1>8 DEF CallService, TypeOK
  <2> QED BY <1>8, <2>1, <2>2 DEF CallService, TypeOK, ReaderPlaces, ItemHeld, CallHasNumber,
            unityVars, senderVars, pendingVars, serviceVars
<1>9. CASE ClearPending(c)
  <2>1. reader' \in [Conns -> ReaderPlaces] /\ hand' \in [Conns -> Messages \cup {None}] /\ HandHeld'
        BY <1>9, GoesType DEF ClearPending, ReaderPlaces, WithHand
  <2> QED BY <1>9, <2>1 DEF ClearPending, TypeOK, ReaderPlaces, ItemHeld, CallHasNumber,
            unityVars, senderVars, pendingVars, serviceVars
<1>10. CASE ReaderEnds(c)
  <2>1. reader' \in [Conns -> ReaderPlaces] /\ hand' \in [Conns -> Messages \cup {None}] /\ HandHeld'
        BY <1>10, GoesType DEF ReaderEnds, ReaderPlaces, WithHand
  <2>2. toRos' \in [Conns -> Seq(Messages)]
        BY <1>10, EmptySeq DEF ReaderEnds, TypeOK
  <2> QED BY <1>10, <2>1, <2>2 DEF ReaderEnds, TypeOK, ReaderPlaces, ItemHeld, CallHasNumber,
            unityVars, senderVars, pendingVars, serviceVars
<1> QED BY <1>1, <1>2, <1>3, <1>4, <1>5, <1>6, <1>7, <1>8, <1>9, <1>10 DEF ClientThread

LEMMA SenderType ==
    ASSUME TypeInv, NEW c \in Conns, SenderLoop(c)
    PROVE  TypeInv'
<1> USE DEF TypeInv
<1>1. CASE OfferQueue(c)
  <2>1. local' \in [Conns -> Seq(Items)]
        BY <1>1, ItemTypes DEF OfferQueue, TypeOK
  <2> QED BY <1>1, <2>1 DEF OfferQueue, Moves, TypeOK, HandHeld, ItemHeld, CallHasNumber,
            unityVars, readerVars, pendingVars, serviceVars
<1>2. CASE GetItem(c)
  <2>1. local' \in [Conns -> Seq(Items)] /\ (local[c] # <<>> => Head(local[c]) \in Items)
    <3>1. local' = local \/ (local[c] # <<>> /\ local' = [local EXCEPT ![c] = Tail(@)])
          BY <1>2 DEF GetItem
    <3>2. local \in [Conns -> Seq(Items)]
          BY DEF TypeOK
    <3>3. local[c] # <<>> => /\ Head(local[c]) \in Items
                             /\ [local EXCEPT ![c] = Tail(@)] \in [Conns -> Seq(Items)]
          BY QueueTypes
    <3> QED BY <3>1, <3>2, <3>3
  <2>2. held' \in [Conns -> Items \cup {None}] /\ ItemHeld'
    <3>1. \/ held' = [held EXCEPT ![c] = Head(local[c])] /\ Head(local[c]) \in Items
          \/ held' = held /\ sender' = [sender EXCEPT ![c] = "finally"]
          BY <1>2, <2>1 DEF GetItem, Moves
    <3>2. /\ held \in [Conns -> Items \cup {None}] /\ DOMAIN sender = Conns
          /\ \A d \in Conns \ {c} : sender'[d] = sender[d]
      <4>1. \E to \in {"send", "finally"} : sender' = [sender EXCEPT ![c] = to]
            BY <1>2 DEF GetItem, Moves
      <4> QED BY <4>1 DEF TypeOK
    <3> QED BY <3>1, <3>2 DEF ItemHeld
  <2>3. sender' \in [Conns -> {"none", "start", "get", "send", "finally", "release", "done"}]
    <3>1. \E to \in {"send", "finally"} : sender' = [sender EXCEPT ![c] = to]
          BY <1>2 DEF GetItem, Moves
    <3> QED BY <3>1 DEF TypeOK
  <2> QED BY <1>2, <2>1, <2>2, <2>3 DEF GetItem, TypeOK, HandHeld, CallHasNumber,
            unityVars, readerVars, pendingVars, serviceVars
<1>3. CASE SendItem(c)
  <2>1. toUnity' \in [Conns -> SUBSET Items]
    <3>1. sender[c] = "send" => held[c] \in Items
          BY DEF ItemHeld
    <3>2. [toUnity EXCEPT ![c] = @ \cup {held[c]}] \in [Conns -> SUBSET Items] \/ held[c] \notin Items
          BY DEF TypeOK
    <3>3. toUnity' \in {toUnity, [toUnity EXCEPT ![c] = @ \cup {held[c]}]} /\ sender[c] = "send"
          BY <1>3 DEF SendItem, Moves
    <3> QED BY <3>1, <3>2, <3>3 DEF TypeOK
  <2> QED BY <1>3, <2>1 DEF SendItem, Moves, TypeOK, HandHeld, ItemHeld, CallHasNumber,
            readerVars, pendingVars, serviceVars
<1>4. CASE SenderEnds(c)
  <2>1. local' \in [Conns -> Seq(Items)]
    <3>1. local' = local \/ local' = [local EXCEPT ![c] = <<>>]
          BY <1>4 DEF SenderEnds
    <3>2. local \in [Conns -> Seq(Items)]
          BY DEF TypeOK
    <3> QED BY <3>1, <3>2, QueueTypes
  <2> QED BY <1>4, <2>1 DEF SenderEnds, Moves, TypeOK, HandHeld, ItemHeld, CallHasNumber,
            unityVars, readerVars, pendingVars, serviceVars
<1> QED BY <1>1, <1>2, <1>3, <1>4 DEF SenderLoop

LEMMA CallbackType ==
    ASSUME TypeInv,
           \/ \E t \in Topics : SendMessage(t)
           \/ \E k \in Calls : UnityCall(k)
           \/ \E s \in serving : ServiceCallThread(s)
    PROVE  TypeInv'
<1> USE DEF TypeInv
<1>1. ASSUME NEW t \in Topics, SendMessage(t) PROVE TypeInv'
  <2>1. local' \in [Conns -> Seq(Items)]
        BY <1>1, PutType, ItemTypes DEF SendMessage, TypeOK
  <2>2. t \in Callbacks /\ t \notin Calls
        BY EndpointAssumption DEF Callbacks, Calls
  <2> QED BY <1>1, <2>1, <2>2 DEF SendMessage, Steps, TypeOK, HandHeld, ItemHeld, CallHasNumber,
            Callbacks, unityVars, readerVars, senderVars, pendingVars, serviceVars
<1>2. ASSUME NEW k \in Calls, BeginCall(k) PROVE TypeInv'
  <2>1. nextSrvId' \in Nat /\ waiting' \subseteq Nat /\ srvId' \in [Calls -> Nat \cup {None}]
    <3>1. nextSrvId \in Nat /\ waiting \subseteq Nat /\ srvId \in [Calls -> Nat \cup {None}]
          BY DEF TypeOK
    <3>2. \/ nextSrvId' = nextSrvId /\ waiting' = waiting /\ srvId' = srvId
          \/ /\ nextSrvId' = nextSrvId + 1 /\ waiting' = waiting \cup {nextSrvId}
             /\ srvId' = [srvId EXCEPT ![k] = nextSrvId]
          BY <1>2 DEF BeginCall, NewSrvId, Listed, serviceVars
    <3>3. nextSrvId + 1 \in Nat /\ waiting \cup {nextSrvId} \subseteq Nat
          BY <3>1
    <3>4. [srvId EXCEPT ![k] = nextSrvId] \in [Calls -> Nat \cup {None}]
          BY <3>1
    <3> QED BY <3>1, <3>2, <3>3, <3>4
  <2>2. callback' \in [Callbacks -> {"idle", "put", "sleep", "asleep", "done", "raised"}]
    <3>1. callback \in [Callbacks -> {"idle", "put", "sleep", "asleep", "done", "raised"}]
          BY DEF TypeOK
    <3>2. callback' \in {[callback EXCEPT ![k] = "raised"], [callback EXCEPT ![k] = "put"]}
          BY <1>2 DEF BeginCall, Steps
    <3> QED BY <3>1, <3>2
  <2>3. CallHasNumber'
        BY <1>2 DEF BeginCall, Steps, TypeOK, CallHasNumber, Callbacks, serviceVars
  <2> QED BY <1>2, <2>1, <2>2, <2>3 DEF BeginCall, TypeOK, HandHeld, ItemHeld,
            unityVars, readerVars, senderVars, pendingVars
<1>3. ASSUME NEW k \in Calls, PutRequest(k) PROVE TypeInv'
  <2>1. local' \in [Conns -> Seq(Items)]
        BY <1>3, PutType, ItemTypes DEF PutRequest, TypeOK, Steps, CallHasNumber
  <2>2. callback' \in [Callbacks -> {"idle", "put", "sleep", "asleep", "done", "raised"}]
        BY <1>3 DEF PutRequest, Steps, TypeOK
  <2>3. CallHasNumber'
        BY <1>3 DEF PutRequest, Steps, TypeOK, CallHasNumber, Callbacks, serviceVars
  <2> QED BY <1>3, <2>1, <2>2, <2>3 DEF PutRequest, TypeOK, HandHeld, ItemHeld,
            unityVars, readerVars, senderVars, pendingVars, serviceVars
<1>4. ASSUME NEW k \in Calls, SleepUntilResumed(k) PROVE TypeInv'
      BY <1>4 DEF SleepUntilResumed, Steps, TypeOK, HandHeld, ItemHeld, CallHasNumber,
            Callbacks, unityVars, readerVars, senderVars, pendingVars, serviceVars
<1>5. ASSUME NEW s \in serving, ServiceCallThread(s) PROVE TypeInv'
  <2>1. local' \in [Conns -> Seq(Items)]
        BY <1>5, PutType, ItemTypes DEF ServiceCallThread, TypeOK
  <2>2. serving' \subseteq [id : Nat \cup Requests \cup {None}, at : {"call", "put"}]
        BY <1>5 DEF ServiceCallThread, TypeOK
  <2> QED BY <1>5, <2>1, <2>2 DEF ServiceCallThread, TypeOK, HandHeld, ItemHeld, CallHasNumber,
            unityVars, readerVars, senderVars, pendingVars, serviceVars
<1> QED BY <1>1, <1>2, <1>3, <1>4, <1>5 DEF UnityCall

LEMMA NextType == TypeInv /\ [Next]_vars => TypeInv'
<1>1. TypeInv /\ UNCHANGED vars => TypeInv'
      BY DEF TypeInv, TypeOK, HandHeld, ItemHeld, CallHasNumber, vars, unityVars, readerVars,
            senderVars, pendingVars, serviceVars
<1> QED BY <1>1, UnityType, ReaderType, SenderType, CallbackType DEF Next

\* All fields, queues and threads keep their types.
THEOREM TypeCorrect == Spec => []TypeOK
<1>1. Init => TypeInv
      BY InitType
<1>2. TypeInv /\ [Next]_vars => TypeInv'
      BY NextType
<1>3. TypeInv => TypeOK
      BY DEF TypeInv
<1> QED BY <1>1, <1>2, <1>3, PTL DEF Spec

-----------------------------------------------------------------------------
(***************************************************************************)
(* The handshake comes first.                                              *)
(***************************************************************************)
\* Both threads live with their connection, and a sender that ends has lost it.
ThreadsLinked ==
    \A c \in Conns :
       /\ link[c] = "none" <=> sender[c] = "none"
       /\ link[c] = "none" <=> reader[c] = "none"
       /\ halt[c] \/ sender[c] \in {"finally", "release", "done"} => link[c] = "gone"

FirstIn(c) == local[c] # <<>> /\ Head(local[c]) = Handshake

\* Until Unity has it, the handshake is what the sender holds or takes next.
Greeting ==
    \A c \in Conns :
       /\ toUnity[c] # {} => Handshake \in toUnity[c]
       /\ link[c] = "up" /\ Handshake \notin toUnity[c] =>
            /\ sender[c] = "get" => FirstIn(c)
            /\ sender[c] = "send" => held[c] = Handshake

\* A queue on offer is being served.
Offered == queue # None => sender[queue] \notin {"none", "start", "done"}

GreetInv == TypeInv /\ ThreadsLinked /\ Greeting /\ Offered

LEMMA FirstByGreetInv == GreetInv => HandshakeFirst
<1> SUFFICES ASSUME GreetInv PROVE HandshakeFirst
    OBVIOUS
<1>1. ASSUME NEW c \in Conns, toUnity[c] # {} \/ sender[c] \in {"get", "send"}
      PROVE  \/ Handshake \in toUnity[c] \/ held[c] = Handshake
             \/ local[c] # <<>> /\ Head(local[c]) = Handshake
             \/ link[c] = "gone"
  <2>1. link[c] \in {"none", "up", "gone"}
        BY DEF GreetInv, TypeInv, TypeOK
  <2> QED BY <1>1, <2>1 DEF GreetInv, ThreadsLinked, Greeting, FirstIn
<1> QED BY <1>1 DEF HandshakeFirst, GreetInv, Offered

\* What goes on behind the first item of each queue.
Behind ==
    /\ UNCHANGED <<link, halt, sender, held, toUnity, queue>>
    /\ \A c \in Conns : FirstIn(c) => FirstIn(c)'
    /\ \A c \in Conns : reader[c] = "none" <=> reader'[c] = "none"

LEMMA BehindKeeps ==
    ASSUME ThreadsLinked, Greeting, Offered, Behind
    PROVE  ThreadsLinked' /\ Greeting' /\ Offered'
<1>1. /\ link' = link /\ halt' = halt /\ sender' = sender
      /\ held' = held /\ toUnity' = toUnity /\ queue' = queue
      BY DEF Behind
<1>2. ThreadsLinked'
  <2> SUFFICES ASSUME NEW c \in Conns
               PROVE  /\ link[c] = "none" <=> sender[c] = "none"
                      /\ link[c] = "none" <=> reader'[c] = "none"
                      /\ halt[c] \/ sender[c] \in {"finally", "release", "done"} => link[c] = "gone"
      BY <1>1 DEF ThreadsLinked
  <2> QED BY DEF ThreadsLinked, Behind
<1>3. Offered'
      BY <1>1 DEF Offered
<1>4. Greeting'
  <2>1. ASSUME NEW c \in Conns, FirstIn(c) PROVE FirstIn(c)'
        BY <2>1 DEF Behind
  <2> QED BY <1>1, <2>1 DEF Greeting
<1> QED BY <1>2, <1>3, <1>4

LEMMA PutBehind ==
    ASSUME TypeOK, NEW item \in Items, Put(item)
    PROVE  \A c \in Conns : FirstIn(c) => FirstIn(c)'
<1> SUFFICES ASSUME NEW c \in Conns, FirstIn(c) PROVE FirstIn(c)'
    OBVIOUS
<1>1. local \in [Conns -> Seq(Items)] /\ local[c] \in Seq(Items)
      BY DEF TypeOK
<1>2. local'[c] = local[c] \/ local'[c] = Append(local[c], item)
      BY <1>1 DEF Put
<1>3. /\ Append(local[c], item) # <<>>
      /\ local[c] # <<>> => Head(Append(local[c], item)) = Head(local[c])
      BY <1>1, AppendProperties, HeadTailAppend
<1> QED BY <1>2, <1>3 DEF FirstIn

LEMMA ReaderBehind ==
    ASSUME TypeInv, NEW c \in Conns, ClientThread(c), ~ReaderEnds(c)
    PROVE  Behind
<1>1. UNCHANGED <<link, halt, sender, held, toUnity, queue>>
      BY DEF ClientThread, ReadMessage, TakeAsBody, TakeHeader, TakeRegistration, TakeOther, SendError,
             Resume, CallService, ClearPending, unityVars, senderVars
<1>2. UNCHANGED local \/ Put(Other)
      BY DEF ClientThread, ReadMessage, TakeAsBody, TakeHeader, TakeRegistration, TakeOther, SendError,
             Resume, CallService, ClearPending
<1>3. PICK from, to : Goes(c, from, to) /\ from # "none" /\ to # "none"
      BY DEF ClientThread, ReadMessage, TakeAsBody, TakeHeader, TakeRegistration, TakeOther, SendError,
             Resume, CallService, ClearPending
<1>4. \A d \in Conns : reader[d] = "none" <=> reader'[d] = "none"
      BY <1>3 DEF Goes, TypeInv, TypeOK
<1>5. \A d \in Conns : FirstIn(d) => FirstIn(d)'
      BY <1>2, PutBehind, ItemTypes DEF FirstIn, TypeInv
<1> QED BY <1>1, <1>4, <1>5 DEF Behind

LEMMA CallbackBehind ==
    ASSUME TypeInv,
           \/ \E t \in Topics : SendMessage(t)
           \/ \E k \in Calls : UnityCall(k)
           \/ \E s \in serving : ServiceCallThread(s)
    PROVE  Behind
<1>1. UNCHANGED <<link, halt, sender, held, toUnity, queue, reader>>
      BY DEF SendMessage, UnityCall, BeginCall, PutRequest, SleepUntilResumed, ServiceCallThread,
             unityVars, senderVars, readerVars
<1>2. UNCHANGED local \/ \E item \in Items : Put(item)
  <2>1. ASSUME NEW k \in Calls, UnityCall(k) PROVE UNCHANGED local \/ \E item \in Items : Put(item)
    <3>1. callback[k] = "put" => Request(srvId[k]) \in Items
          BY ItemTypes DEF TypeInv, CallHasNumber
    <3> QED BY <2>1, <3>1 DEF UnityCall, BeginCall, PutRequest, SleepUntilResumed, Steps
  <2> QED BY <2>1, ItemTypes DEF SendMessage, ServiceCallThread
<1> QED BY <1>1, <1>2, PutBehind DEF Behind, FirstIn, TypeInv

LEMMA UnityGreets ==
    ASSUME GreetInv, NEW c \in Conns, Accept(c) \/ Unity(c) \/ Disconnect(c)
    PROVE  ThreadsLinked' /\ Greeting' /\ Offered'
<1> USE DEF GreetInv
<1>1. link \in [Conns -> {"none", "up", "gone"}] /\ toUnity \in [Conns -> SUBSET Items]
      BY DEF TypeInv, TypeOK
<1>2. sender \in [Conns -> {"none", "start", "get", "send", "finally", "release", "done"}] 
      /\ (queue # None => queue \in Conns) /\ DOMAIN reader = Conns
      BY DEF TypeInv, TypeOK
<1>3. CASE Accept(c)
  <2>1. /\ link' = [link EXCEPT ![c] = "up"] /\ sender' = [sender EXCEPT ![c] = "start"]
        /\ reader' = [reader EXCEPT ![c] = "read"]
        /\ UNCHANGED <<toUnity, halt, held, local, queue>> /\ link[c] = "none"
        BY <1>3 DEF Accept, unityVars
  <2>2. queue # c
    <3>1. c # None
          BY EndpointAssumption DEF Conns
    <3> QED BY <2>1, <3>1 DEF ThreadsLinked, Offered
  <2>3. ThreadsLinked'
        BY <1>1, <1>2, <2>1 DEF ThreadsLinked
  <2>4. Offered'
        BY <1>2, <2>1, <2>2 DEF Offered
  <2>5. Greeting'
        BY <1>1, <1>2, <2>1 DEF Greeting, FirstIn
  <2> QED BY <2>3, <2>4, <2>5
<1>4. CASE Unity(c)
  <2>1. UNCHANGED <<link, halt, sender, held, local, queue, reader>>
        BY <1>4 DEF Unity, UnityAnswers, UnityCalls, UnityExtra, UnitySends, senderVars, readerVars
  <2>2. UNCHANGED toUnity \/ \E i : toUnity' = [toUnity EXCEPT ![c] = @ \ {Request(i)}]
        BY <1>4 DEF Unity, UnityAnswers, UnityCalls, UnityExtra
  <2>3. \A d \in Conns : /\ toUnity'[d] # {} => toUnity[d] # {}
                         /\ Handshake \in toUnity'[d] <=> Handshake \in toUnity[d]
        BY <1>1, <2>2, ItemTypes
  <2>4. ThreadsLinked' /\ Offered'
        BY <2>1 DEF ThreadsLinked, Offered
  <2>5. Greeting'
        BY <2>1, <2>3 DEF Greeting, FirstIn
  <2> QED BY <2>4, <2>5
<1>5. CASE Disconnect(c)
  <2>1. /\ link' = [link EXCEPT ![c] = "gone"] /\ toUnity' = [toUnity EXCEPT ![c] = {}]
        /\ UNCHANGED <<halt, sender, held, local, queue, reader>> /\ link[c] = "up"
        BY <1>5 DEF Disconnect, senderVars, readerVars
  <2>2. ThreadsLinked' /\ Offered'
        BY <1>1, <2>1 DEF ThreadsLinked, Offered
  <2>3. Greeting'
        BY <1>1, <2>1 DEF Greeting, FirstIn
  <2> QED BY <2>2, <2>3
<1> QED BY <1>3, <1>4, <1>5

LEMMA ReaderGreets ==
    ASSUME GreetInv, NEW c \in Conns, ReaderEnds(c)
    PROVE  ThreadsLinked' /\ Greeting' /\ Offered'
<1>1. /\ link' = [link EXCEPT ![c] = "gone"] /\ halt' = [halt EXCEPT ![c] = TRUE]
      /\ UNCHANGED <<sender, held, local, queue, toUnity>>
      BY DEF ReaderEnds, senderVars, unityVars
<1>2. link \in [Conns -> {"none", "up", "gone"}] /\ halt \in [Conns -> BOOLEAN] /\ DOMAIN reader = Conns
      BY DEF GreetInv, TypeInv, TypeOK
<1>3. reader[c] \in {"finally", "handle"} /\ reader' = [reader EXCEPT ![c] = "done"]
      BY DEF ReaderEnds, Goes
<1>4. Offered' /\ Greeting'
      BY <1>1, <1>2 DEF GreetInv, Offered, Greeting, FirstIn
<1>5. ThreadsLinked'
      BY <1>1, <1>2, <1>3 DEF GreetInv, ThreadsLinked
<1> QED BY <1>4, <1>5

LEMMA SenderGreets ==
    ASSUME GreetInv, NEW c \in Conns, SenderLoop(c)
    PROVE  ThreadsLinked' /\ Greeting' /\ Offered'
<1>1. /\ link \in [Conns -> {"none", "up", "gone"}] /\ toUnity \in [Conns -> SUBSET Items]
      /\ halt \in [Conns -> BOOLEAN] /\ held \in [Conns -> Items \cup {None}]
      BY DEF GreetInv, TypeInv, TypeOK
<1>2. /\ sender \in [Conns -> {"none", "start", "get", "send", "finally", "release", "done"}]
      /\ local \in [Conns -> Seq(Items)] /\ (queue # None => queue \in Conns)
      BY DEF GreetInv, TypeInv, TypeOK
<1>3. ThreadsLinked /\ Greeting /\ Offered
      BY DEF GreetInv
<1>4. CASE OfferQueue(c)
  <2>1. /\ sender[c] = "start" /\ sender' = [sender EXCEPT ![c] = "get"]
        /\ local' = [local EXCEPT ![c] = <<Handshake>>] /\ queue' = c
        /\ UNCHANGED <<link, halt, held, toUnity, reader>>
        BY <1>4 DEF OfferQueue, Moves, unityVars, readerVars
  <2>2. ThreadsLinked' /\ Offered'
        BY <1>1, <1>2, <1>3, <2>1 DEF ThreadsLinked, Offered
  <2>3. Greeting'
        BY <1>1, <1>2, <1>3, <2>1 DEF Greeting, FirstIn
  <2> QED BY <2>2, <2>3
<1>5. CASE GetItem(c)
  <2>1. sender[c] = "get" /\ UNCHANGED <<link, halt, queue, toUnity, reader>>
        BY <1>5 DEF GetItem, Moves, unityVars, readerVars
  <2>2. CASE /\ sender' = [sender EXCEPT ![c] = "send"]
             /\ held' = [held EXCEPT ![c] = Head(local[c])]
             /\ local' = [local EXCEPT ![c] = Tail(@)]
    <3>1. ThreadsLinked' /\ Offered'
          BY <1>1, <1>2, <1>3, <2>1, <2>2 DEF ThreadsLinked, Offered
    <3>2. Greeting'
          BY <1>1, <1>2, <1>3, <2>1, <2>2 DEF Greeting, FirstIn
    <3> QED BY <3>1, <3>2
  <2>3. CASE /\ sender' = [sender EXCEPT ![c] = "finally"] /\ halt[c]
             /\ UNCHANGED <<held, local>>
    <3>1. link[c] = "gone"
          BY <2>3, <1>3 DEF ThreadsLinked
    <3>2. ThreadsLinked' /\ Offered'
          BY <1>1, <1>2, <1>3, <2>1, <2>3, <3>1 DEF ThreadsLinked, Offered
    <3>3. Greeting'
          BY <1>1, <1>2, <1>3, <2>1, <2>3, <3>1 DEF Greeting, FirstIn
    <3> QED BY <3>2, <3>3
  <2> QED BY <1>5, <2>2, <2>3 DEF GetItem, Moves
<1>6. CASE SendItem(c)
  <2>1. /\ sender[c] = "send" /\ UNCHANGED <<link, halt, queue, local, reader>>
        /\ held' = [held EXCEPT ![c] = None]
        BY <1>6 DEF SendItem, Moves, readerVars
  <2>2. CASE /\ sender' = [sender EXCEPT ![c] = "get"]
             /\ toUnity' = IF link[c] = "up" /\ held[c].kind \in {"handshake", "request"}
                           THEN [toUnity EXCEPT ![c] = @ \cup {held[c]}] ELSE toUnity
    <3>1. ThreadsLinked' /\ Offered'
          BY <1>1, <1>2, <1>3, <2>1, <2>2 DEF ThreadsLinked, Offered
    <3>2. Handshake.kind = "handshake"
          BY DEF Handshake
    <3>3. link[c] = "up" => Handshake \in toUnity[c] \/ held[c] = Handshake
          BY <1>3, <2>1 DEF Greeting
    <3>4. /\ link[c] = "up" => Handshake \in toUnity'[c]
          /\ toUnity'[c] # {} => Handshake \in toUnity'[c]
          /\ \A d \in Conns \ {c} : toUnity'[d] = toUnity[d]
          BY <1>1, <1>3, <2>2, <3>2, <3>3 DEF Greeting
    <3>5. Greeting'
          BY <1>1, <1>2, <1>3, <2>1, <2>2, <3>4 DEF Greeting, FirstIn
    <3> QED BY <3>1, <3>5
  <2>3. CASE /\ sender' = [sender EXCEPT ![c] = "finally"] /\ link[c] = "gone"
             /\ UNCHANGED toUnity
    <3>1. ThreadsLinked' /\ Offered'
          BY <1>1, <1>2, <1>3, <2>1, <2>3 DEF ThreadsLinked, Offered
    <3>2. Greeting'
          BY <1>1, <1>2, <1>3, <2>1, <2>3 DEF Greeting, FirstIn
    <3> QED BY <3>1, <3>2
  <2> QED BY <1>6, <2>2, <2>3 DEF SendItem, Moves
<1>7. CASE SenderEnds(c)
  <2>1. UNCHANGED <<link, held, toUnity, reader>>
        BY <1>7 DEF SenderEnds, unityVars, readerVars
  <2>2. CASE /\ sender[c] = "finally" /\ sender' = [sender EXCEPT ![c] = "release"]
             /\ halt' = [halt EXCEPT ![c] = TRUE] /\ UNCHANGED <<queue, local>>
    <3>1. ThreadsLinked' /\ Offered'
          BY <1>1, <1>2, <1>3, <2>1, <2>2 DEF ThreadsLinked, Offered
    <3>2. Greeting'
          BY <1>1, <1>2, <1>3, <2>1, <2>2 DEF Greeting, FirstIn
    <3> QED BY <3>1, <3>2
  <2>3. CASE /\ sender[c] = "release" /\ sender' = [sender EXCEPT ![c] = "done"]
             /\ queue' = IF queue = c THEN None ELSE queue
             /\ local' = [local EXCEPT ![c] = <<>>] /\ UNCHANGED halt
    <3>1. ThreadsLinked'
          BY <1>1, <1>2, <1>3, <2>1, <2>3 DEF ThreadsLinked
    <3>2. Offered'
          BY <1>2, <1>3, <2>3 DEF Offered
    <3>3. link[c] = "gone"
          BY <1>3, <2>3 DEF ThreadsLinked
    <3>4. Greeting'
          BY <1>1, <1>2, <1>3, <2>1, <2>3, <3>3 DEF Greeting, FirstIn
    <3> QED BY <3>1, <3>2, <3>4
  <2> QED BY <1>7, <2>2, <2>3 DEF SenderEnds, Moves
<1> QED BY <1>4, <1>5, <1>6, <1>7 DEF SenderLoop

LEMMA GreetInit == Init => GreetInv
<1>1. Init => ThreadsLinked /\ Greeting /\ Offered
      BY DEF Init, ThreadsLinked, Greeting, Offered
<1> QED BY <1>1, InitType DEF GreetInv

LEMMA GreetNext == GreetInv /\ [Next]_vars => GreetInv'
<1> SUFFICES ASSUME GreetInv, [Next]_vars PROVE GreetInv'
    OBVIOUS
<1>1. TypeInv'
      BY NextType DEF GreetInv
<1>2. ThreadsLinked /\ Greeting /\ Offered /\ TypeInv
      BY DEF GreetInv
<1>3. ASSUME NEW c \in Conns, Accept(c) \/ Unity(c) \/ Disconnect(c)
      PROVE  ThreadsLinked' /\ Greeting' /\ Offered'
      BY <1>3, UnityGreets
<1>4. ASSUME NEW c \in Conns, ClientThread(c)
      PROVE  ThreadsLinked' /\ Greeting' /\ Offered'
      BY <1>2, <1>4, ReaderGreets, ReaderBehind, BehindKeeps
<1>5. ASSUME NEW c \in Conns, SenderLoop(c)
      PROVE  ThreadsLinked' /\ Greeting' /\ Offered'
      BY <1>5, SenderGreets
<1>6. CASE \/ \E t \in Topics : SendMessage(t)
           \/ \E k \in Calls : UnityCall(k)
           \/ \E s \in serving : ServiceCallThread(s)
  <2>1. ThreadsLinked' /\ Greeting' /\ Offered'
        BY <1>2, <1>6, CallbackBehind, BehindKeeps
  <2> QED BY <1>1, <2>1 DEF GreetInv
<1>7. CASE UNCHANGED vars
  <2>1. Behind
        BY <1>7 DEF vars, Behind, FirstIn, senderVars, unityVars, readerVars
  <2>2. ThreadsLinked' /\ Greeting' /\ Offered'
        BY <1>2, <2>1, BehindKeeps
  <2> QED BY <1>1, <2>2 DEF GreetInv
<1> QED BY <1>1, <1>3, <1>4, <1>5, <1>6, <1>7 DEF Next, GreetInv

\* Whoever connects hears the handshake first, and a queue on offer is being served: for
\* any number of connections that come, overlap and break.
THEOREM HandshakeAlwaysFirst == Spec => []HandshakeFirst
<1>1. Init => GreetInv
      BY GreetInit
<1>2. GreetInv /\ [Next]_vars => GreetInv'
      BY GreetNext
<1>3. GreetInv => HandshakeFirst
      BY FirstByGreetInv
<1> QED BY <1>1, <1>2, <1>3, PTL DEF Spec

-----------------------------------------------------------------------------
(***************************************************************************)
(* The calls that wait.                                                    *)
(***************************************************************************)
\* Numbers are handed out in order, to calls that have begun, and answers to numbers.
Numbered ==
    \A k \in Calls :
       /\ srvId[k] # None => srvId[k] < nextSrvId
       /\ callback[k] = "idle" => srvId[k] = None
       /\ srvId[k] = None => result[k] = None

WaitInv == TypeInv /\ Numbered /\ WaitingTracked

\* A step that gives nobody a number or an answer and takes no callback back to "idle".
LEMMA NobodyWaits ==
    ASSUME Numbered, WaitingTracked, UNCHANGED <<nextSrvId, waiting, srvId, result>>,
           \A k \in Calls : callback'[k] = "idle" => callback[k] = "idle"
    PROVE  Numbered' /\ WaitingTracked'
<1>1. nextSrvId' = nextSrvId /\ waiting' = waiting /\ srvId' = srvId /\ result' = result
      OBVIOUS
<1>2. Numbered'
      BY <1>1 DEF Numbered
<1>3. WaitingTracked'
      BY <1>1 DEF WaitingTracked
<1> QED BY <1>2, <1>3

\* A call begins under a number greater than all before it.
LEMMA BeginCallWaits ==
    ASSUME WaitInv, NEW k \in Calls, BeginCall(k)
    PROVE  Numbered' /\ WaitingTracked'
<1>1. /\ callback \in [Callbacks -> {"idle", "put", "sleep", "asleep", "done", "raised"}]
      /\ srvId \in [Calls -> Nat \cup {None}] /\ nextSrvId \in Nat /\ Calls \subseteq Callbacks
      BY DEF WaitInv, TypeInv, TypeOK, Callbacks
<1>2. result' = result /\ callback[k] = "idle" /\ None \notin Nat
      BY EndpointAssumption DEF BeginCall, Steps
<1>3. CASE /\ Steps(k, "idle", "raised")
           /\ UNCHANGED serviceVars
  <2>1. \A j \in Calls : callback'[j] = "idle" => callback[j] = "idle"
        BY <1>1, <1>3 DEF Steps
  <2>2. UNCHANGED <<nextSrvId, waiting, srvId, result>>
        BY <1>2, <1>3 DEF serviceVars
  <2> QED BY <2>1, <2>2, NobodyWaits DEF WaitInv
<1>4. CASE /\ Steps(k, "idle", "put")
           /\ srvId' = [srvId EXCEPT ![k] = nextSrvId]
           /\ NewSrvId
           /\ Listed(k)
  <2>1. /\ nextSrvId' = nextSrvId + 1 /\ waiting' = waiting \cup {nextSrvId}
        /\ callback' = [callback EXCEPT ![k] = "put"]
        BY <1>4 DEF NewSrvId, Listed, Steps
  <2>2. srvId'[k] = nextSrvId /\ \A j \in Calls : j # k => srvId'[j] = srvId[j]
        BY <1>1, <1>4
  <2>3. srvId[k] = None /\ result[k] = None
        BY <1>2 DEF WaitInv, Numbered
  <2>4. Numbered'
    <3> SUFFICES ASSUME NEW j \in Calls
                 PROVE  /\ srvId'[j] # None => srvId'[j] < nextSrvId'
                        /\ callback'[j] = "idle" => srvId'[j] = None
                        /\ srvId'[j] = None => result'[j] = None
        BY DEF Numbered
    <3>1. CASE j = k
          BY <1>1, <1>2, <2>1, <2>2, <2>3, <3>1
    <3>2. CASE j # k
      <4>1. srvId'[j] = srvId[j] /\ callback'[j] = callback[j] /\ srvId[j] \in Nat \cup {None}
            BY <1>1, <2>1, <2>2, <3>2
      <4> QED BY <1>1, <1>2, <2>1, <4>1 DEF WaitInv, Numbered
    <3> QED BY <3>1, <3>2
  <2>5. \A i, j \in Calls : srvId'[i] # None /\ srvId'[i] = srvId'[j] => i = j
    <3>1. \A j \in Calls : srvId[j] # nextSrvId
          BY <1>1, <1>2 DEF WaitInv, Numbered
    <3> QED BY <2>2, <3>1 DEF WaitInv, WaitingTracked
  <2>6. waiting' = {srvId'[j] : j \in {i \in Calls : srvId'[i] # None /\ result'[i] = None}}
    <3>1. \A j \in Calls : srvId'[j] # None /\ result'[j] = None =>
                               j = k \/ (srvId[j] # None /\ result[j] = None /\ srvId'[j] = srvId[j])
          BY <1>2, <2>2
    <3>2. \A j \in Calls : srvId[j] # None /\ result[j] = None =>
                               srvId'[j] = srvId[j] /\ srvId'[j] # None /\ result'[j] = None
          BY <1>2, <2>2, <2>3
    <3>3. srvId'[k] # None /\ result'[k] = None
          BY <1>1, <1>2, <2>2, <2>3
    <3>4. waiting = {srvId[j] : j \in {i \in Calls : srvId[i] # None /\ result[i] = None}}
          BY DEF WaitInv, WaitingTracked
    <3> QED BY <2>1, <2>2, <3>1, <3>2, <3>3, <3>4
  <2> QED BY <2>4, <2>5, <2>6 DEF WaitingTracked
<1> QED BY <1>3, <1>4 DEF BeginCall

\* An answer goes to the one call that waits under its number, which is then off the list.
LEMMA ResumeWaits ==
    ASSUME WaitInv, NEW c \in Conns, Resume(c)
    PROVE  Numbered' /\ WaitingTracked'
<1>1. /\ result \in [Calls -> Messages \cup {None}] /\ Calls \subseteq Callbacks
      /\ callback \in [Callbacks -> {"idle", "put", "sleep", "asleep", "done", "raised"}]
      BY DEF WaitInv, TypeInv, TypeOK, Callbacks
<1>2. hand[c] \in Messages /\ None \notin Messages
      BY NoneAssumption DEF WaitInv, TypeInv, HandHeld, WithHand, Resume, Goes
<1>3. nextSrvId' = nextSrvId /\ srvId' = srvId
      BY DEF Resume
<1>4. CASE UNCHANGED <<waiting, result, callback>>
      BY <1>3, <1>4, NobodyWaits DEF WaitInv
<1>5. ASSUME NEW k \in Calls, srvId[k] = pendingSrvId, pendingSrvId \in waiting, Notify(k),
             waiting' = waiting \ {pendingSrvId}, result' = [result EXCEPT ![k] = hand[c]]
      PROVE  Numbered' /\ WaitingTracked'
  <2>1. \A j \in Calls : callback'[j] = "idle" => callback[j] = "idle"
        BY <1>1, <1>5 DEF Notify
  <2>2. result'[k] = hand[c] /\ \A j \in Calls : j # k => result'[j] = result[j]
        BY <1>1, <1>5
  <2>3. waiting = {srvId[j] : j \in {i \in Calls : srvId[i] # None /\ result[i] = None}}
        BY DEF WaitInv, WaitingTracked
  <2>4. PICK j \in Calls : srvId[j] = pendingSrvId /\ srvId[j] # None /\ result[j] = None
        BY <1>5, <2>3
  <2>5. j = k
        BY <1>5, <2>4 DEF WaitInv, WaitingTracked
  <2>6. Numbered'
        BY <1>3, <2>1, <2>2, <2>4, <2>5 DEF WaitInv, Numbered
  <2>7. \A i \in Calls : srvId[i] # None /\ result'[i] = None <=>
                             i # k /\ srvId[i] # None /\ result[i] = None
        BY <1>2, <2>2
  <2>8. \A i \in Calls : i # k => srvId[i] # pendingSrvId \/ srvId[i] = None
        BY <1>5 DEF WaitInv, WaitingTracked
  <2>9. waiting' = {srvId[i] : i \in {h \in Calls : srvId[h] # None /\ result'[h] = None}}
        BY <1>5, <2>3, <2>4, <2>5, <2>7, <2>8
  <2> QED BY <1>3, <2>6, <2>9 DEF WaitInv, WaitingTracked
<1> QED BY <1>4, <1>5 DEF Resume, Addressed

LEMMA OthersWait ==
    ASSUME WaitInv,
           \/ \E c \in Conns : \/ Accept(c) \/ Unity(c) \/ Disconnect(c) \/ SenderLoop(c)
                               \/ ClientThread(c) /\ ~Resume(c)
           \/ \E t \in Topics : SendMessage(t)
           \/ \E k \in Calls : PutRequest(k) \/ SleepUntilResumed(k)
           \/ \E s \in serving : ServiceCallThread(s)
           \/ UNCHANGED vars
    PROVE  Numbered' /\ WaitingTracked'
<1>1. UNCHANGED <<nextSrvId, waiting, srvId, result>>
      BY DEF Accept, Unity, UnityAnswers, UnityCalls, UnityExtra, UnitySends, Disconnect, SenderLoop, OfferQueue,
             GetItem, SendItem, SenderEnds, ClientThread, ReadMessage, TakeAsBody, TakeHeader, TakeRegistration,
             TakeOther, SendError, CallService, ClearPending, ReaderEnds, SendMessage, PutRequest,
             SleepUntilResumed, ServiceCallThread, serviceVars, vars
<1>2. \/ UNCHANGED callback
      \/ \E k \in Callbacks, to \in {"put", "sleep", "asleep", "done", "raised"} :
            callback' = [callback EXCEPT ![k] = to]
  <2>1. ASSUME NEW t \in Topics, SendMessage(t)
        PROVE  \E k \in Callbacks, to \in {"put", "sleep", "asleep", "done", "raised"} :
                  callback' = [callback EXCEPT ![k] = to]
        BY <2>1 DEF SendMessage, Steps, Callbacks
  <2>2. ASSUME NEW k \in Calls, PutRequest(k) \/ SleepUntilResumed(k)
        PROVE  \E j \in Callbacks, to \in {"put", "sleep", "asleep", "done", "raised"} :
                  callback' = [callback EXCEPT ![j] = to]
        BY <2>2 DEF PutRequest, SleepUntilResumed, Steps, Callbacks
  <2>3. CASE \/ \E c \in Conns : \/ Accept(c) \/ Unity(c) \/ Disconnect(c) \/ SenderLoop(c)
                                 \/ ClientThread(c) /\ ~Resume(c)
             \/ \E s \in serving : ServiceCallThread(s)
             \/ UNCHANGED vars
        BY <2>3
        DEF Accept, Unity, UnityAnswers, UnityCalls, UnityExtra, UnitySends, Disconnect, SenderLoop, OfferQueue,
             GetItem, SendItem, SenderEnds, ClientThread, ReadMessage, TakeAsBody, TakeHeader, TakeRegistration,
             TakeOther, SendError, CallService, ClearPending, ReaderEnds, ServiceCallThread, vars
  <2> QED BY <2>1, <2>2, <2>3
<1>3. callback \in [Callbacks -> {"idle", "put", "sleep", "asleep", "done", "raised"}] /\ Calls \subseteq Callbacks
      BY DEF WaitInv, TypeInv, TypeOK, Callbacks
<1>4. \A k \in Calls : callback'[k] = "idle" => callback[k] = "idle"
      BY <1>2, <1>3
<1> QED BY <1>1, <1>4, NobodyWaits DEF WaitInv

LEMMA WaitInit == Init => WaitInv
<1>1. Init => Numbered /\ WaitingTracked
      BY DEF Init, Numbered, WaitingTracked
<1> QED BY <1>1, InitType DEF WaitInv

LEMMA WaitNext == WaitInv /\ [Next]_vars => WaitInv'
<1> SUFFICES ASSUME WaitInv, [Next]_vars PROVE WaitInv'
    OBVIOUS
<1>1. TypeInv'
      BY NextType DEF WaitInv
<1>2. Numbered' /\ WaitingTracked'
      BY BeginCallWaits, ResumeWaits, OthersWait DEF Next, UnityCall
<1> QED BY <1>1, <1>2 DEF WaitInv

\* The table of waiting services holds exactly the calls that have a number and no answer,
\* and no number is given twice: with any number of calls, connections and threads.
THEOREM WaitingAlwaysTracked == Spec => []WaitingTracked
<1>1. Init => WaitInv
      BY WaitInit
<1>2. WaitInv /\ [Next]_vars => WaitInv'
      BY WaitNext
<1>3. WaitInv => WaitingTracked
      BY DEF WaitInv
<1> QED BY <1>1, <1>2, <1>3, PTL DEF Spec

-----------------------------------------------------------------------------
(***************************************************************************)
(* Answers reach their calls.                                              *)
(***************************************************************************)
OneAccepted == \A c, d \in Conns : link[c] # "none" /\ link[d] # "none" => c = d

\* What the reader meets next answers call n, unless the connection is broken and it was lost.
AnswerNext(c, n) == IF toRos[c] = <<>> THEN link[c] = "gone" ELSE Head(toRos[c]) = Answer(n)

\* After a header comes its body, and an answer comes after its header.
Paired(s) ==
    \A i \in 1..Len(s) :
       /\ s[i].kind = "response" => i < Len(s) /\ s[i + 1] = Answer(s[i].id)
       /\ s[i].kind = "request" => i < Len(s) /\ s[i + 1].kind \in {"body", "unknown"}
       /\ s[i].kind = "answer" /\ i > 1 => s[i - 1].kind = "response"

\* The pending number is that of the answer which comes next, or is in hand.
InStep(c) ==
    /\ reader[c] = "read" /\ pendingSrvId # None /\ ~pendingSrvIsRequest => AnswerNext(c, pendingSrvId)
    /\ reader[c] = "handle" =>
         /\ pendingSrvId # None /\ ~pendingSrvIsRequest => hand[c] = Answer(pendingSrvId)
         /\ hand[c].kind = "response" => AnswerNext(c, hand[c].id)
    /\ reader[c] = "body" =>
         pendingSrvId # None /\ (~pendingSrvIsRequest => hand[c] = Answer(pendingSrvId))
    /\ reader[c] = "header" =>
         /\ hand[c].kind \in {"response", "request"}
         /\ hand[c].kind = "response" => AnswerNext(c, hand[c].id)
    /\ reader[c] = "flag" =>
         /\ hand[c].kind \in {"response", "request"} /\ pendingSrvId = hand[c].id
         /\ hand[c].kind = "response" => AnswerNext(c, hand[c].id)
    /\ reader[c] = "response" => hand[c] = Answer(pendingSrvId)
    /\ reader[c] = "error" => pendingSrvId = None

\* The streams are paired, and without a connection empty.
AllPaired == \A c \in Conns : Paired(toRos[c])
Empty == \A c \in Conns : link[c] = "none" => toRos[c] = <<>>

AllInStep ==
    /\ \A c \in Conns : link[c] # "none" => InStep(c)
    /\ (\A c \in Conns : link[c] = "none") => pendingSrvId = None

Streams ==
    OneAccepted =>
      /\ AllInStep
      /\ \A k \in Calls : result[k] # None => result[k] = Answer(srvId[k])

StreamInv == GreetInv /\ WaitInv /\ AllPaired /\ Empty /\ Streams

LEMMA MatchesByStreams == StreamInv => OwnAnswers
<1> SUFFICES ASSUME StreamInv, Cardinality({c \in Conns : link[c] # "none"}) <= 1
             PROVE  \A k \in Calls : result[k] # None => result[k] = Answer(srvId[k])
    BY DEF OwnAnswers
<1> DEFINE Accepted == {c \in Conns : link[c] # "none"}
<1>1. IsFiniteSet(Accepted)
  <2>1. IsFiniteSet(Conns)
        BY FS_Interval, EndpointAssumption DEF Conns
  <2> QED BY <2>1, FS_Subset
<1>2. OneAccepted
  <2> SUFFICES ASSUME NEW c \in Accepted, NEW d \in Accepted, c # d PROVE FALSE
      BY DEF OneAccepted
  <2>1. {c, d} \subseteq Accepted
        OBVIOUS
  <2>2. Cardinality({c, d}) <= Cardinality(Accepted)
        BY <1>1, <2>1, FS_Subset
  <2>3. IsFiniteSet({c}) /\ Cardinality({c}) = 1
        BY FS_Singleton
  <2>4. Cardinality({c} \cup {d}) = Cardinality({c}) + 1
        BY <2>3, FS_AddElement
  <2>5. {c} \cup {d} = {c, d} /\ Cardinality(Accepted) \in Nat
        BY <1>1, FS_CardinalityType
  <2> QED BY <2>2, <2>3, <2>4, <2>5
<1> QED BY <1>2 DEF StreamInv, Streams

\* Paired streams stay paired when a paired one is appended, or the first message is read.
LEMMA PairedConcat ==
    ASSUME NEW s \in Seq(Messages), NEW t \in Seq(Messages), Paired(s), Paired(t),
           t # <<>> => t[1].kind # "answer"
    PROVE  Paired(s \o t)
<1>1. s \o t \in Seq(Messages) /\ Len(s \o t) = Len(s) + Len(t)
      BY ConcatProperties
<1>2. \A i \in 1..(Len(s) + Len(t)) : (s \o t)[i] = IF i <= Len(s) THEN s[i] ELSE t[i - Len(s)]
      BY ConcatProperties
<1>3. Len(s) \in Nat /\ Len(t) \in Nat
      BY LenProperties
<1> DEFINE OK(u, i) == /\ u[i].kind = "response" => i < Len(u) /\ u[i + 1] = Answer(u[i].id)
                       /\ u[i].kind = "request" => i < Len(u) /\ u[i + 1].kind \in {"body", "unknown"}
                       /\ u[i].kind = "answer" /\ i > 1 => u[i - 1].kind = "response"
<1> SUFFICES ASSUME NEW i \in 1..Len(s \o t) PROVE OK(s \o t, i)
    BY DEF Paired
<1>4. CASE i <= Len(s)
  <2>1. i \in 1..Len(s) /\ (s \o t)[i] = s[i]
        BY <1>1, <1>2, <1>3, <1>4
  <2>2. OK(s, i)
        BY <2>1 DEF Paired
  <2>3. i < Len(s) => (s \o t)[i + 1] = s[i + 1] /\ i < Len(s \o t)
        BY <1>1, <1>2, <1>3, <2>1
  <2>4. i > 1 => (s \o t)[i - 1] = s[i - 1]
        BY <1>1, <1>2, <1>3, <2>1
  <2> QED BY <2>1, <2>2, <2>3, <2>4
<1>5. CASE i > Len(s)
  <2> DEFINE j == i - Len(s)
  <2>1. j \in 1..Len(t) /\ (s \o t)[i] = t[j]
        BY <1>1, <1>2, <1>3, <1>5
  <2>2. OK(t, j)
        BY <2>1 DEF Paired
  <2>3. j < Len(t) => (s \o t)[i + 1] = t[j + 1] /\ i < Len(s \o t)
    <3>1. j < Len(t) => /\ i + 1 \in 1..(Len(s) + Len(t)) /\ ~(i + 1 <= Len(s))
                        /\ (i + 1) - Len(s) = j + 1
          BY <1>1, <1>3, <1>5, <2>1
    <3> QED BY <1>1, <1>2, <1>3, <3>1
  <2>4. j > 1 => (s \o t)[i - 1] = t[j - 1]
    <3>1. j > 1 => /\ i - 1 \in 1..(Len(s) + Len(t)) /\ ~(i - 1 <= Len(s))
                   /\ (i - 1) - Len(s) = j - 1
          BY <1>1, <1>3, <1>5, <2>1
    <3> QED BY <1>2, <3>1
  <2>5. j = 1 => t[j].kind # "answer"
    <3>1. t # <<>>
          BY <2>1, EmptySeq
    <3> QED BY <3>1
  <2>6. j = 1 \/ j > 1
        BY <1>3, <2>1
  <2> HIDE DEF j
  <2> QED BY <2>1, <2>2, <2>3, <2>4, <2>5, <2>6
<1> QED BY <1>1, <1>3, <1>4, <1>5

LEMMA PairedTail ==
    ASSUME NEW s \in Seq(Messages), s # <<>>, Paired(s)
    PROVE  /\ Paired(Tail(s))
           /\ Head(s).kind = "response" => Tail(s) # <<>> /\ Head(Tail(s)) = Answer(Head(s).id)
           /\ Head(s).kind = "request" => Tail(s) # <<>> /\ Head(Tail(s)).kind \in {"body", "unknown"}
           /\ Tail(s) # <<>> /\ Head(Tail(s)).kind = "answer" => Head(s).kind = "response"
<1>1. /\ Len(s) \in Nat /\ Len(s) > 0 /\ Head(s) = s[1]
      /\ Tail(s) \in Seq(Messages) /\ Len(Tail(s)) = Len(s) - 1
      /\ \A i \in 1..Len(Tail(s)) : Tail(s)[i] = s[i + 1]
      BY HeadTailProperties, LenProperties, EmptySeq
<1>2. Paired(Tail(s))
  <2> SUFFICES ASSUME NEW i \in 1..Len(Tail(s))
               PROVE  /\ Tail(s)[i].kind = "response" => i < Len(Tail(s)) /\ Tail(s)[i + 1] = Answer(Tail(s)[i].id)
                      /\ Tail(s)[i].kind = "request" =>
                            i < Len(Tail(s)) /\ Tail(s)[i + 1].kind \in {"body", "unknown"}
                      /\ Tail(s)[i].kind = "answer" /\ i > 1 => Tail(s)[i - 1].kind = "response"
      BY DEF Paired
  <2>1. Tail(s)[i] = s[i + 1] /\ i + 1 \in 1..Len(s)
        BY <1>1
  <2>2. /\ s[i + 1].kind = "response" => i + 1 < Len(s) /\ s[(i + 1) + 1] = Answer(s[i + 1].id)
        /\ s[i + 1].kind = "request" => i + 1 < Len(s) /\ s[(i + 1) + 1].kind \in {"body", "unknown"}
        /\ s[i + 1].kind = "answer" => s[(i + 1) - 1].kind = "response"
        BY <2>1 DEF Paired
  <2>3. i + 1 < Len(s) => i < Len(Tail(s)) /\ Tail(s)[i + 1] = s[(i + 1) + 1]
        BY <1>1
  <2>4. i > 1 => Tail(s)[i - 1] = s[(i + 1) - 1]
        BY <1>1
  <2> QED BY <2>1, <2>2, <2>3, <2>4
<1>3. /\ s[1].kind = "response" => 1 < Len(s) /\ s[1 + 1] = Answer(s[1].id)
      /\ s[1].kind = "request" => 1 < Len(s) /\ s[1 + 1].kind \in {"body", "unknown"}
      /\ 1 < Len(s) /\ s[1 + 1].kind = "answer" => s[1].kind = "response"
  <2>1. 1 \in 1..Len(s) /\ (1 < Len(s) => 1 + 1 \in 1..Len(s) /\ (1 + 1) - 1 = 1)
        BY <1>1
  <2> QED BY <2>1 DEF Paired
<1>4. 1 < Len(s) <=> Tail(s) # <<>>
  <2>1. PICK t \in Seq(Messages) : t = Tail(s)
        BY <1>1
  <2>2. t # <<>> <=> Len(t) > 0
        BY EmptySeq
  <2> QED BY <1>1, <2>1, <2>2
<1>5. Tail(s) # <<>> => Head(Tail(s)) = s[1 + 1]
  <2> SUFFICES ASSUME Tail(s) # <<>> PROVE Head(Tail(s)) = s[1 + 1]
      OBVIOUS
  <2>1. Head(Tail(s)) = Tail(s)[1]
        BY <1>1, HeadTailProperties
  <2>2. 1 \in 1..Len(Tail(s))
        BY <1>1, <1>4
  <2> QED BY <1>1, <2>1, <2>2
<1> QED BY <1>1, <1>2, <1>3, <1>4, <1>5

\* Messages come from Unity in whole calls and answers, and nothing that is not one looks
\* like one.
NewFirst(msgs) == msgs # <<>> => msgs[1].kind # "answer"

LEMMA SentPaired ==
    ASSUME TypeInv, NEW c \in Conns, Unity(c)
    PROVE  \E msgs \in Seq(Messages) : Paired(msgs) /\ NewFirst(msgs) /\ UnitySends(c, msgs)
<1>1. ASSUME NEW k \in Calls, UnityAnswers(c, srvId[k])
      PROVE  \E msgs \in Seq(Messages) : Paired(msgs) /\ NewFirst(msgs) /\ UnitySends(c, msgs)
  <2>1. srvId[k] \in Nat
    <3>1. Request(srvId[k]) \in Items
          BY <1>1 DEF UnityAnswers, TypeInv, TypeOK
    <3> QED BY <3>1, ItemTypes
  <2> DEFINE msgs == <<Header("response", srvId[k]), Answer(srvId[k])>>
  <2>2. msgs \in Seq(Messages)
        BY <2>1, MessageTypes
  <2>3. Paired(msgs) /\ NewFirst(msgs)
        BY DEF Paired, Header, Answer, NewFirst
  <2> QED BY <1>1, <2>2, <2>3 DEF UnityAnswers
<1>2. ASSUME NEW r \in Requests, UnityCalls(c, r)
      PROVE  \E msgs \in Seq(Messages) : Paired(msgs) /\ NewFirst(msgs) /\ UnitySends(c, msgs)
  <2>1. PICK body \in {Body(r), Unknown} : UnitySends(c, <<Header("request", r), body>>)
        BY <1>2 DEF UnityCalls
  <2> DEFINE msgs == <<Header("request", r), body>>
  <2>2. msgs \in Seq(Messages)
        BY MessageTypes
  <2>3. Paired(msgs) /\ NewFirst(msgs)
        BY DEF Paired, Header, Body, Unknown, NewFirst
  <2> QED BY <2>1, <2>2, <2>3
<1>3. ASSUME NEW m \in Extras, UnityExtra(c, m)
      PROVE  \E msgs \in Seq(Messages) : Paired(msgs) /\ NewFirst(msgs) /\ UnitySends(c, msgs)
  <2>1. <<m>> \in Seq(Messages)
        BY MessageTypes
  <2>2. Paired(<<m>>) /\ NewFirst(<<m>>)
        BY DEF Paired, Extras, NewFirst
  <2> QED BY <1>3, <2>1, <2>2 DEF UnityExtra
<1> QED BY <1>1, <1>2, <1>3 DEF Unity

\* The message streams alone: they stay paired, and without a connection empty.
LEMMA StreamsPaired ==
    ASSUME GreetInv, AllPaired, Empty, [Next]_vars
    PROVE  /\ \A c \in Conns : Paired(toRos'[c])
           /\ Empty'
<1> USE DEF GreetInv
<1>1. toRos \in [Conns -> Seq(Messages)] /\ link \in [Conns -> {"none", "up", "gone"}]
      BY DEF TypeInv, TypeOK
<1>2. Paired(<<>>)
      BY DEF Paired
<1>3. CASE UNCHANGED <<link, toRos>>
      BY <1>3 DEF AllPaired, Empty
<1>4. ASSUME NEW c \in Conns, NEW msgs \in Seq(Messages), Paired(msgs), NewFirst(msgs), UnitySends(c, msgs)
      PROVE  (\A d \in Conns : Paired(toRos'[d])) /\ Empty'
  <2>1. toRos' = [toRos EXCEPT ![c] = toRos[c] \o msgs] /\ link' = link /\ link[c] = "up"
        BY <1>4 DEF UnitySends
  <2>2. Paired(toRos[c] \o msgs)
        BY <1>1, <1>4, PairedConcat DEF AllPaired, NewFirst
  <2>3. \A d \in Conns : Paired(toRos'[d])
        BY <1>1, <2>1, <2>2 DEF AllPaired
  <2> QED BY <1>1, <2>1, <2>3 DEF Empty
<1>5. ASSUME NEW c \in Conns, toRos' = [toRos EXCEPT ![c] = <<>>] \/ toRos' = toRos,
             link' = [link EXCEPT ![c] = "gone"] \/ link' = [link EXCEPT ![c] = "up"]
      PROVE  (\A d \in Conns : Paired(toRos'[d])) /\ Empty'
  <2>1. \A d \in Conns : toRos'[d] = toRos[d] \/ toRos'[d] = <<>>
        BY <1>1, <1>5
  <2>2. \A d \in Conns : link'[d] = "none" => link[d] = "none"
        BY <1>1, <1>5
  <2> QED BY <1>2, <2>1, <2>2 DEF AllPaired, Empty
<1>6. ASSUME NEW c \in Conns, toRos[c] # <<>>, toRos' = [toRos EXCEPT ![c] = Tail(toRos[c])], link' = link
      PROVE  (\A d \in Conns : Paired(toRos'[d])) /\ Empty'
  <2>1. Paired(Tail(toRos[c]))
        BY <1>1, <1>6, PairedTail DEF AllPaired
  <2>2. \A d \in Conns : Paired(toRos'[d])
        BY <1>1, <1>6, <2>1 DEF AllPaired
  <2> QED BY <1>1, <1>6, <2>2 DEF Empty
<1>7. ASSUME NEW c \in Conns, Accept(c) \/ Unity(c) \/ Disconnect(c)
      PROVE  (\A d \in Conns : Paired(toRos'[d])) /\ Empty'
  <2>1. CASE Accept(c)
        BY <1>5, <2>1 DEF Accept
  <2>2. CASE Unity(c)
        BY <1>4, <2>2, SentPaired
  <2>3. CASE Disconnect(c)
    <3>1. /\ toRos' = [toRos EXCEPT ![c] = <<>>] \/ toRos' = toRos
          /\ link' = [link EXCEPT ![c] = "gone"]
          BY <2>3 DEF Disconnect
    <3> QED BY <1>5, <3>1
  <2> QED BY <1>7, <2>1, <2>2, <2>3
<1>8. ASSUME NEW c \in Conns, ClientThread(c)
      PROVE  (\A d \in Conns : Paired(toRos'[d])) /\ Empty'
  <2>1. CASE ReadMessage(c)
        BY <1>3, <1>6, <2>1 DEF ReadMessage
  <2>2. CASE ReaderEnds(c)
    <3>1. toRos' = [toRos EXCEPT ![c] = <<>>] /\ link' = [link EXCEPT ![c] = "gone"]
          BY <2>2 DEF ReaderEnds
    <3> QED BY <1>5, <3>1
  <2> QED BY <1>3, <1>8, <2>1, <2>2 DEF ClientThread, TakeAsBody, TakeHeader, TakeRegistration, TakeOther,
             SendError, Resume, CallService, ClearPending
<1>9. ASSUME NEW c \in Conns, SenderLoop(c)
      PROVE  UNCHANGED <<link, toRos>>
      BY <1>9 DEF SenderLoop, OfferQueue, GetItem, SendItem, SenderEnds
<1>10. CASE \/ \E t \in Topics : SendMessage(t)
            \/ \E k \in Calls : UnityCall(k)
            \/ \E s \in serving : ServiceCallThread(s)
            \/ UNCHANGED vars
  <2>1. UNCHANGED <<link, toRos>>
        BY <1>10 DEF SendMessage, UnityCall, BeginCall, PutRequest, SleepUntilResumed, ServiceCallThread, vars
  <2> QED BY <1>3, <2>1
<1> QED BY <1>3, <1>7, <1>8, <1>9, <1>10 DEF Next

\* Where the client thread is, and what it holds, after a step.
LEMMA GoesTo ==
    ASSUME TypeInv, NEW c \in Conns, NEW from, NEW to, Goes(c, from, to)
    PROVE  /\ reader[c] = from /\ reader'[c] = to
           /\ to = "handle" => hand'[c] = Head(toRos[c])
           /\ to \in WithHand \ {"handle"} => hand'[c] = hand[c]
<1>1. c \in DOMAIN reader /\ c \in DOMAIN hand
      BY DEF TypeInv, TypeOK
<1> QED BY <1>1 DEF Goes, WithHand

\* The thread reads: a header in hand is followed by the answer it announces.
LEMMA ReadInStep ==
    ASSUME TypeInv, AllPaired, NEW c \in Conns, InStep(c), ReadMessage(c)
    PROVE  InStep(c)'
<1>1. toRos \in [Conns -> Seq(Messages)] /\ toRos[c] \in Seq(Messages) /\ link' = link
      BY DEF TypeInv, TypeOK, ReadMessage
<1>2. pendingSrvId' = pendingSrvId /\ pendingSrvIsRequest' = pendingSrvIsRequest
      BY DEF ReadMessage, pendingVars
<1>3. CASE Goes(c, "read", "finally")
  <2>1. reader'[c] = "finally"
        BY <1>3, GoesTo
  <2> QED BY <2>1 DEF InStep
<1>4. CASE /\ toRos[c] # <<>>
           /\ Goes(c, "read", "handle")
           /\ toRos' = [toRos EXCEPT ![c] = Tail(@)]
  <2>1. reader[c] = "read" /\ reader'[c] = "handle" /\ hand'[c] = Head(toRos[c])
        BY <1>4, GoesTo
  <2>2. toRos'[c] = Tail(toRos[c])
        BY <1>1, <1>4
  <2>3. pendingSrvId # None /\ ~pendingSrvIsRequest => Head(toRos[c]) = Answer(pendingSrvId)
        BY <1>4, <2>1 DEF InStep, AnswerNext
  <2>4. Head(toRos[c]).kind = "response" =>
           Tail(toRos[c]) # <<>> /\ Head(Tail(toRos[c])) = Answer(Head(toRos[c]).id)
        BY <1>1, <1>4, PairedTail DEF AllPaired
  <2> QED BY <1>2, <2>1, <2>2, <2>3, <2>4 DEF InStep, AnswerNext
<1> QED BY <1>3, <1>4 DEF ReadMessage

LEMMA TakeInStep ==
    ASSUME TypeInv, NEW c \in Conns, InStep(c),
           TakeAsBody(c) \/ TakeHeader(c) \/ TakeRegistration(c) \/ TakeOther(c)
    PROVE  InStep(c)'
<1>1. toRos' = toRos /\ link' = link
      BY DEF TakeAsBody, TakeHeader, TakeRegistration, TakeOther
<1>2. CASE TakeAsBody(c)
  <2>1. pendingSrvId' = pendingSrvId /\ pendingSrvIsRequest' = pendingSrvIsRequest
        BY <1>2 DEF TakeAsBody, pendingVars
  <2>2. CASE Goes(c, "handle", "body") /\ pendingSrvId # None
    <3>1. reader[c] = "handle" /\ reader'[c] = "body" /\ hand'[c] = hand[c]
          BY <2>2, GoesTo DEF WithHand
    <3> QED BY <2>1, <2>2, <3>1 DEF InStep
  <2>3. CASE pendingSrvIsRequest /\ Goes(c, "body", "request")
    <3>1. reader'[c] = "request"
          BY <2>3, GoesTo
    <3> QED BY <3>1 DEF InStep
  <2>4. CASE ~pendingSrvIsRequest /\ Goes(c, "body", "response")
    <3>1. reader[c] = "body" /\ reader'[c] = "response" /\ hand'[c] = hand[c]
          BY <2>4, GoesTo DEF WithHand
    <3> QED BY <2>1, <2>4, <3>1 DEF InStep
  <2> QED BY <1>2, <2>2, <2>3, <2>4 DEF TakeAsBody
<1>3. CASE /\ Goes(c, "handle", "header")
           /\ pendingSrvId = None /\ hand[c].kind \in {"response", "request"}
           /\ UNCHANGED pendingVars
  <2>1. reader[c] = "handle" /\ reader'[c] = "header" /\ hand'[c] = hand[c]
        BY <1>3, GoesTo DEF WithHand
  <2> QED BY <1>1, <1>3, <2>1 DEF InStep, AnswerNext
<1>6. CASE Goes(c, "header", "flag") /\ pendingSrvId' = hand[c].id
  <2>1. reader[c] = "header" /\ reader'[c] = "flag" /\ hand'[c] = hand[c]
        BY <1>6, GoesTo DEF WithHand
  <2> QED BY <1>1, <1>6, <2>1 DEF InStep, AnswerNext
<1>4. CASE /\ Goes(c, "flag", "read")
           /\ pendingSrvIsRequest' = (hand[c].kind = "request")
           /\ UNCHANGED pendingSrvId
  <2>1. reader[c] = "flag" /\ reader'[c] = "read"
        BY <1>4, GoesTo
  <2>2. hand[c].kind \in {"response", "request"} /\ pendingSrvId = hand[c].id
        BY <2>1 DEF InStep
  <2>3. ~pendingSrvIsRequest' => AnswerNext(c, pendingSrvId)
        BY <1>4, <2>1, <2>2 DEF InStep
  <2> QED BY <1>1, <1>4, <2>1, <2>3 DEF InStep, AnswerNext
<1>5. CASE TakeRegistration(c) \/ TakeOther(c)
  <2>1. pendingSrvId' = None
        BY <1>5 DEF TakeRegistration, TakeOther, pendingVars
  <2>2. PICK to \in {"read", "error"} : Goes(c, "handle", to)
        BY <1>5 DEF TakeRegistration, TakeOther
  <2>3. reader'[c] \in {"read", "error"}
        BY <2>2, GoesTo
  <2> QED BY <2>1, <2>3 DEF InStep
<1> QED BY <1>2, <1>3, <1>4, <1>5, <1>6 DEF TakeHeader

LEMMA HandleInStep ==
    ASSUME TypeInv, NEW c \in Conns, InStep(c),
           SendError(c) \/ Resume(c) \/ CallService(c) \/ ClearPending(c) \/ ReaderEnds(c)
    PROVE  InStep(c)'
<1>1. ASSUME NEW from, NEW to \in {"clear", "refuse", "finally", "done"}, Goes(c, from, to)
      PROVE  InStep(c)'
  <2>1. reader'[c] \in {"clear", "refuse", "finally", "done"}
        BY <1>1, GoesTo
  <2> QED BY <2>1 DEF InStep
<1>2. ASSUME NEW from, Goes(c, from, "read"), pendingSrvId' = None
      PROVE  InStep(c)'
  <2>1. reader'[c] = "read"
        BY <1>2, GoesTo
  <2> QED BY <1>2, <2>1 DEF InStep
<1>3. CASE SendError(c)
  <2>1. CASE Goes(c, "error", "read")
    <3>1. pendingSrvId' = None
      <4>1. reader[c] = "error"
            BY <2>1, GoesTo
      <4> QED BY <1>3, <4>1 DEF SendError, pendingVars, InStep
    <3> QED BY <1>2, <2>1, <3>1
  <2> QED BY <1>1, <1>3, <2>1 DEF SendError
<1>4. CASE ClearPending(c)
      BY <1>2, <1>4 DEF ClearPending
<1>5. CASE Resume(c) \/ ReaderEnds(c)
      BY <1>1, <1>5 DEF Resume, ReaderEnds
<1>6. CASE CallService(c)
  <2>1. PICK to \in {"clear", "refuse"} : Goes(c, "request", to)
        BY <1>6 DEF CallService
  <2> QED BY <1>1, <2>1
<1> QED BY <1>3, <1>4, <1>5, <1>6

\* What Unity sends comes behind.
LEMMA SentBehind ==
    ASSUME TypeInv, NEW c \in Conns, NEW msgs \in Seq(Messages), UnitySends(c, msgs)
    PROVE  /\ toRos'[c] = toRos[c] \o msgs
           /\ toRos[c] # <<>> => toRos'[c] # <<>> /\ Head(toRos'[c]) = Head(toRos[c])
           /\ toRos[c] = <<>> => toRos'[c] = msgs
<1>1. toRos[c] \in Seq(Messages) /\ toRos'[c] = toRos[c] \o msgs
      BY DEF TypeInv, TypeOK, UnitySends
<1>2. ASSUME toRos[c] # <<>> PROVE toRos'[c] # <<>> /\ Head(toRos'[c]) = Head(toRos[c])
  <2>1. Len(toRos[c]) \in Nat /\ Len(toRos[c]) > 0 /\ Len(msgs) \in Nat
        BY <1>1, <1>2, LenProperties, EmptySeq
  <2>2. /\ toRos[c] \o msgs \in Seq(Messages) /\ Len(toRos[c] \o msgs) = Len(toRos[c]) + Len(msgs)
        /\ (toRos[c] \o msgs)[1] = toRos[c][1]
        BY <1>1, <2>1, ConcatProperties
  <2>3. toRos[c] \o msgs # <<>>
        BY <2>1, <2>2
  <2> QED BY <1>1, <1>2, <2>2, <2>3, HeadTailProperties
<1>3. ASSUME toRos[c] = <<>> PROVE toRos'[c] = msgs
  <2>1. <<>> \o msgs = msgs
        BY ConcatEmptySeq
  <2> QED BY <1>1, <1>3, <2>1
<1> QED BY <1>1, <1>2, <1>3

\* Nobody misses what breaks with the connection.
LEMMA UnityInStep ==
    ASSUME TypeInv, NEW c \in Conns, InStep(c), Unity(c) \/ Disconnect(c)
    PROVE  InStep(c)'
<1>1. toRos \in [Conns -> Seq(Messages)] /\ toRos[c] \in Seq(Messages) /\ c \in DOMAIN link
      BY DEF TypeInv, TypeOK
<1>2. /\ reader' = reader /\ hand' = hand
      /\ pendingSrvId' = pendingSrvId /\ pendingSrvIsRequest' = pendingSrvIsRequest
      BY DEF Unity, UnityAnswers, UnityCalls, UnityExtra, UnitySends, Disconnect, readerVars, pendingVars
<1>3. \A n : AnswerNext(c, n) => AnswerNext(c, n)'
  <2> SUFFICES ASSUME NEW n, AnswerNext(c, n) PROVE AnswerNext(c, n)'
      OBVIOUS
  <2>1. CASE Disconnect(c)
    <3>1. link'[c] = "gone" /\ (toRos'[c] = <<>> \/ toRos'[c] = toRos[c])
          BY <1>1, <2>1 DEF Disconnect
    <3> QED BY <3>1 DEF AnswerNext
  <2>2. CASE Unity(c)
    <3>1. PICK msgs \in Seq(Messages) : UnitySends(c, msgs)
          BY <2>2, SentPaired
    <3>2. link[c] = "up" /\ toRos'[c] = toRos[c] \o msgs
          BY <1>1, <3>1 DEF UnitySends
    <3>3. toRos[c] # <<>> /\ Head(toRos[c]) = Answer(n)
          BY <3>2 DEF AnswerNext
    <3>4. toRos'[c] # <<>> /\ Head(toRos'[c]) = Head(toRos[c])
          BY <3>1, <3>3, SentBehind
    <3> QED BY <3>3, <3>4 DEF AnswerNext
  <2> QED BY <2>1, <2>2
<1> QED BY <1>2, <1>3 DEF InStep

\* No connection is forgotten, so that one which is the only one was so before.
LEMMA AcceptedStays ==
    ASSUME TypeInv, [Next]_vars, NEW c \in Conns, link[c] # "none"
    PROVE  link'[c] # "none"
<1>1. link \in [Conns -> {"none", "up", "gone"}]
      BY DEF TypeInv, TypeOK
<1>2. \/ link' = link
      \/ \E d \in Conns, to \in {"up", "gone"} : link' = [link EXCEPT ![d] = to]
  <2>1. ASSUME NEW d \in Conns, Accept(d) \/ Disconnect(d) \/ ReaderEnds(d)
        PROVE  \E to \in {"up", "gone"} : link' = [link EXCEPT ![d] = to]
        BY <2>1 DEF Accept, Disconnect, ReaderEnds
  <2>2. ASSUME NEW d \in Conns, Unity(d) \/ SenderLoop(d) \/ (ClientThread(d) /\ ~ReaderEnds(d))
        PROVE  link' = link
        BY <2>2 DEF Unity, UnityAnswers, UnityCalls, UnityExtra, UnitySends, SenderLoop, OfferQueue, GetItem,
             SendItem, SenderEnds, ClientThread, ReadMessage, TakeAsBody, TakeHeader, TakeRegistration,
             TakeOther, SendError, Resume, CallService, ClearPending
  <2>3. CASE \/ \E t \in Topics : SendMessage(t)
             \/ \E k \in Calls : UnityCall(k)
             \/ \E s \in serving : ServiceCallThread(s)
             \/ UNCHANGED vars
        BY <2>3 DEF SendMessage, UnityCall, BeginCall, PutRequest, SleepUntilResumed, ServiceCallThread, vars
  <2> QED BY <2>1, <2>2, <2>3 DEF Next
<1> QED BY <1>1, <1>2

\* Of the only connection there is, it is enough to show that its reader is in step.
LEMMA OnlyOne ==
    ASSUME OneAccepted', NEW c \in Conns, link'[c] # "none", InStep(c)'
    PROVE  AllInStep'
<1>1. \A d \in Conns : link'[d] # "none" => d = c
      BY DEF OneAccepted
<1> QED BY <1>1 DEF AllInStep

\* Nothing that a connection's reader looks at changes.
LEMMA ReaderUntouched ==
    ASSUME Streams, OneAccepted,
           UNCHANGED <<link, toRos, reader, hand, pendingSrvId, pendingSrvIsRequest>>
    PROVE  AllInStep'
<1>1. /\ link' = link /\ toRos' = toRos /\ reader' = reader /\ hand' = hand
      /\ pendingSrvId' = pendingSrvId /\ pendingSrvIsRequest' = pendingSrvIsRequest
      OBVIOUS
<1>2. ASSUME NEW d \in Conns, InStep(d) PROVE InStep(d)'
      BY <1>1, <1>2 DEF InStep, AnswerNext
<1> QED BY <1>1, <1>2 DEF Streams, AllInStep

LEMMA StreamsKept ==
    ASSUME StreamInv, [Next]_vars, OneAccepted, OneAccepted'
    PROVE  AllInStep'
<1>1. TypeInv /\ ThreadsLinked /\ AllPaired /\ Streams
      BY DEF StreamInv, GreetInv
<1>2. ASSUME NEW c \in Conns, Accept(c) PROVE AllInStep'
  <2>1. link' = [link EXCEPT ![c] = "up"] /\ link[c] = "none" /\ reader' = [reader EXCEPT ![c] = "read"]
        BY <1>2 DEF Accept
  <2>2. link'[c] = "up" /\ \A d \in Conns : d # c => link'[d] = link[d]
        BY <1>1, <2>1 DEF TypeInv, TypeOK
  <2>3. \A d \in Conns : link[d] = "none"
        BY <2>1, <2>2 DEF OneAccepted
  <2>4. pendingSrvId' = None
        BY <1>1, <1>2, <2>3 DEF Streams, AllInStep, Accept, pendingVars
  <2>5. reader'[c] = "read"
        BY <1>1, <2>1 DEF TypeInv, TypeOK
  <2>6. InStep(c)'
        BY <2>4, <2>5 DEF InStep
  <2>7. link'[c] # "none"
        BY <2>2
  <2> QED BY <2>6, <2>7, OnlyOne
<1>3. ASSUME NEW c \in Conns, Unity(c) \/ Disconnect(c) \/ ClientThread(c) PROVE AllInStep'
  <2>1. link[c] # "none"
    <3>1. CASE Unity(c) \/ Disconnect(c)
          BY <3>1 DEF Unity, UnityAnswers, UnityCalls, UnityExtra, UnitySends, Disconnect
    <3>2. CASE ClientThread(c)
      <4>1. reader[c] # "none"
            BY <3>2 DEF ClientThread, ReadMessage, TakeAsBody, TakeHeader, TakeRegistration, TakeOther,
                 SendError, Resume, CallService, ClearPending, ReaderEnds, Goes
      <4> QED BY <1>1, <4>1 DEF ThreadsLinked
    <3> QED BY <1>3, <3>1, <3>2
  <2>2. InStep(c)
        BY <1>1, <2>1 DEF Streams, AllInStep
  <2>3. InStep(c)'
        BY <1>1, <1>3, <2>2, ReadInStep, TakeInStep, HandleInStep, UnityInStep DEF ClientThread
  <2>4. link'[c] # "none"
        BY <1>1, <2>1, AcceptedStays
  <2> QED BY <2>3, <2>4, OnlyOne
<1>4. CASE \/ \E c \in Conns : SenderLoop(c)
           \/ \E t \in Topics : SendMessage(t)
           \/ \E k \in Calls : UnityCall(k)
           \/ \E s \in serving : ServiceCallThread(s)
           \/ UNCHANGED vars
  <2>1. UNCHANGED <<link, toRos, reader, hand, pendingSrvId, pendingSrvIsRequest>>
        BY <1>4 DEF SenderLoop, OfferQueue, GetItem, SendItem, SenderEnds, SendMessage, UnityCall, BeginCall,
             PutRequest, SleepUntilResumed, ServiceCallThread, vars, readerVars, pendingVars
  <2> QED BY <1>1, <2>1, ReaderUntouched
<1>5. \/ \E c \in Conns : Accept(c) \/ Unity(c) \/ Disconnect(c) \/ ClientThread(c)
      \/ \/ \E c \in Conns : SenderLoop(c)
         \/ \E t \in Topics : SendMessage(t)
         \/ \E k \in Calls : UnityCall(k)
         \/ \E s \in serving : ServiceCallThread(s)
         \/ UNCHANGED vars
      BY DEF Next
<1> QED BY <1>2, <1>3, <1>4, <1>5

\* The answers given: one is added by Resume, and nobody who has one gets another number.
LEMMA AnswersKept ==
    ASSUME StreamInv, [Next]_vars, OneAccepted
    PROVE  \A k \in Calls : result'[k] # None => result'[k] = Answer(srvId'[k])
<1>1. \A k \in Calls : result[k] # None => result[k] = Answer(srvId[k])
      BY DEF StreamInv, Streams
<1>2. /\ result \in [Calls -> Messages \cup {None}] /\ srvId \in [Calls -> Nat \cup {None}]
      /\ Numbered /\ Calls \subseteq Callbacks
      BY DEF StreamInv, WaitInv, TypeInv, TypeOK, Callbacks
<1>3. CASE UNCHANGED <<srvId, result>>
      BY <1>1, <1>3
<1>4. ASSUME NEW c \in Conns, Resume(c)
      PROVE  \A k \in Calls : result'[k] # None => result'[k] = Answer(srvId'[k])
  <2>1. srvId' = srvId /\ reader[c] = "response"
        BY <1>4 DEF Resume, Goes
  <2>2. hand[c] = Answer(pendingSrvId)
    <3>1. link[c] # "none"
          BY <2>1 DEF StreamInv, GreetInv, ThreadsLinked
    <3> QED BY <2>1, <3>1 DEF StreamInv, Streams, AllInStep, InStep
  <2>3. result' = result \/ \E j \in Calls : srvId[j] = pendingSrvId /\ result' = [result EXCEPT ![j] = hand[c]]
        BY <1>4 DEF Resume, Addressed
  <2> QED BY <1>1, <1>2, <2>1, <2>2, <2>3
<1>5. ASSUME NEW j \in Calls, BeginCall(j)
      PROVE  \A k \in Calls : result'[k] # None => result'[k] = Answer(srvId'[k])
  <2>1. result' = result /\ callback[j] = "idle"
        BY <1>5 DEF BeginCall, Steps
  <2>2. srvId' = srvId \/ srvId' = [srvId EXCEPT ![j] = nextSrvId]
        BY <1>5 DEF BeginCall, serviceVars
  <2>3. result[j] = None
        BY <1>2, <2>1 DEF Numbered
  <2> QED BY <1>1, <1>2, <2>1, <2>2, <2>3
<1>6. CASE \/ \E c \in Conns : \/ Accept(c) \/ Unity(c) \/ Disconnect(c) \/ SenderLoop(c)
                               \/ ClientThread(c) /\ ~Resume(c)
           \/ \E t \in Topics : SendMessage(t)
           \/ \E k \in Calls : PutRequest(k) \/ SleepUntilResumed(k)
           \/ \E s \in serving : ServiceCallThread(s)
           \/ UNCHANGED vars
  <2>1. UNCHANGED <<srvId, result>>
        BY <1>6
        DEF Accept, Unity, UnityAnswers, UnityCalls, UnityExtra, UnitySends, Disconnect, SenderLoop, OfferQueue,
             GetItem, SendItem, SenderEnds, ClientThread, ReadMessage, TakeAsBody, TakeHeader, TakeRegistration,
             TakeOther, SendError, CallService, ClearPending, ReaderEnds, SendMessage, PutRequest,
             SleepUntilResumed, ServiceCallThread, serviceVars, vars
  <2> QED BY <1>3, <2>1
<1> QED BY <1>4, <1>5, <1>6 DEF Next, UnityCall

LEMMA StreamInit == Init => StreamInv
<1>1. Init => AllPaired /\ Empty /\ Streams
  <2>1. Paired(<<>>)
        BY DEF Paired
  <2> QED BY <2>1 DEF Init, AllPaired, Empty, Streams, AllInStep
<1> QED BY <1>1, GreetInit, WaitInit DEF StreamInv

LEMMA StreamNext == StreamInv /\ [Next]_vars => StreamInv'
<1> SUFFICES ASSUME StreamInv, [Next]_vars PROVE StreamInv'
    OBVIOUS
<1>1. GreetInv' /\ WaitInv'
      BY GreetNext, WaitNext DEF StreamInv
<1>2. (\A c \in Conns : Paired(toRos'[c])) /\ Empty'
      BY StreamsPaired DEF StreamInv
<1>3. Streams'
  <2> SUFFICES ASSUME OneAccepted'
               PROVE  /\ AllInStep'
                      /\ \A k \in Calls : result'[k] # None => result'[k] = Answer(srvId'[k])
      BY DEF Streams
  <2>1. OneAccepted
        BY AcceptedStays DEF OneAccepted, StreamInv, WaitInv
  <2> QED BY <2>1, StreamsKept, AnswersKept
<1> QED BY <1>1, <1>2, <1>3 DEF StreamInv, AllPaired

-----------------------------------------------------------------------------
(***************************************************************************)
(* No request and no answer is lost while the one connection lasts.        *)
(***************************************************************************)
\* No number is there twice.
NoRepeats(s, k) ==
    \A i, j \in 1..Len(s) : s[i].kind = k /\ s[j].kind = k /\ s[i].id = s[j].id => i = j

LEMMA NumbersConcat ==
    ASSUME NEW S, NEW s \in Seq(S), NEW t \in Seq(S), NEW k
    PROVE  /\ Numbers(s \o t, k) = Numbers(s, k) \cup Numbers(t, k)
           /\ NoRepeats(s, k) /\ NoRepeats(t, k) /\ Numbers(s, k) \cap Numbers(t, k) = {} =>
                 NoRepeats(s \o t, k)
<1>1. Len(s) \in Nat /\ Len(t) \in Nat /\ Len(s \o t) = Len(s) + Len(t)
      BY LenProperties, ConcatProperties
<1>2. \A i \in 1..(Len(s) + Len(t)) : (s \o t)[i] = IF i <= Len(s) THEN s[i] ELSE t[i - Len(s)]
      BY ConcatProperties
<1>3. \A i \in 1..Len(s) : i \in 1..Len(s \o t) /\ (s \o t)[i] = s[i]
      BY <1>1, <1>2
<1>4. ASSUME NEW i \in 1..Len(t) PROVE i + Len(s) \in 1..Len(s \o t) /\ (s \o t)[i + Len(s)] = t[i]
  <2>1. i + Len(s) \in 1..(Len(s) + Len(t)) /\ ~(i + Len(s) <= Len(s)) /\ (i + Len(s)) - Len(s) = i
        BY <1>1
  <2> QED BY <1>1, <1>2, <2>1
<1>5. ASSUME NEW i \in 1..Len(s \o t)
      PROVE  \/ i \in 1..Len(s) /\ (s \o t)[i] = s[i]
             \/ i > Len(s) /\ i - Len(s) \in 1..Len(t) /\ (s \o t)[i] = t[i - Len(s)]
      BY <1>1, <1>2
<1>6. Numbers(s \o t, k) = Numbers(s, k) \cup Numbers(t, k)
  <2>1. ASSUME NEW n \in Numbers(s \o t, k) PROVE n \in Numbers(s, k) \cup Numbers(t, k)
    <3>1. PICK i \in 1..Len(s \o t) : (s \o t)[i].kind = k /\ (s \o t)[i].id = n
          BY DEF Numbers
    <3> QED BY <1>5, <3>1 DEF Numbers
  <2>2. ASSUME NEW n \in Numbers(s, k) PROVE n \in Numbers(s \o t, k)
        BY <1>3 DEF Numbers
  <2>3. ASSUME NEW n \in Numbers(t, k) PROVE n \in Numbers(s \o t, k)
    <3>1. PICK i \in 1..Len(t) : t[i].kind = k /\ t[i].id = n
          BY DEF Numbers
    <3> QED BY <1>4, <3>1 DEF Numbers
  <2> QED BY <2>1, <2>2, <2>3
<1>7. ASSUME NoRepeats(s, k), NoRepeats(t, k), Numbers(s, k) \cap Numbers(t, k) = {}
      PROVE  NoRepeats(s \o t, k)
  <2> SUFFICES ASSUME NEW i \in 1..Len(s \o t), NEW j \in 1..Len(s \o t), (s \o t)[i].kind = k,
                      (s \o t)[j].kind = k, (s \o t)[i].id = (s \o t)[j].id
               PROVE  i = j
      BY DEF NoRepeats
  <2>1. \A a \in 1..Len(s), b \in 1..Len(t) : ~(s[a].kind = k /\ t[b].kind = k /\ s[a].id = t[b].id)
    <3>1. \A a \in 1..Len(s) : s[a].kind = k => s[a].id \in Numbers(s, k)
          BY DEF Numbers
    <3>2. \A b \in 1..Len(t) : t[b].kind = k => t[b].id \in Numbers(t, k)
          BY DEF Numbers
    <3> QED BY <1>7, <3>1, <3>2
  <2>2. CASE i \in 1..Len(s) /\ (s \o t)[i] = s[i]
    <3>1. j \in 1..Len(s) /\ (s \o t)[j] = s[j]
          BY <1>5, <2>1, <2>2
    <3> QED BY <1>7, <2>2, <3>1 DEF NoRepeats
  <2>3. CASE i > Len(s) /\ i - Len(s) \in 1..Len(t) /\ (s \o t)[i] = t[i - Len(s)]
    <3>1. j > Len(s) /\ j - Len(s) \in 1..Len(t) /\ (s \o t)[j] = t[j - Len(s)]
          BY <1>5, <2>1, <2>3
    <3>2. i - Len(s) = j - Len(s)
          BY <1>7, <2>3, <3>1 DEF NoRepeats
    <3> QED BY <1>1, <3>2
  <2> QED BY <1>5, <2>2, <2>3
<1> QED BY <1>6, <1>7

LEMMA NumbersAppend ==
    ASSUME NEW S, NEW s \in Seq(S), NEW x \in S, NEW k
    PROVE  /\ Numbers(Append(s, x), k) = Numbers(s, k) \cup (IF x.kind = k THEN {x.id} ELSE {})
           /\ NoRepeats(s, k) /\ (x.kind = k => x.id \notin Numbers(s, k)) => NoRepeats(Append(s, x), k)
<1>0. <<x>> \in Seq(S) /\ Append(s, x) = s \o <<x>>
      BY AppendIsConcat
<1>1. PICK t \in Seq(S) : t = <<x>> /\ Append(s, x) = s \o t
      BY <1>0, Zenon
<1>2. Numbers(t, k) = IF x.kind = k THEN {x.id} ELSE {}
      BY <1>1 DEF Numbers
<1>3. NoRepeats(t, k)
      BY <1>1 DEF NoRepeats
<1>4. /\ Numbers(s \o t, k) = Numbers(s, k) \cup Numbers(t, k)
      /\ NoRepeats(s, k) /\ NoRepeats(t, k) /\ Numbers(s, k) \cap Numbers(t, k) = {} =>
            NoRepeats(s \o t, k)
      BY NumbersConcat
<1> QED BY <1>1, <1>2, <1>3, <1>4

LEMMA NumbersTail ==
    ASSUME NEW S, NEW s \in Seq(S), s # <<>>, NEW k, NoRepeats(s, k)
    PROVE  /\ NoRepeats(Tail(s), k)
           /\ Numbers(s, k) = Numbers(Tail(s), k) \cup (IF Head(s).kind = k THEN {Head(s).id} ELSE {})
           /\ Head(s).kind = k => Head(s).id \notin Numbers(Tail(s), k)
<1>1. /\ Len(s) \in Nat /\ Len(s) > 0 /\ Head(s) = s[1] /\ Len(Tail(s)) = Len(s) - 1
      /\ \A i \in 1..Len(Tail(s)) : Tail(s)[i] = s[i + 1]
      BY HeadTailProperties, LenProperties, EmptySeq
<1>2. \A i \in 1..Len(Tail(s)) : i + 1 \in 1..Len(s) /\ i + 1 # 1
      BY <1>1
<1>3. \A i \in 1..Len(s) : i = 1 \/ (i - 1 \in 1..Len(Tail(s)) /\ s[i] = Tail(s)[i - 1])
      BY <1>1
<1>4. NoRepeats(Tail(s), k)
  <2> SUFFICES ASSUME NEW i \in 1..Len(Tail(s)), NEW j \in 1..Len(Tail(s)), Tail(s)[i].kind = k,
                      Tail(s)[j].kind = k, Tail(s)[i].id = Tail(s)[j].id
               PROVE  i = j
      BY DEF NoRepeats
  <2>1. i + 1 = j + 1
        BY <1>1, <1>2 DEF NoRepeats
  <2> QED BY <2>1
<1>5. \A n : n \in Numbers(Tail(s), k) => n \in Numbers(s, k) /\ (s[1].kind = k => n # s[1].id)
  <2> SUFFICES ASSUME NEW n \in Numbers(Tail(s), k)
               PROVE  n \in Numbers(s, k) /\ (s[1].kind = k => n # s[1].id)
      OBVIOUS
  <2>1. PICK i \in 1..Len(Tail(s)) : Tail(s)[i].kind = k /\ Tail(s)[i].id = n
        BY DEF Numbers
  <2>2. i + 1 \in 1..Len(s) /\ i + 1 # 1 /\ s[i + 1].kind = k /\ s[i + 1].id = n /\ 1 \in 1..Len(s)
        BY <1>1, <1>2, <2>1
  <2> QED BY <2>2 DEF Numbers, NoRepeats
<1>6. \A n : n \in Numbers(s, k) => n \in Numbers(Tail(s), k) \/ (s[1].kind = k /\ n = s[1].id)
  <2> SUFFICES ASSUME NEW n \in Numbers(s, k)
               PROVE  n \in Numbers(Tail(s), k) \/ (s[1].kind = k /\ n = s[1].id)
      OBVIOUS
  <2>1. PICK i \in 1..Len(s) : s[i].kind = k /\ s[i].id = n
        BY DEF Numbers
  <2>2. CASE i = 1
        BY <2>1, <2>2
  <2>3. CASE i # 1
        BY <1>3, <2>1, <2>3 DEF Numbers
  <2> QED BY <2>2, <2>3
<1>7. s[1].kind = k => s[1].id \in Numbers(s, k)
  <2>1. 1 \in 1..Len(s)
        BY <1>1
  <2> QED BY <2>1 DEF Numbers
<1> QED BY <1>1, <1>4, <1>5, <1>6, <1>7

NoAnswerNext(c) == toRos[c] # <<>> => Head(toRos[c]).kind # "answer"
BodyNext(c)     == toRos[c] # <<>> /\ Head(toRos[c]).kind \in {"body", "unknown"}

\* The reader goes on, and no answer comes to it that it does not take for one.
InTurn(c) ==
    /\ reader[c] \notin {"none", "finally", "done"}
    /\ reader[c] \in {"error", "refuse"} => queue # None
    /\ reader[c] = "read" =>
         /\ pendingSrvId = None => NoAnswerNext(c)
         /\ pendingSrvId # None /\ pendingSrvIsRequest => BodyNext(c)
    /\ reader[c] = "handle" =>
         /\ pendingSrvId = None =>
              /\ hand[c].kind # "answer"
              /\ hand[c].kind = "request" => BodyNext(c)
              /\ hand[c].kind # "response" => NoAnswerNext(c)
         /\ pendingSrvId # None =>
              /\ NoAnswerNext(c)
              /\ pendingSrvIsRequest => hand[c].kind \in {"body", "unknown"}
    /\ reader[c] = "body" =>
         NoAnswerNext(c) /\ (pendingSrvIsRequest => hand[c].kind \in {"body", "unknown"})
    /\ reader[c] \in {"header", "flag"} => (hand[c].kind = "request" => BodyNext(c))
    /\ reader[c] \in {"request", "response", "error", "refuse", "clear"} => NoAnswerNext(c)

\* Every number is in one place, once.
Apart(Q, S, U, M, H) ==
    /\ Q \cap (S \cup U \cup M \cup H) = {} /\ S \cap (U \cup M \cup H) = {}
    /\ U \cap (M \cup H) = {} /\ M \cap H = {}

Once(c) ==
    /\ NoRepeats(local[c], "request") /\ NoRepeats(toRos[c], "answer")
    /\ Apart(Queued(c), Sending(c), Asked(c), Answered(c), Read(c))

Whole(c) == InTurn(c) /\ Once(c) /\ OnItsWay(c) = Unanswered

\* Nothing is put, sent or received before the sender offers its queue.
Unused == \A c \in Conns : sender[c] \in {"none", "start"} => local[c] = <<>> /\ toUnity[c] = {}

Lasting ==
    OneConnection =>
      /\ \A c \in Conns : link[c] = "up" => Whole(c)
      /\ (\A c \in Conns : link[c] = "none") => Unanswered = {}
      /\ \A k \in Calls : callback[k] = "put" => result[k] = None

KeptInv == StreamInv /\ Unused /\ Lasting

LEMMA LostByKept == KeptInv => NothingLost
BY DEF KeptInv, Lasting, Whole, InTurn, NothingLost

\* An answer in hand where answers are taken is one that a call waits for.
LEMMA ReadWaits ==
    ASSUME StreamInv, NEW c \in Conns, Whole(c), reader[c] = "response", InStep(c)
    PROVE  pendingSrvId \in waiting /\ Read(c) = {pendingSrvId}
<1>1. hand[c] = Answer(pendingSrvId)
      BY DEF InStep
<1>2. Read(c) = {pendingSrvId}
      BY <1>1 DEF Read, Answer
<1>3. pendingSrvId \in Unanswered
      BY <1>2 DEF Whole, OnItsWay
<1>4. pendingSrvId # None
  <2>1. hand[c] \in Messages
        BY DEF StreamInv, GreetInv, TypeInv, HandHeld, WithHand
  <2>2. pendingSrvId \in Nat
        BY <1>1, <2>1 DEF Answer, Messages, Extras
  <2> QED BY <2>2, EndpointAssumption
<1>5. pendingSrvId \in waiting
      BY <1>3, <1>4 DEF Unanswered, StreamInv, WaitInv, WaitingTracked
<1> QED BY <1>2, <1>5

\* The reader of the one connection goes on as long as that lasts.
LEMMA ReadInTurn ==
    ASSUME StreamInv, NEW c \in Conns, link[c] = "up", InStep(c), InTurn(c), ReadMessage(c)
    PROVE  InTurn(c)'
<1>1. /\ toRos \in [Conns -> Seq(Messages)] /\ toRos[c] \in Seq(Messages) /\ Paired(toRos[c])
      /\ TypeInv /\ ~halt[c]
      BY DEF StreamInv, GreetInv, TypeInv, TypeOK, AllPaired, ThreadsLinked
<1>2. pendingSrvId' = pendingSrvId /\ pendingSrvIsRequest' = pendingSrvIsRequest
      BY DEF ReadMessage, pendingVars
<1>3. /\ toRos[c] # <<>>
      /\ Goes(c, "read", "handle")
      /\ toRos' = [toRos EXCEPT ![c] = Tail(@)]
      BY <1>1 DEF ReadMessage
<1>4. reader[c] = "read" /\ reader'[c] = "handle" /\ hand'[c] = Head(toRos[c])
      BY <1>1, <1>3, GoesTo
<1>5. toRos'[c] = Tail(toRos[c])
      BY <1>1, <1>3
<1>6. /\ Head(toRos[c]).kind = "request" =>
            Tail(toRos[c]) # <<>> /\ Head(Tail(toRos[c])).kind \in {"body", "unknown"}
      /\ Tail(toRos[c]) # <<>> /\ Head(Tail(toRos[c])).kind = "answer" => Head(toRos[c]).kind = "response"
      BY <1>1, <1>3, PairedTail
<1>7. CASE pendingSrvId = None
  <2>1. Head(toRos[c]).kind # "answer"
        BY <1>3, <1>4, <1>7 DEF InTurn, NoAnswerNext
  <2> QED BY <1>2, <1>4, <1>5, <1>6, <1>7, <2>1 DEF InTurn, NoAnswerNext, BodyNext
<1>8. CASE pendingSrvId # None
  <2>1. IF pendingSrvIsRequest THEN Head(toRos[c]).kind \in {"body", "unknown"}
                               ELSE Head(toRos[c]).kind = "answer"
        BY <1>3, <1>4, <1>8 DEF InTurn, BodyNext, InStep, AnswerNext, Answer
  <2> QED BY <1>2, <1>4, <1>5, <1>6, <1>8, <2>1 DEF InTurn, NoAnswerNext, BodyNext
<1> QED BY <1>7, <1>8

LEMMA TakeInTurn ==
    ASSUME StreamInv, NEW c \in Conns, InStep(c), InTurn(c),
           TakeAsBody(c) \/ TakeHeader(c) \/ TakeRegistration(c) \/ TakeOther(c)
    PROVE  InTurn(c)'
<1>1. toRos' = toRos /\ queue' = queue /\ TypeInv
      BY DEF TakeAsBody, TakeHeader, TakeRegistration, TakeOther, StreamInv, GreetInv
<1>2. CASE TakeAsBody(c)
  <2>1. CASE Goes(c, "handle", "body") /\ pendingSrvId # None
    <3>1. reader[c] = "handle" /\ reader'[c] = "body" /\ hand'[c] = hand[c]
          BY <1>1, <2>1, GoesTo DEF WithHand
    <3>2. pendingSrvIsRequest' = pendingSrvIsRequest
          BY <1>2 DEF TakeAsBody, pendingVars
    <3> QED BY <1>1, <2>1, <3>1, <3>2 DEF InTurn, NoAnswerNext
  <2>2. ASSUME NEW to \in {"request", "response"}, Goes(c, "body", to)
        PROVE  InTurn(c)'
    <3>1. reader[c] = "body" /\ reader'[c] = to
          BY <1>1, <2>2, GoesTo
    <3> QED BY <1>1, <3>1 DEF InTurn, NoAnswerNext
  <2> QED BY <1>2, <2>1, <2>2 DEF TakeAsBody
<1>3. CASE /\ Goes(c, "handle", "header")
           /\ pendingSrvId = None
  <2>1. reader[c] = "handle" /\ reader'[c] = "header" /\ hand'[c] = hand[c]
        BY <1>1, <1>3, GoesTo DEF WithHand
  <2> QED BY <1>1, <1>3, <2>1 DEF InTurn, BodyNext
<1>6. CASE Goes(c, "header", "flag")
  <2>1. reader[c] = "header" /\ reader'[c] = "flag" /\ hand'[c] = hand[c]
        BY <1>1, <1>6, GoesTo DEF WithHand
  <2> QED BY <1>1, <2>1 DEF InTurn, BodyNext
<1>4. CASE /\ Goes(c, "flag", "read")
           /\ pendingSrvIsRequest' = (hand[c].kind = "request")
           /\ UNCHANGED pendingSrvId
  <2>1. reader[c] = "flag" /\ reader'[c] = "read"
        BY <1>1, <1>4, GoesTo
  <2>2. pendingSrvId # None
    <3>1. hand[c] \in Messages
          BY <1>1, <2>1 DEF TypeInv, HandHeld, WithHand
    <3>2. pendingSrvId \in Nat \cup Requests
          BY <2>1, <3>1, MessageTypes DEF InStep
    <3> QED BY <3>2, EndpointAssumption
  <2> QED BY <1>1, <1>4, <2>1, <2>2 DEF InTurn, BodyNext
<1>5. CASE TakeRegistration(c) \/ TakeOther(c)
  <2>1. /\ pendingSrvId' = None /\ pendingSrvId = None
        /\ hand[c].kind # "response"
        BY <1>5 DEF TakeRegistration, TakeOther, pendingVars
  <2>2. PICK to \in {"read", "error"} : Goes(c, "handle", to) /\ (to = "error" => queue # None)
        BY <1>5 DEF TakeRegistration, TakeOther
  <2>3. reader[c] = "handle" /\ reader'[c] = to
        BY <1>1, <2>2, GoesTo
  <2> QED BY <1>1, <2>1, <2>2, <2>3 DEF InTurn, NoAnswerNext
<1> QED BY <1>2, <1>3, <1>4, <1>5, <1>6 DEF TakeHeader

LEMMA HandleInTurn ==
    ASSUME StreamInv, NEW c \in Conns, InStep(c), Whole(c),
           SendError(c) \/ Resume(c) \/ CallService(c) \/ ClearPending(c)
    PROVE  InTurn(c)'
<1>1. TypeInv /\ InTurn(c)
      BY DEF StreamInv, GreetInv, Whole
<1>3. toRos' = toRos /\ queue' = queue
      BY DEF SendError, Resume, CallService, ClearPending
<1>4. \E from \in {"error", "refuse", "request", "response", "clear"}, to \in {"clear", "refuse", "read"} :
         /\ Goes(c, from, to)
         /\ to = "refuse" => queue # None
         /\ to = "read" => pendingSrvId' = None
  <2>1. CASE SendError(c)
    <3>1. queue # None
          BY <1>1, <2>1 DEF SendError, InTurn, Goes
    <3>2. reader[c] = "error" => pendingSrvId = None
          BY DEF InStep
    <3>3. pendingSrvId' = pendingSrvId
          BY <2>1 DEF SendError, pendingVars
    <3> QED BY <2>1, <3>1, <3>2, <3>3 DEF SendError, Goes
  <2>2. CASE Resume(c)
    <3>1. reader[c] = "response"
          BY <2>2 DEF Resume, Goes
    <3>2. pendingSrvId \in waiting
          BY <3>1, ReadWaits
    <3> QED BY <2>2, <3>2 DEF Resume
  <2>3. CASE CallService(c)
        BY <2>3 DEF CallService
  <2>4. CASE ClearPending(c)
        BY <2>4 DEF ClearPending
  <2> QED BY <2>1, <2>2, <2>3, <2>4
<1>5. PICK from \in {"error", "refuse", "request", "response", "clear"}, to \in {"clear", "refuse", "read"} :
         /\ Goes(c, from, to)
         /\ to = "refuse" => queue # None
         /\ to = "read" => pendingSrvId' = None
      BY <1>4
<1>6. reader[c] = from /\ reader'[c] = to
      BY <1>1, <1>5, GoesTo
<1> QED BY <1>1, <1>3, <1>5, <1>6 DEF InTurn, NoAnswerNext

\* What a put adds to a queue.
LEMMA PutQueued ==
    ASSUME TypeInv, NEW c \in Conns, NEW item \in Items, Put(item), NoRepeats(local[c], "request"),
           item.kind = "request" => item.id \notin Queued(c)
    PROVE  /\ NoRepeats(local[c], "request")'
           /\ Queued(c)' = Queued(c) \cup (IF queue = c /\ item.kind = "request" THEN {item.id} ELSE {})
<1>1. local \in [Conns -> Seq(Items)] /\ local[c] \in Seq(Items)
      BY DEF TypeInv, TypeOK
<1>2. local' = [local EXCEPT ![queue] = Append(local[queue], item)]
      BY DEF Put
<1>3. CASE queue # c
  <2>1. local'[c] = local[c]
        BY <1>1, <1>2, <1>3
  <2> QED BY <1>3, <2>1 DEF Queued, NoRepeats
<1>4. CASE queue = c
  <2>1. local'[c] = Append(local[c], item)
        BY <1>1, <1>2, <1>4
  <2>2. /\ Numbers(Append(local[c], item), "request") =
              Numbers(local[c], "request") \cup (IF item.kind = "request" THEN {item.id} ELSE {})
        /\ NoRepeats(Append(local[c], item), "request")
        BY <1>1, NumbersAppend DEF Queued
  <2>3. NoRepeats(local'[c], "request")
        BY <2>1, <2>2
  <2> QED BY <1>4, <2>1, <2>2, <2>3 DEF Queued, NoRepeats
<1> QED BY <1>3, <1>4

\* Who sleeps for an answer stays the same if no number and no answer is given.
LEMMA SameUnanswered ==
    ASSUME UNCHANGED <<srvId, result>>,
           \A k \in Calls : callback'[k] \in {"sleep", "asleep"} <=> callback[k] \in {"sleep", "asleep"}
    PROVE  Unanswered' = Unanswered
<1>1. srvId' = srvId /\ result' = result
      OBVIOUS
<1> QED BY <1>1 DEF Unanswered

\* The client thread: what it reads passes from the stream into its hand and to its call.
LEMMA ReadOnce ==
    ASSUME StreamInv, NEW c \in Conns, InStep(c), Whole(c), ~halt[c], link[c] = "up", ReadMessage(c)
    PROVE  Once(c)' /\ OnItsWay(c)' = Unanswered'
<1>1. /\ toRos \in [Conns -> Seq(Messages)] /\ toRos[c] \in Seq(Messages)
      /\ TypeInv /\ NoRepeats(toRos[c], "answer")
      BY DEF StreamInv, GreetInv, TypeInv, TypeOK, Whole, Once
<1>2. local' = local /\ sender' = sender /\ held' = held /\ toUnity' = toUnity /\ Unanswered' = Unanswered
      BY SameUnanswered DEF ReadMessage, senderVars, unityVars, serviceVars
<1>3. /\ toRos[c] # <<>>
      /\ Goes(c, "read", "handle")
      /\ toRos' = [toRos EXCEPT ![c] = Tail(@)]
      BY DEF ReadMessage
<1>4. reader[c] = "read" /\ reader'[c] = "handle" /\ hand'[c] = Head(toRos[c])
      BY <1>1, <1>3, GoesTo
<1>5. toRos'[c] = Tail(toRos[c])
      BY <1>1, <1>3
<1>6. /\ NoRepeats(toRos'[c], "answer")
      /\ Answered(c) = Answered(c)' \cup Read(c)' /\ Answered(c)' \cap Read(c)' = {} /\ Read(c) = {}
  <2>1. /\ NoRepeats(Tail(toRos[c]), "answer")
        /\ Numbers(toRos[c], "answer") = Numbers(Tail(toRos[c]), "answer") \cup
              (IF Head(toRos[c]).kind = "answer" THEN {Head(toRos[c]).id} ELSE {})
        /\ Head(toRos[c]).kind = "answer" => Head(toRos[c]).id \notin Numbers(Tail(toRos[c]), "answer")
        BY <1>1, <1>3, NumbersTail
  <2>2. Read(c) = {} /\ Read(c)' = IF Head(toRos[c]).kind = "answer" THEN {Head(toRos[c]).id} ELSE {}
        BY <1>4 DEF Read
  <2>3. Answered(c) = Numbers(toRos[c], "answer") /\ Answered(c)' = Numbers(Tail(toRos[c]), "answer")
        BY <1>5 DEF Answered
  <2>4. NoRepeats(toRos'[c], "answer")
        BY <1>5, <2>1
  <2> QED BY <2>1, <2>2, <2>3, <2>4
<1>7. Queued(c)' = Queued(c) /\ Sending(c)' = Sending(c) /\ Asked(c)' = Asked(c)
      BY <1>2 DEF Queued, Sending, Asked
<1>8. Apart(Queued(c)', Sending(c)', Asked(c)', Answered(c)', Read(c)')
      BY <1>6, <1>7 DEF Whole, Once, Apart
<1>9. NoRepeats(local'[c], "request")
      BY <1>2 DEF Whole, Once
<1>10. Once(c)'
      BY <1>6, <1>8, <1>9 DEF Once, NoRepeats, Apart
<1>11. OnItsWay(c)' = OnItsWay(c)
      BY <1>6, <1>7 DEF OnItsWay
<1> QED BY <1>2, <1>10, <1>11 DEF Whole

LEMMA TakeOnce ==
    ASSUME StreamInv, NEW c \in Conns, InStep(c), Whole(c),
           TakeAsBody(c) \/ TakeHeader(c) \/ TakeRegistration(c) \/ TakeOther(c)
    PROVE  Once(c)' /\ OnItsWay(c)' = Unanswered'
<1>1. TypeInv
      BY DEF StreamInv, GreetInv
<1>2. /\ local' = local /\ sender' = sender /\ held' = held /\ toUnity' = toUnity /\ toRos' = toRos
      /\ UNCHANGED <<srvId, result, callback>>
      BY DEF TakeAsBody, TakeHeader, TakeRegistration, TakeOther, senderVars, unityVars, serviceVars
<1>3. Unanswered' = Unanswered
      BY <1>2, SameUnanswered
<1>4. Read(c)' = Read(c)
  <2>1. CASE TakeAsBody(c)
    <3>1. CASE Goes(c, "handle", "body")
      <4>1. reader[c] = "handle" /\ reader'[c] = "body" /\ hand'[c] = hand[c]
            BY <1>1, <3>1, GoesTo DEF WithHand
      <4> QED BY <4>1 DEF Read
    <3>2. CASE pendingSrvIsRequest /\ Goes(c, "body", "request")
      <4>1. reader[c] = "body" /\ reader'[c] = "request"
            BY <1>1, <3>2, GoesTo
      <4>2. hand[c].kind \in {"body", "unknown"}
            BY <3>2, <4>1 DEF Whole, InTurn
      <4> QED BY <4>1, <4>2 DEF Read
    <3>3. CASE Goes(c, "body", "response")
      <4>1. reader[c] = "body" /\ reader'[c] = "response" /\ hand'[c] = hand[c]
            BY <1>1, <3>3, GoesTo DEF WithHand
      <4> QED BY <4>1 DEF Read
    <3> QED BY <2>1, <3>1, <3>2, <3>3 DEF TakeAsBody
  <2>2. CASE TakeHeader(c) \/ TakeRegistration(c) \/ TakeOther(c)
    <3>1. \/ reader[c] \in {"header", "flag"}
          \/ reader[c] = "handle" /\ hand[c].kind # "answer"
          BY <2>2 DEF TakeHeader, TakeRegistration, TakeOther, Goes, Whole, InTurn
    <3>2. PICK from \in {"handle", "header", "flag"}, to \in {"header", "flag", "read", "error"} :
             Goes(c, from, to)
          BY <2>2 DEF TakeHeader, TakeRegistration, TakeOther
    <3>3. reader'[c] \in {"header", "flag", "read", "error"}
          BY <1>1, <3>2, GoesTo
    <3> QED BY <3>1, <3>3 DEF Read
  <2> QED BY <2>1, <2>2
<1>5. Queued(c)' = Queued(c) /\ Sending(c)' = Sending(c) /\ Asked(c)' = Asked(c) /\ Answered(c)' = Answered(c)
      BY <1>2 DEF Queued, Sending, Asked, Answered
<1>6. Once(c)'
      BY <1>2, <1>4, <1>5 DEF Whole, Once, NoRepeats, Apart
<1> QED BY <1>3, <1>4, <1>5, <1>6 DEF Whole, OnItsWay

\* A put of what is no request, or none: the way of the numbers is what it was.
LEMMA QuietPut ==
    ASSUME TypeInv, NEW c \in Conns, Once(c), UNCHANGED local \/ Put(Other),
           UNCHANGED <<sender, held, toUnity, toRos>>, Read(c)' = Read(c)
    PROVE  Once(c)' /\ OnItsWay(c)' = OnItsWay(c)
<1>1. NoRepeats(local[c], "request")' /\ Queued(c)' = Queued(c)
  <2>1. CASE UNCHANGED local
    <3>1. local' = local
          BY <2>1
    <3> QED BY <3>1 DEF Queued, Once, NoRepeats
  <2>2. CASE Put(Other)
    <3>1. Other \in Items /\ Other.kind # "request"
          BY ItemTypes DEF Other
    <3>2. NoRepeats(local[c], "request")
          BY DEF Once
    <3>3. Queued(c)' = Queued(c) \cup (IF queue = c /\ Other.kind = "request" THEN {Other.id} ELSE {})
          BY <2>2, <3>1, <3>2, PutQueued
    <3>4. NoRepeats(local[c], "request")'
          BY <2>2, <3>1, <3>2, PutQueued
    <3> QED BY <3>1, <3>3, <3>4
  <2> QED BY <2>1, <2>2
<1>2. sender' = sender /\ held' = held /\ toUnity' = toUnity /\ toRos' = toRos
      OBVIOUS
<1>3. Sending(c)' = Sending(c) /\ Asked(c)' = Asked(c) /\ Answered(c)' = Answered(c)
      BY <1>2 DEF Sending, Asked, Answered
<1>4. NoRepeats(toRos[c], "answer")'
      BY <1>2 DEF Once, NoRepeats
<1>5. Once(c)'
      BY <1>1, <1>3, <1>4 DEF Once, Apart
<1>6. OnItsWay(c)' = OnItsWay(c)
      BY <1>1, <1>3 DEF OnItsWay
<1> QED BY <1>5, <1>6

LEMMA ResumeOnce ==
    ASSUME StreamInv, NEW c \in Conns, InStep(c), Whole(c), Resume(c)
    PROVE  Once(c)' /\ OnItsWay(c)' = Unanswered'
<1>1. /\ TypeInv /\ Numbered /\ WaitingTracked /\ result \in [Calls -> Messages \cup {None}]
      /\ callback \in [Callbacks -> {"idle", "put", "sleep", "asleep", "done", "raised"}]
      /\ Calls \subseteq Callbacks
      BY DEF StreamInv, GreetInv, WaitInv, TypeInv, TypeOK, Callbacks
<1>2. reader[c] = "response" /\ hand[c] \in Messages /\ None \notin Messages
      BY <1>1, NoneAssumption DEF Resume, Goes, TypeInv, HandHeld, WithHand
<1>3. pendingSrvId \in waiting /\ Read(c) = {pendingSrvId}
      BY <1>2, ReadWaits
<1>4. PICK k \in Calls : srvId[k] = pendingSrvId /\ result' = [result EXCEPT ![k] = hand[c]] /\ Notify(k)
      BY <1>3 DEF Resume, Addressed
<1>5. Goes(c, "response", "clear") /\ srvId' = srvId
      BY <1>3 DEF Resume
<1>6. Read(c)' = {}
  <2>1. reader'[c] = "clear"
        BY <1>1, <1>5, GoesTo
  <2> QED BY <2>1 DEF Read
<1>7. Unanswered' = Unanswered \ {pendingSrvId}
  <2>1. \A j \in Calls : callback'[j] \in {"sleep", "asleep"} => callback[j] \in {"sleep", "asleep"}
        BY <1>1, <1>4 DEF Notify
  <2>2. \A j \in Calls : j # k => callback'[j] = callback[j] /\ result'[j] = result[j]
        BY <1>1, <1>4 DEF Notify
  <2>3. result'[k] # None
        BY <1>1, <1>2, <1>4
  <2>4. \A j \in Calls : j # k => srvId[j] # pendingSrvId
    <3>1. pendingSrvId # None
          BY <1>1, <1>3, EndpointAssumption DEF TypeInv, TypeOK
    <3> QED BY <1>1, <1>4, <3>1 DEF WaitingTracked
  <2>5. ASSUME NEW n \in Unanswered' PROVE n \in Unanswered /\ n # pendingSrvId
    <3>1. PICK j \in Calls : srvId'[j] = n /\ callback'[j] \in {"sleep", "asleep"} /\ result'[j] = None
          BY DEF Unanswered
    <3> QED BY <1>5, <2>2, <2>3, <2>4, <3>1 DEF Unanswered
  <2>6. ASSUME NEW n \in Unanswered, n # pendingSrvId PROVE n \in Unanswered'
    <3>1. PICK j \in Calls : srvId[j] = n /\ callback[j] \in {"sleep", "asleep"} /\ result[j] = None
          BY DEF Unanswered
    <3>2. j # k
          BY <1>4, <2>6, <3>1
    <3> QED BY <1>5, <2>2, <3>1, <3>2 DEF Unanswered
  <2> QED BY <2>5, <2>6
<1>8. local' = local /\ sender' = sender /\ held' = held /\ toUnity' = toUnity /\ toRos' = toRos
      BY DEF Resume, senderVars, unityVars
<1>9. Queued(c)' = Queued(c) /\ Sending(c)' = Sending(c) /\ Asked(c)' = Asked(c) /\ Answered(c)' = Answered(c)
      BY <1>8 DEF Queued, Sending, Asked, Answered
<1>10. Once(c)'
      BY <1>6, <1>8, <1>9 DEF Whole, Once, NoRepeats, Apart
<1>11. OnItsWay(c)' = OnItsWay(c) \ {pendingSrvId}
      BY <1>3, <1>6, <1>9 DEF Whole, Once, Apart, OnItsWay
<1> QED BY <1>7, <1>10, <1>11 DEF Whole

LEMMA HandleOnce ==
    ASSUME StreamInv, NEW c \in Conns, InStep(c), Whole(c),
           SendError(c) \/ CallService(c) \/ ClearPending(c)
    PROVE  Once(c)' /\ OnItsWay(c)' = Unanswered'
<1>1. TypeInv
      BY DEF StreamInv, GreetInv
<1>2. /\ UNCHANGED local \/ Put(Other)
      /\ UNCHANGED <<sender, held, toUnity, toRos>>
      BY DEF SendError, CallService, ClearPending, senderVars, unityVars
<1>3. Unanswered' = Unanswered
  <2>1. UNCHANGED <<srvId, result, callback>>
        BY DEF SendError, CallService, ClearPending, serviceVars
  <2> QED BY <2>1, SameUnanswered
<1>4. Read(c)' = Read(c)
  <2>1. PICK from \in {"error", "refuse", "request", "clear"}, to \in {"clear", "refuse", "read", "finally"} :
           Goes(c, from, to)
        BY DEF SendError, CallService, ClearPending
  <2>2. reader[c] = from /\ reader'[c] = to
        BY <1>1, <2>1, GoesTo
  <2> QED BY <2>2 DEF Read
<1> QED BY <1>1, <1>2, <1>3, <1>4, QuietPut DEF Whole

LEMMA ReaderKeeps ==
    ASSUME StreamInv, NEW c \in Conns, link[c] = "up", link'[c] = "up", InStep(c), Whole(c),
           ClientThread(c)
    PROVE  Whole(c)'
<1>1. ~halt[c] /\ InTurn(c) /\ ~ReaderEnds(c)
  <2>1. ~halt[c] /\ InTurn(c)
        BY DEF Whole, StreamInv, GreetInv, ThreadsLinked
  <2>2. ReaderEnds(c) => link' = [link EXCEPT ![c] = "gone"]
        BY DEF ReaderEnds
  <2>3. c \in DOMAIN link
        BY DEF StreamInv, GreetInv, TypeInv, TypeOK
  <2> QED BY <2>1, <2>2, <2>3
<1>2. InTurn(c)'
      BY <1>1, ReadInTurn, TakeInTurn, HandleInTurn DEF ClientThread
<1>3. Once(c)' /\ OnItsWay(c)' = Unanswered'
      BY <1>1, ReadOnce, TakeOnce, ResumeOnce, HandleOnce DEF ClientThread
<1> QED BY <1>2, <1>3 DEF Whole

\* What others do leaves the reader in its turn.
LEMMA StillInTurn ==
    ASSUME NEW c \in Conns, InTurn(c), UNCHANGED <<toRos, reader, hand, pendingSrvId, pendingSrvIsRequest>>,
           queue # None => queue' # None
    PROVE  InTurn(c)'
<1>1. /\ toRos' = toRos /\ reader' = reader /\ hand' = hand
      /\ pendingSrvId' = pendingSrvId /\ pendingSrvIsRequest' = pendingSrvIsRequest
      OBVIOUS
<1> QED BY <1>1 DEF InTurn, NoAnswerNext, BodyNext

\* The sender thread: from the queue into its hand and on to Unity.
LEMMA OfferKeeps ==
    ASSUME StreamInv, Unused, NEW c \in Conns, Whole(c), OfferQueue(c)
    PROVE  Whole(c)'
<1>1. /\ local \in [Conns -> Seq(Items)] /\ TypeInv
      /\ sender \in [Conns -> {"none", "start", "get", "send", "finally", "release", "done"}]
      BY DEF StreamInv, GreetInv, TypeInv, TypeOK
<1>2. /\ local' = [local EXCEPT ![c] = <<Handshake>>] /\ queue' = c
      /\ sender[c] = "start" /\ sender' = [sender EXCEPT ![c] = "get"]
      /\ UNCHANGED <<toRos, reader, hand, pendingSrvId, pendingSrvIsRequest, held, toUnity, srvId, result, callback>>
      BY DEF OfferQueue, Moves, readerVars, pendingVars, unityVars, serviceVars
<1>3. InTurn(c)'
  <2>1. c # None
        BY EndpointAssumption DEF Conns
  <2> QED BY <1>2, <2>1, StillInTurn DEF Whole
<1>4. /\ Queued(c) = {} /\ Queued(c)' = {} /\ NoRepeats(local'[c], "request")
  <2>1. local[c] = <<>> /\ local'[c] = <<Handshake>>
        BY <1>1, <1>2 DEF Unused
  <2> QED BY <2>1 DEF Queued, Numbers, NoRepeats, Handshake
<1>5. Sending(c) = {} /\ Sending(c)' = {}
      BY <1>1, <1>2 DEF Sending
<1>6. toRos' = toRos /\ reader' = reader /\ hand' = hand /\ toUnity' = toUnity
      BY <1>2
<1>7. Asked(c)' = Asked(c) /\ Answered(c)' = Answered(c) /\ Read(c)' = Read(c)
      BY <1>6 DEF Asked, Answered, Read
<1>8. Unanswered' = Unanswered
      BY <1>2, SameUnanswered
<1>9. Once(c)'
      BY <1>4, <1>5, <1>6, <1>7 DEF Whole, Once, NoRepeats, Apart
<1> QED BY <1>3, <1>4, <1>5, <1>7, <1>8, <1>9 DEF Whole, OnItsWay

LEMMA GetKeeps ==
    ASSUME StreamInv, NEW c \in Conns, ~halt[c], Whole(c), GetItem(c)
    PROVE  Whole(c)'
<1>1. /\ local \in [Conns -> Seq(Items)] /\ local[c] \in Seq(Items)
      /\ DOMAIN held = Conns /\ DOMAIN sender = Conns
      BY DEF StreamInv, GreetInv, TypeInv, TypeOK
<1>2. /\ sender[c] = "get" /\ sender' = [sender EXCEPT ![c] = "send"] /\ local[c] # <<>>
      /\ held' = [held EXCEPT ![c] = Head(local[c])] /\ local' = [local EXCEPT ![c] = Tail(@)]
      BY DEF GetItem, Moves
<1>3. UNCHANGED <<toRos, reader, hand, pendingSrvId, pendingSrvIsRequest, queue, toUnity, srvId, result, callback>>
      BY DEF GetItem, readerVars, pendingVars, unityVars, serviceVars
<1>4. InTurn(c)'
      BY <1>3, StillInTurn DEF Whole
<1>5. local'[c] = Tail(local[c]) /\ held'[c] = Head(local[c]) /\ sender'[c] = "send"
      BY <1>1, <1>2
<1>6. /\ NoRepeats(local'[c], "request")
      /\ Queued(c) = Queued(c)' \cup Sending(c)' /\ Queued(c)' \cap Sending(c)' = {} /\ Sending(c) = {}
  <2>1. /\ NoRepeats(Tail(local[c]), "request")
        /\ Numbers(local[c], "request") = Numbers(Tail(local[c]), "request") \cup
              (IF Head(local[c]).kind = "request" THEN {Head(local[c]).id} ELSE {})
        /\ Head(local[c]).kind = "request" => Head(local[c]).id \notin Numbers(Tail(local[c]), "request")
    <3>1. NoRepeats(local[c], "request")
          BY DEF Whole, Once
    <3> QED BY <1>1, <1>2, <3>1, NumbersTail
  <2>2. /\ Sending(c) = {}
        /\ Sending(c)' = IF Head(local[c]).kind = "request" THEN {Head(local[c]).id} ELSE {}
        BY <1>2, <1>5 DEF Sending
  <2>3. Queued(c) = Numbers(local[c], "request") /\ Queued(c)' = Numbers(Tail(local[c]), "request")
        BY <1>5 DEF Queued
  <2>4. NoRepeats(local'[c], "request")
        BY <1>5, <2>1
  <2> QED BY <2>1, <2>2, <2>3, <2>4
<1>7. toRos' = toRos /\ reader' = reader /\ hand' = hand /\ toUnity' = toUnity
      BY <1>3
<1>8. Asked(c)' = Asked(c) /\ Answered(c)' = Answered(c) /\ Read(c)' = Read(c)
      BY <1>7 DEF Asked, Answered, Read
<1>9. Unanswered' = Unanswered
      BY <1>3, SameUnanswered
<1>10. NoRepeats(toRos'[c], "answer")
      BY <1>7 DEF Whole, Once
<1>11. Apart(Queued(c)', Sending(c)', Asked(c)', Answered(c)', Read(c)')
      BY <1>6, <1>8 DEF Whole, Once, Apart
<1>12. Once(c)'
      BY <1>6, <1>10, <1>11 DEF Once, NoRepeats, Apart
<1> QED BY <1>4, <1>6, <1>8, <1>9, <1>12 DEF Whole, OnItsWay

LEMMA SendKeeps ==
    ASSUME StreamInv, NEW c \in Conns, link[c] = "up", Whole(c), SendItem(c)
    PROVE  Whole(c)'
<1>1. /\ toUnity \in [Conns -> SUBSET Items] /\ DOMAIN sender = Conns
      /\ sender[c] = "send" => held[c] \in Items
      BY DEF StreamInv, GreetInv, TypeInv, TypeOK, ItemHeld
<1>2. /\ sender[c] = "send" /\ sender' = [sender EXCEPT ![c] = "get"]
      /\ toUnity' = IF held[c].kind \in {"handshake", "request"}
                    THEN [toUnity EXCEPT ![c] = @ \cup {held[c]}] ELSE toUnity
      BY DEF SendItem, Moves
<1>3. UNCHANGED <<toRos, reader, hand, pendingSrvId, pendingSrvIsRequest, queue, local, srvId, result, callback>>
      BY DEF SendItem, readerVars, pendingVars, serviceVars
<1>4. InTurn(c)'
      BY <1>3, StillInTurn DEF Whole
<1>5. Asked(c)' = Asked(c) \cup Sending(c) /\ Sending(c)' = {}
  <2>1. sender'[c] = "get"
        BY <1>1, <1>2
  <2>2. CASE held[c].kind = "request"
    <3>1. toUnity'[c] = toUnity[c] \cup {held[c]} /\ Sending(c) = {held[c].id}
          BY <1>1, <1>2, <2>2 DEF Sending
    <3> QED BY <2>1, <2>2, <3>1 DEF Asked, Sending
  <2>3. CASE held[c].kind # "request"
    <3>1. (toUnity'[c] = toUnity[c] \/ toUnity'[c] = toUnity[c] \cup {held[c]}) /\ Sending(c) = {}
          BY <1>1, <1>2, <2>3 DEF Sending
    <3> QED BY <2>1, <2>3, <3>1 DEF Asked, Sending
  <2> QED BY <2>2, <2>3
<1>6. toRos' = toRos /\ reader' = reader /\ hand' = hand /\ local' = local
      BY <1>3
<1>7. Queued(c)' = Queued(c) /\ Answered(c)' = Answered(c) /\ Read(c)' = Read(c)
      BY <1>6 DEF Queued, Answered, Read
<1>8. Unanswered' = Unanswered
      BY <1>3, SameUnanswered
<1>9. Once(c)'
      BY <1>5, <1>6, <1>7 DEF Whole, Once, NoRepeats, Apart
<1> QED BY <1>4, <1>5, <1>7, <1>8, <1>9 DEF Whole, OnItsWay

LEMMA SenderKeeps ==
    ASSUME StreamInv, Unused, NEW c \in Conns, link[c] = "up", Whole(c), SenderLoop(c)
    PROVE  Whole(c)'
<1>1. ~halt[c] /\ ~SenderEnds(c)
      BY DEF StreamInv, GreetInv, ThreadsLinked, SenderEnds, Moves
<1> QED BY <1>1, OfferKeeps, GetKeeps, SendKeeps DEF SenderLoop

\* Unity: from a request it has to an answer in the stream.
LEMMA AsksKeep ==
    ASSUME StreamInv, NEW c \in Conns, Whole(c), Unity(c)
    PROVE  Once(c)' /\ OnItsWay(c)' = Unanswered'
<1>1. /\ toRos \in [Conns -> Seq(Messages)] /\ toRos[c] \in Seq(Messages)
      /\ toUnity \in [Conns -> SUBSET Items] /\ NoRepeats(toRos[c], "answer") /\ TypeInv
      BY DEF StreamInv, GreetInv, TypeInv, TypeOK, Whole, Once
<1>2. /\ UNCHANGED <<local, sender, held, reader, hand, srvId, result, callback>>
      BY DEF Unity, UnityAnswers, UnityCalls, UnityExtra, UnitySends, readerVars, senderVars, serviceVars
<1>3. Unanswered' = Unanswered
      BY <1>2, SameUnanswered
<1>4. local' = local /\ sender' = sender /\ held' = held /\ reader' = reader /\ hand' = hand
      BY <1>2
<1>5. Queued(c)' = Queued(c) /\ Sending(c)' = Sending(c) /\ Read(c)' = Read(c)
      BY <1>4 DEF Queued, Sending, Read
<1>6. ASSUME NEW msgs \in Seq(Messages), UnitySends(c, msgs), NoRepeats(msgs, "answer"),
             Answered(c) \cap Numbers(msgs, "answer") = {}
      PROVE  /\ Answered(c)' = Answered(c) \cup Numbers(msgs, "answer")
             /\ NoRepeats(toRos'[c], "answer")
  <2>1. toRos'[c] = toRos[c] \o msgs
        BY <1>1, <1>6 DEF UnitySends
  <2>2. /\ Numbers(toRos[c] \o msgs, "answer") = Numbers(toRos[c], "answer") \cup Numbers(msgs, "answer")
        /\ NoRepeats(toRos[c], "answer") /\ NoRepeats(msgs, "answer")
             /\ Numbers(toRos[c], "answer") \cap Numbers(msgs, "answer") = {} =>
              NoRepeats(toRos[c] \o msgs, "answer")
        BY <1>1, NumbersConcat
  <2>3. Answered(c) = Numbers(toRos[c], "answer") /\ Answered(c)' = Numbers(toRos[c] \o msgs, "answer")
        BY <2>1 DEF Answered
  <2> QED BY <1>1, <1>6, <2>1, <2>2, <2>3
<1>7. ASSUME NEW k \in Calls, UnityAnswers(c, srvId[k])
      PROVE  Once(c)' /\ OnItsWay(c)' = OnItsWay(c)
  <2> DEFINE i == srvId[k]
  <2>1. i \in Nat /\ i \in Asked(c) /\ Asked(c)' = Asked(c) \ {i}
    <3>1. Request(i) \in toUnity[c] /\ toUnity'[c] = toUnity[c] \ {Request(i)} /\ Request(i) \in Items
          BY <1>1, <1>7 DEF UnityAnswers
    <3>2. i \in Nat
          BY <3>1, ItemTypes
    <3>3. \A m \in toUnity[c] : m.kind = "request" /\ m.id = i => m = Request(i)
          BY <1>1 DEF Items, Request
    <3>4. Request(i).kind = "request" /\ Request(i).id = i
          BY DEF Request
    <3> HIDE DEF i
    <3> QED BY <3>1, <3>2, <3>3, <3>4 DEF Asked
  <2>2. PICK msgs \in Seq(Messages) : msgs = <<Header("response", i), Answer(i)>> /\ UnitySends(c, msgs)
    <3>1. <<Header("response", i), Answer(i)>> \in Seq(Messages)
          BY <2>1, MessageTypes
    <3>2. UnitySends(c, <<Header("response", i), Answer(i)>>)
          BY <1>7 DEF UnityAnswers
    <3> QED BY <3>1, <3>2, Zenon
  <2>3. Numbers(msgs, "answer") = {i} /\ NoRepeats(msgs, "answer")
        BY <2>2 DEF Numbers, NoRepeats, Header, Answer
  <2> HIDE DEF i
  <2>4. Answered(c) \cap {i} = {}
        BY <2>1 DEF Whole, Once, Apart
  <2>5. Answered(c)' = Answered(c) \cup {i} /\ NoRepeats(toRos'[c], "answer")
        BY <1>6, <2>2, <2>3, <2>4
  <2>6. NoRepeats(local'[c], "request")
        BY <1>4 DEF Whole, Once
  <2>7. Apart(Queued(c)', Sending(c)', Asked(c)', Answered(c)', Read(c)')
        BY <1>5, <2>1, <2>5 DEF Whole, Once, Apart
  <2>8. Once(c)'
        BY <2>5, <2>6, <2>7 DEF Once, NoRepeats, Apart
  <2>9. OnItsWay(c)' = OnItsWay(c)
        BY <1>5, <2>1, <2>5 DEF OnItsWay
  <2> QED BY <2>8, <2>9
<1>8. ASSUME NEW msgs \in Seq(Messages), UnitySends(c, msgs), UNCHANGED toUnity,
             \A j \in 1..Len(msgs) : msgs[j].kind # "answer"
      PROVE  Once(c)' /\ OnItsWay(c)' = OnItsWay(c)
  <2>1. Numbers(msgs, "answer") = {} /\ NoRepeats(msgs, "answer")
        BY <1>8 DEF Numbers, NoRepeats
  <2>2. Answered(c)' = Answered(c) /\ NoRepeats(toRos'[c], "answer")
        BY <1>6, <1>8, <2>1
  <2>3. Asked(c)' = Asked(c)
    <3>1. toUnity' = toUnity
          BY <1>8
    <3> QED BY <3>1 DEF Asked
  <2>4. NoRepeats(local'[c], "request")
        BY <1>4 DEF Whole, Once
  <2>5. Once(c)'
        BY <1>5, <2>2, <2>3, <2>4 DEF Whole, Once, NoRepeats, Apart
  <2> QED BY <1>5, <2>2, <2>3, <2>5 DEF OnItsWay
<1>9. ASSUME NEW r \in Requests, UnityCalls(c, r)
      PROVE  Once(c)' /\ OnItsWay(c)' = OnItsWay(c)
  <2>1. PICK body \in {Body(r), Unknown} : UnitySends(c, <<Header("request", r), body>>)
        BY <1>9 DEF UnityCalls
  <2>2. <<Header("request", r), body>> \in Seq(Messages)
        BY MessageTypes
  <2>3. PICK msgs \in Seq(Messages) : msgs = <<Header("request", r), body>> /\ UnitySends(c, msgs)
        BY <2>1, <2>2, Zenon
  <2>4. \A j \in 1..Len(msgs) : msgs[j].kind # "answer"
        BY <2>3 DEF Header, Body, Unknown
  <2> QED BY <1>8, <1>9, <2>3, <2>4 DEF UnityCalls
<1>10. ASSUME NEW m \in Extras, UnityExtra(c, m)
      PROVE  Once(c)' /\ OnItsWay(c)' = OnItsWay(c)
  <2>1. <<m>> \in Seq(Messages) /\ UnitySends(c, <<m>>)
        BY <1>10, MessageTypes DEF UnityExtra
  <2>2. PICK msgs \in Seq(Messages) : msgs = <<m>> /\ UnitySends(c, msgs)
        BY <2>1, Zenon
  <2>3. \A j \in 1..Len(msgs) : msgs[j].kind # "answer"
        BY <2>2 DEF Extras
  <2> QED BY <1>8, <1>10, <2>2, <2>3 DEF UnityExtra
<1> QED BY <1>3, <1>7, <1>9, <1>10 DEF Unity, Whole

LEMMA UnityKeeps ==
    ASSUME StreamInv, NEW c \in Conns, Whole(c), Unity(c)
    PROVE  Whole(c)'
<1>1. PICK msgs \in Seq(Messages) : NewFirst(msgs) /\ UnitySends(c, msgs)
      BY SentPaired DEF StreamInv, GreetInv
<1>2. /\ toRos[c] # <<>> => toRos'[c] # <<>> /\ Head(toRos'[c]) = Head(toRos[c])
      /\ toRos[c] = <<>> => toRos'[c] = msgs
      BY <1>1, SentBehind DEF StreamInv, GreetInv
<1>3. /\ BodyNext(c) => BodyNext(c)'
      /\ NoAnswerNext(c) => NoAnswerNext(c)'
  <2>1. msgs # <<>> => Head(msgs).kind # "answer"
        BY <1>1 DEF NewFirst
  <2> QED BY <1>2, <2>1 DEF BodyNext, NoAnswerNext
<1>4. /\ reader' = reader /\ hand' = hand /\ queue' = queue
      /\ pendingSrvId' = pendingSrvId /\ pendingSrvIsRequest' = pendingSrvIsRequest
      BY <1>1 DEF UnitySends, readerVars, pendingVars
<1>5. InTurn(c)'
      BY <1>3, <1>4 DEF Whole, InTurn
<1> QED BY <1>5, AsksKeep DEF Whole

\* Nothing is put for Unity, and nothing sent, by a sender that has not begun.
LEMMA UnusedNext ==
    ASSUME GreetInv, Unused, [Next]_vars
    PROVE  Unused'
<1>1. /\ local \in [Conns -> Seq(Items)] /\ toUnity \in [Conns -> SUBSET Items]
      /\ sender \in [Conns -> {"none", "start", "get", "send", "finally", "release", "done"}]
      /\ Offered /\ queue \in Conns \cup {None}
      BY DEF GreetInv, TypeInv, TypeOK
<1>2. ASSUME UNCHANGED <<sender, toUnity>>, UNCHANGED local \/ \E item : Put(item)
      PROVE  Unused'
  <2>1. sender' = sender /\ toUnity' = toUnity
        BY <1>2
  <2>2. ASSUME NEW d \in Conns, sender[d] \in {"none", "start"} PROVE local'[d] = local[d]
    <3>1. CASE UNCHANGED local
          BY <3>1
    <3>2. CASE \E item : Put(item)
      <4>1. PICK item : Put(item)
            BY <3>2
      <4>2. queue # None /\ local' = [local EXCEPT ![queue] = Append(local[queue], item)]
            BY <4>1 DEF Put
      <4>3. d # queue
            BY <1>1, <2>2, <4>2 DEF Offered
      <4> QED BY <1>1, <4>2, <4>3
    <3> QED BY <1>2, <3>1, <3>2
  <2> QED BY <2>1, <2>2 DEF Unused
<1>3. ASSUME NEW c \in Conns,
             \A d \in Conns : d # c => sender'[d] = sender[d] /\ local'[d] = local[d] /\ toUnity'[d] = toUnity[d],
             sender'[c] \in {"none", "start"} => local'[c] = <<>> /\ toUnity'[c] = {}
      PROVE  Unused'
      BY <1>3 DEF Unused
<1>4. ASSUME NEW c \in Conns, Accept(c) PROVE Unused'
  <2>1. sender' = [sender EXCEPT ![c] = "start"] /\ local' = local /\ toUnity' = toUnity /\ link[c] = "none"
        BY <1>4 DEF Accept, unityVars
  <2>2. sender[c] = "none"
        BY <2>1 DEF GreetInv, ThreadsLinked
  <2>3. local[c] = <<>> /\ toUnity[c] = {}
        BY <2>2 DEF Unused
  <2> QED BY <1>1, <1>3, <2>1, <2>3
<1>5. ASSUME NEW c \in Conns, Unity(c) \/ Disconnect(c) PROVE Unused'
  <2>1. sender' = sender /\ local' = local
        BY <1>5 DEF Unity, UnityAnswers, UnityCalls, UnityExtra, UnitySends, Disconnect, senderVars
  <2>2. \E S \in SUBSET toUnity[c] : toUnity' = toUnity \/ toUnity' = [toUnity EXCEPT ![c] = S]
    <3>1. CASE \E k \in Calls : UnityAnswers(c, srvId[k])
          BY <1>1, <3>1 DEF UnityAnswers
    <3>2. CASE Disconnect(c)
          BY <1>1, <3>2 DEF Disconnect
    <3>3. CASE (\E r \in Requests : UnityCalls(c, r)) \/ (\E m \in Extras : UnityExtra(c, m))
          BY <1>1, <3>3 DEF UnityCalls, UnityExtra
    <3> QED BY <1>5, <3>1, <3>2, <3>3 DEF Unity
  <2>3. \A d \in Conns : toUnity[d] = {} => toUnity'[d] = {}
        BY <1>1, <2>2
  <2> QED BY <2>1, <2>3 DEF Unused
<1>6. ASSUME NEW c \in Conns, SenderLoop(c) PROVE Unused'
  <2>1. PICK from, to \in {"start", "get", "send", "finally", "release", "done"} :
           to # "start" /\ Moves(c, from, to)
        BY <1>6 DEF SenderLoop, OfferQueue, GetItem, SendItem, SenderEnds
  <2>2. sender' = [sender EXCEPT ![c] = to]
        BY <2>1 DEF Moves
  <2>3. \A d \in Conns : d # c => local'[d] = local[d] /\ toUnity'[d] = toUnity[d]
        BY <1>1, <1>6 DEF SenderLoop, OfferQueue, GetItem, SendItem, SenderEnds, unityVars
  <2>4. sender'[c] = to /\ \A d \in Conns : d # c => sender'[d] = sender[d]
        BY <1>1, <2>2
  <2> QED BY <1>3, <2>1, <2>3, <2>4
<1>7. ASSUME NEW c \in Conns, ClientThread(c) PROVE Unused'
  <2>1. UNCHANGED <<sender, toUnity>> /\ (UNCHANGED local \/ Put(Other))
        BY <1>7 DEF ClientThread, ReadMessage, TakeAsBody, TakeHeader, TakeRegistration, TakeOther, SendError,
             Resume, CallService, ClearPending, ReaderEnds, senderVars, unityVars
  <2> QED BY <1>2, <2>1
<1>8. CASE \/ \E t \in Topics : SendMessage(t)
           \/ \E k \in Calls : UnityCall(k)
           \/ \E s \in serving : ServiceCallThread(s)
           \/ UNCHANGED vars
  <2>1. UNCHANGED <<sender, toUnity>> /\ (UNCHANGED local \/ \E item : Put(item))
        BY <1>8 DEF SendMessage, UnityCall, BeginCall, PutRequest, SleepUntilResumed, ServiceCallThread,
             senderVars, unityVars, vars
  <2> QED BY <1>2, <2>1
<1> QED BY <1>4, <1>5, <1>6, <1>7, <1>8 DEF Next

\* Of the callbacks, only a call that is put changes who sleeps for an answer.
CallbackStep ==
    \/ \E t \in Topics : SendMessage(t)
    \/ \E k \in Calls : UnityCall(k)
    \/ \E s \in serving : ServiceCallThread(s)

LEMMA CallbackCases ==
    ASSUME TypeInv, CallbackStep
    PROVE  /\ UNCHANGED <<link, toRos, toUnity, reader, hand, sender, held, queue, pendingSrvId, pendingSrvIsRequest>>
           /\ \/ Unanswered' = Unanswered /\ (UNCHANGED local \/ Put(Other))
              \/ \E k \in Calls : PutRequest(k) /\ Put(Request(srvId[k])) /\ Steps(k, "put", "sleep")
<1>1. UNCHANGED <<link, toRos, toUnity, reader, hand, sender, held, queue, pendingSrvId, pendingSrvIsRequest>>
      BY DEF CallbackStep, SendMessage, UnityCall, BeginCall, PutRequest, SleepUntilResumed, ServiceCallThread,
             senderVars, unityVars, readerVars, pendingVars
<1>2. /\ callback \in [Callbacks -> {"idle", "put", "sleep", "asleep", "done", "raised"}]
      /\ Calls \subseteq Callbacks /\ srvId \in [Calls -> Nat \cup {None}]
      BY DEF TypeInv, TypeOK, Callbacks
<1>3. ASSUME NEW t \in Topics, SendMessage(t)
      PROVE  Unanswered' = Unanswered /\ (UNCHANGED local \/ Put(Other))
  <2>1. PICK from, to \in {"idle", "put", "done", "raised"} : Steps(t, from, to)
        BY <1>3 DEF SendMessage
  <2>2. t \notin Calls
        BY EndpointAssumption DEF Calls
  <2>3. \A k \in Calls : callback'[k] = callback[k]
        BY <1>2, <2>1, <2>2 DEF Steps
  <2>4. UNCHANGED <<srvId, result>>
        BY <1>3 DEF SendMessage, serviceVars
  <2>5. Unanswered' = Unanswered
        BY <2>3, <2>4, SameUnanswered
  <2> QED BY <1>3, <2>5 DEF SendMessage
<1>4. ASSUME NEW s \in serving, ServiceCallThread(s)
      PROVE  Unanswered' = Unanswered /\ (UNCHANGED local \/ Put(Other))
  <2>1. UNCHANGED <<srvId, result, callback>>
        BY <1>4 DEF ServiceCallThread, serviceVars
  <2>2. Unanswered' = Unanswered
        BY <2>1, SameUnanswered
  <2> QED BY <1>4, <2>2 DEF ServiceCallThread
<1>5. ASSUME NEW k \in Calls, BeginCall(k)
      PROVE  Unanswered' = Unanswered /\ UNCHANGED local
  <2>1. PICK to \in {"put", "raised"} : Steps(k, "idle", to)
        BY <1>5 DEF BeginCall
  <2>2. /\ callback[k] = "idle" /\ callback'[k] \in {"put", "raised"}
        /\ \A j \in Calls : j # k => callback'[j] = callback[j]
        BY <1>2, <2>1 DEF Steps
  <2>3. srvId' = srvId \/ srvId' = [srvId EXCEPT ![k] = nextSrvId]
        BY <1>5 DEF BeginCall, serviceVars
  <2>4. \A j \in Calls : j # k => srvId'[j] = srvId[j]
        BY <1>2, <2>3
  <2>5. result' = result
        BY <1>5 DEF BeginCall
  <2>6. Unanswered' = Unanswered
        BY <2>2, <2>4, <2>5 DEF Unanswered
  <2> QED BY <1>5, <2>6 DEF BeginCall
<1>6. ASSUME NEW k \in Calls, SleepUntilResumed(k) \/ (PutRequest(k) /\ Steps(k, "put", "raised") /\ UNCHANGED local)
      PROVE  Unanswered' = Unanswered /\ UNCHANGED local
  <2>1. UNCHANGED <<srvId, result>> /\ UNCHANGED local
        BY <1>6 DEF SleepUntilResumed, PutRequest, serviceVars
  <2>2. \/ Steps(k, "sleep", "asleep")
        \/ Steps(k, "put", "raised")
        BY <1>6 DEF SleepUntilResumed
  <2>3. \A j \in Calls : callback'[j] \in {"sleep", "asleep"} <=> callback[j] \in {"sleep", "asleep"}
        BY <1>2, <2>2 DEF Steps
  <2> QED BY <2>1, <2>3, SameUnanswered
<1>7. ASSUME NEW k \in Calls, PutRequest(k)
      PROVE  \/ Put(Request(srvId[k])) /\ Steps(k, "put", "sleep")
             \/ Steps(k, "put", "raised") /\ UNCHANGED local
      BY <1>7 DEF PutRequest
<1> QED BY <1>1, <1>3, <1>4, <1>5, <1>6, <1>7 DEF CallbackStep, UnityCall

\* While there is one connection, a queue on offer is its own.
LEMMA QueueOfOne ==
    ASSUME GreetInv, OneConnection, queue # None
    PROVE  queue \in Conns /\ link[queue] = "up"
<1>1. queue \in Conns /\ link[queue] \in {"none", "up", "gone"}
      BY DEF GreetInv, TypeInv, TypeOK
<1>2. link[queue] # "none"
      BY <1>1 DEF GreetInv, Offered, ThreadsLinked
<1> QED BY <1>1, <1>2 DEF OneConnection

\* A request goes into the connection's queue under a number that is nowhere yet.
LEMMA RequestKeeps ==
    ASSUME StreamInv, Lasting, OneConnection, NEW c \in Conns, link[c] = "up", NEW k \in Calls,
           PutRequest(k), Put(Request(srvId[k])), Steps(k, "put", "sleep")
    PROVE  Whole(c)'
<1>1. /\ callback \in [Callbacks -> {"idle", "put", "sleep", "asleep", "done", "raised"}]
      /\ Calls \subseteq Callbacks /\ TypeInv /\ WaitingTracked /\ GreetInv
      BY DEF StreamInv, GreetInv, WaitInv, TypeInv, TypeOK, Callbacks
<1>2. Whole(c) /\ result[k] = None /\ callback[k] = "put"
      BY DEF Lasting, Steps
<1>3. srvId[k] \in Nat
      BY <1>1, <1>2 DEF TypeInv, CallHasNumber
<1>4. queue = c
  <2>1. queue # None
        BY DEF Put
  <2> QED BY <1>1, <2>1, QueueOfOne DEF OneConnection
<1>5. UNCHANGED <<toRos, reader, hand, pendingSrvId, pendingSrvIsRequest, sender, held, toUnity, srvId, result, queue>>
      BY DEF PutRequest, readerVars, senderVars, unityVars, pendingVars, serviceVars
<1>6. srvId[k] \notin Unanswered
  <2>1. ASSUME NEW j \in Calls, callback[j] \in {"sleep", "asleep"}, srvId[j] = srvId[k] PROVE FALSE
    <3>1. srvId[k] # None
          BY <1>3, EndpointAssumption
    <3>2. j = k
          BY <1>1, <2>1, <3>1 DEF WaitingTracked
    <3> QED BY <1>2, <2>1, <3>2
  <2> QED BY <2>1 DEF Unanswered
<1>7. Unanswered' = Unanswered \cup {srvId[k]}
  <2>1. callback'[k] = "sleep" /\ \A j \in Calls : j # k => callback'[j] = callback[j]
        BY <1>1 DEF Steps
  <2>2. srvId' = srvId /\ result' = result
        BY <1>5
  <2> QED BY <1>2, <2>1, <2>2 DEF Unanswered
<1>8. /\ NoRepeats(local[c], "request")'
      /\ Queued(c)' = Queued(c) \cup {srvId[k]}
  <2>1. Request(srvId[k]) \in Items /\ Request(srvId[k]).kind = "request" /\ Request(srvId[k]).id = srvId[k]
        BY <1>3, ItemTypes DEF Request
  <2>2. srvId[k] \notin Queued(c) /\ NoRepeats(local[c], "request")
        BY <1>2, <1>6 DEF Whole, OnItsWay, Once
  <2>3. /\ NoRepeats(local[c], "request")'
        /\ Queued(c)' = Queued(c) \cup (IF queue = c /\ Request(srvId[k]).kind = "request"
                                          THEN {Request(srvId[k]).id} ELSE {})
        BY <1>1, <2>1, <2>2, PutQueued
  <2> QED BY <1>4, <2>1, <2>3
<1>9. /\ toRos' = toRos /\ reader' = reader /\ hand' = hand /\ sender' = sender /\ held' = held
      /\ toUnity' = toUnity
      BY <1>5
<1>10. Sending(c)' = Sending(c) /\ Asked(c)' = Asked(c) /\ Answered(c)' = Answered(c) /\ Read(c)' = Read(c)
      BY <1>9 DEF Sending, Asked, Answered, Read
<1>11. InTurn(c)'
      BY <1>2, <1>5, StillInTurn DEF Whole
<1>12. srvId[k] \notin Sending(c) \cup Asked(c) \cup Answered(c) \cup Read(c)
      BY <1>2, <1>6 DEF Whole, OnItsWay
<1>13. Apart(Queued(c)', Sending(c)', Asked(c)', Answered(c)', Read(c)')
      BY <1>2, <1>8, <1>10, <1>12 DEF Whole, Once, Apart
<1>14. NoRepeats(toRos'[c], "answer")
      BY <1>2, <1>9 DEF Whole, Once
<1>15. Once(c)'
      BY <1>8, <1>13, <1>14 DEF Once, NoRepeats, Apart
<1>16. OnItsWay(c)' = Unanswered'
      BY <1>2, <1>7, <1>8, <1>10 DEF Whole, OnItsWay
<1> QED BY <1>11, <1>15, <1>16 DEF Whole

LEMMA CallbackKeeps ==
    ASSUME StreamInv, Lasting, OneConnection, NEW c \in Conns, link[c] = "up", CallbackStep
    PROVE  Whole(c)'
<1>1. TypeInv /\ Whole(c)
      BY DEF StreamInv, GreetInv, Lasting
<1>2. UNCHANGED <<link, toRos, toUnity, reader, hand, sender, held, queue, pendingSrvId, pendingSrvIsRequest>>
      BY <1>1, CallbackCases
<1>3. CASE Unanswered' = Unanswered /\ (UNCHANGED local \/ Put(Other))
  <2>1. InTurn(c)'
        BY <1>1, <1>2, StillInTurn DEF Whole
  <2>2. Read(c)' = Read(c)
    <3>1. reader' = reader /\ hand' = hand
          BY <1>2
    <3> QED BY <3>1 DEF Read
  <2>3. Once(c)' /\ OnItsWay(c)' = OnItsWay(c)
        BY <1>1, <1>2, <1>3, <2>2, QuietPut DEF Whole
  <2> QED BY <1>1, <1>3, <2>1, <2>3 DEF Whole
<1>4. CASE \E k \in Calls : PutRequest(k) /\ Put(Request(srvId[k])) /\ Steps(k, "put", "sleep")
      BY <1>4, RequestKeeps
<1> QED BY <1>1, <1>3, <1>4, CallbackCases

\* A new connection that is the only one begins with nothing on its way.
LEMMA AcceptKeeps ==
    ASSUME StreamInv, Unused, Lasting, OneConnection, \A d \in Conns : link[d] = "none",
           NEW c \in Conns, Accept(c)
    PROVE  Whole(c)'
<1>1. /\ DOMAIN reader = Conns /\ DOMAIN sender = Conns /\ TypeInv
      BY DEF StreamInv, GreetInv, TypeInv, TypeOK
<1>2. /\ reader'[c] = "read" /\ sender'[c] = "start"
      /\ UNCHANGED <<toRos, toUnity, local, held, hand, srvId, result, callback, pendingSrvId>>
      BY <1>1 DEF Accept, unityVars, pendingVars, serviceVars
<1>3. sender[c] = "none" /\ pendingSrvId = None
  <2>1. OneAccepted
        BY DEF OneAccepted
  <2> QED BY <2>1 DEF StreamInv, GreetInv, ThreadsLinked, Streams, AllInStep
<1>4. toRos[c] = <<>> /\ local[c] = <<>> /\ toUnity[c] = {}
      BY <1>3 DEF StreamInv, Empty, Unused
<1>5. toRos'[c] = <<>> /\ local'[c] = <<>> /\ toUnity'[c] = {} /\ pendingSrvId' = None
      BY <1>2, <1>3, <1>4
<1>6. Unanswered' = {}
  <2>1. Unanswered' = Unanswered
        BY <1>2, SameUnanswered
  <2> QED BY <2>1 DEF Lasting
<1>7. InTurn(c)'
      BY <1>2, <1>5 DEF InTurn, NoAnswerNext
<1>8. Queued(c)' = {} /\ Sending(c)' = {} /\ Asked(c)' = {} /\ Answered(c)' = {} /\ Read(c)' = {}
      BY <1>2, <1>5 DEF Queued, Sending, Asked, Answered, Read, Numbers
<1>9. Once(c)'
      BY <1>5, <1>8 DEF Once, NoRepeats, Apart
<1> QED BY <1>6, <1>7, <1>8, <1>9 DEF Whole, OnItsWay

\* A connection is accepted, then it is up until it is gone.
LEMMA LinkGoesOn ==
    ASSUME TypeInv, [Next]_vars, NEW c \in Conns
    PROVE  /\ link[c] = "gone" => link'[c] = "gone"
           /\ link[c] = "up" => link'[c] \in {"up", "gone"}
           /\ link[c] = "none" /\ link'[c] # "none" => Accept(c) \/ ReaderEnds(c)
<1>1. link \in [Conns -> {"none", "up", "gone"}]
      BY DEF TypeInv, TypeOK
<1>2. ASSUME NEW d \in Conns, Accept(d) \/ Disconnect(d) \/ ReaderEnds(d)
      PROVE  /\ link[c] = "gone" => link'[c] = "gone"
             /\ link[c] = "up" => link'[c] \in {"up", "gone"}
             /\ link[c] = "none" /\ link'[c] # "none" => Accept(c) \/ ReaderEnds(c)
  <2>1. CASE Accept(d)
    <3>1. link[d] = "none" /\ link' = [link EXCEPT ![d] = "up"]
          BY <2>1 DEF Accept
    <3> QED BY <1>1, <2>1, <3>1
  <2>2. CASE Disconnect(d)
    <3>1. link[d] = "up" /\ link' = [link EXCEPT ![d] = "gone"]
          BY <2>2 DEF Disconnect
    <3> QED BY <1>1, <3>1
  <2>3. CASE ReaderEnds(d)
    <3>1. link' = [link EXCEPT ![d] = "gone"]
          BY <2>3 DEF ReaderEnds
    <3> QED BY <1>1, <2>3, <3>1
  <2> QED BY <1>2, <2>1, <2>2, <2>3
<1>3. CASE link' = link
      BY <1>1, <1>3
<1>4. ASSUME NEW d \in Conns, Unity(d) \/ SenderLoop(d) \/ (ClientThread(d) /\ ~ReaderEnds(d))
      PROVE  link' = link
      BY <1>4 DEF Unity, UnityAnswers, UnityCalls, UnityExtra, UnitySends, SenderLoop, OfferQueue, GetItem,
           SendItem, SenderEnds, ClientThread, ReadMessage, TakeAsBody, TakeHeader, TakeRegistration,
           TakeOther, SendError, Resume, CallService, ClearPending
<1>5. CASE CallbackStep
      BY <1>3, <1>5, CallbackCases
<1>6. CASE UNCHANGED vars
      BY <1>3, <1>6 DEF vars
<1> QED BY <1>2, <1>3, <1>4, <1>5, <1>6 DEF Next, CallbackStep

LEMMA OneLasted ==
    ASSUME TypeInv, [Next]_vars, OneConnection'
    PROVE  /\ OneConnection
           /\ \A c \in Conns : link[c] = "up" => link'[c] = "up"
<1>1. \A c \in Conns : /\ link[c] = "gone" => link'[c] = "gone"
                       /\ link[c] = "up" => link'[c] \in {"up", "gone"}
      BY LinkGoesOn
<1>2. \A c \in Conns : link'[c] # "gone"
      BY DEF OneConnection
<1>3. \A c \in Conns : link[c] = "up" => link'[c] = "up"
      BY <1>1, <1>2
<1>4. \A c \in Conns : link[c] # "gone"
      BY <1>1, <1>2
<1>5. \A c, d \in Conns : link'[c] = "up" /\ link'[d] = "up" => c = d
      BY DEF OneConnection
<1> QED BY <1>3, <1>4, <1>5 DEF OneConnection

\* What a connection and its threads do, they do while it has been accepted.
LEMMA ActsWhenUp ==
    ASSUME GreetInv, OneConnection, NEW d \in Conns,
           Unity(d) \/ Disconnect(d) \/ ClientThread(d) \/ SenderLoop(d)
    PROVE  link[d] = "up"
<1>1. link[d] \in {"none", "up", "gone"} /\ link[d] # "gone"
      BY DEF GreetInv, TypeInv, TypeOK, OneConnection
<1>2. CASE Unity(d) \/ Disconnect(d)
      BY <1>2 DEF Unity, UnityAnswers, UnityCalls, UnityExtra, UnitySends, Disconnect
<1>3. CASE ClientThread(d)
  <2>1. reader[d] # "none"
        BY <1>3 DEF ClientThread, ReadMessage, TakeAsBody, TakeHeader, TakeRegistration, TakeOther,
             SendError, Resume, CallService, ClearPending, ReaderEnds, Goes
  <2> QED BY <1>1, <2>1 DEF GreetInv, ThreadsLinked
<1>4. CASE SenderLoop(d)
  <2>1. sender[d] # "none"
        BY <1>4 DEF SenderLoop, OfferQueue, GetItem, SendItem, SenderEnds, Moves
  <2> QED BY <1>1, <2>1 DEF GreetInv, ThreadsLinked
<1> QED BY <1>2, <1>3, <1>4

\* An answer goes to a call that sleeps, not to one that is still to be put.
LEMMA PutHasNoAnswer ==
    ASSUME StreamInv, Lasting, OneConnection, [Next]_vars, NEW k \in Calls, callback'[k] = "put"
    PROVE  result'[k] = None
<1>1. /\ callback \in [Callbacks -> {"idle", "put", "sleep", "asleep", "done", "raised"}]
      /\ result \in [Calls -> Messages \cup {None}]
      /\ Calls \subseteq Callbacks /\ TypeInv /\ WaitingTracked /\ Numbered /\ GreetInv
      BY DEF StreamInv, GreetInv, WaitInv, TypeInv, TypeOK, Callbacks
<1>2. callback[k] = "put" => result[k] = None
      BY DEF Lasting
<1>3. ASSUME NEW j \in Calls, BeginCall(j) PROVE result'[k] = None
  <2>1. result' = result /\ \E to \in {"put", "raised"} : Steps(j, "idle", to)
        BY <1>3 DEF BeginCall
  <2>2. callback[k] \in {"idle", "put"}
        BY <1>1, <2>1 DEF Steps
  <2> QED BY <1>1, <1>2, <2>1, <2>2 DEF Numbered
<1>4. ASSUME NEW c \in Conns, Resume(c) PROVE result'[k] = None
  <2>1. link[c] = "up"
        BY <1>1, <1>4, ActsWhenUp DEF ClientThread
  <2>2. Whole(c) /\ InStep(c) /\ reader[c] = "response"
    <3>1. OneAccepted
          BY <1>1 DEF OneConnection, OneAccepted, TypeInv, TypeOK
    <3> QED BY <1>4, <2>1, <3>1 DEF StreamInv, Streams, AllInStep, Lasting, Resume, Goes
  <2>3. pendingSrvId \in waiting /\ Read(c) = {pendingSrvId}
        BY <2>2, ReadWaits
  <2>4. pendingSrvId \in Unanswered /\ pendingSrvId # None
        BY <1>1, <2>2, <2>3, EndpointAssumption DEF Whole, OnItsWay, TypeInv, TypeOK
  <2>5. PICK j \in Calls : srvId[j] = pendingSrvId /\ result' = [result EXCEPT ![j] = hand[c]] /\ Notify(j)
        BY <1>4, <2>3 DEF Resume, Addressed
  <2>6. callback[j] \in {"sleep", "asleep"}
        BY <1>1, <2>4, <2>5 DEF Unanswered, WaitingTracked
  <2>7. callback[k] = "put"
        BY <1>1, <2>5 DEF Notify
  <2> QED BY <1>1, <1>2, <2>5, <2>6, <2>7
<1>5. ASSUME NEW c \in Conns, ClientThread(c), ~Resume(c) PROVE UNCHANGED <<result, callback>>
      BY <1>5 DEF ClientThread, ReadMessage, TakeAsBody, TakeHeader, TakeRegistration,
         TakeOther, SendError, CallService, ClearPending, ReaderEnds
<1>6. ASSUME NEW c \in Conns, Accept(c) \/ Unity(c) \/ Disconnect(c) \/ SenderLoop(c)
      PROVE  UNCHANGED <<result, callback>>
      BY <1>6 DEF Accept, Unity, UnityAnswers, UnityCalls, UnityExtra, UnitySends, Disconnect, SenderLoop,
         OfferQueue, GetItem, SendItem, SenderEnds
<1>7. ASSUME UNCHANGED <<result, callback>> PROVE result'[k] = None
      BY <1>2, <1>7
<1>8. ASSUME \/ \E t \in Topics : SendMessage(t)
             \/ \E j \in Calls : PutRequest(j) \/ SleepUntilResumed(j)
             \/ \E s \in serving : ServiceCallThread(s)
      PROVE  result'[k] = None
  <2>1. result' = result
        BY <1>8 DEF SendMessage, PutRequest, SleepUntilResumed, ServiceCallThread
  <2>2. \/ callback' = callback
        \/ \E j \in Callbacks, from \in {"idle", "put", "sleep"}, to \in {"put", "sleep", "asleep", "done", "raised"} :
             Steps(j, from, to) /\ (j \in Calls => to # "put")
    <3>1. \A t \in Topics : t \in Callbacks /\ t \notin Calls
          BY EndpointAssumption DEF Callbacks, Calls
    <3> QED BY <1>1, <1>8, <3>1 DEF SendMessage, PutRequest, SleepUntilResumed, ServiceCallThread
  <2>3. callback[k] = "put"
        BY <1>1, <2>2 DEF Steps
  <2> QED BY <1>2, <2>1, <2>3
<1>9. CASE UNCHANGED vars
      BY <1>7, <1>9 DEF vars
<1> QED BY <1>3, <1>4, <1>5, <1>6, <1>7, <1>8, <1>9 DEF Next, UnityCall

\* Nobody sleeps for an answer before there is a connection.
LEMMA NobodyBefore ==
    ASSUME StreamInv, Lasting, OneConnection, [Next]_vars, \A c \in Conns : link'[c] = "none"
    PROVE  Unanswered' = {}
<1>1. TypeInv /\ GreetInv
      BY DEF StreamInv, GreetInv
<1>2. \A c \in Conns : link[c] = "none"
      BY <1>1, AcceptedStays
<1>3. Unanswered = {}
      BY <1>2 DEF Lasting
<1>4. queue = None
      BY <1>1, <1>2, QueueOfOne
<1>5. ASSUME NEW c \in Conns, Accept(c) PROVE FALSE
  <2>1. link' = [link EXCEPT ![c] = "up"]
        BY <1>5 DEF Accept
  <2> QED BY <1>1, <2>1 DEF TypeInv, TypeOK
<1>6. ASSUME NEW c \in Conns, Unity(c) \/ Disconnect(c) \/ ClientThread(c) \/ SenderLoop(c) PROVE FALSE
      BY <1>1, <1>2, <1>6, ActsWhenUp
<1>7. CASE CallbackStep
  <2>1. ~Put(Other) /\ \A k \in Calls : ~Put(Request(srvId[k]))
        BY <1>4 DEF Put
  <2> QED BY <1>1, <1>3, <1>7, <2>1, CallbackCases
<1>8. CASE UNCHANGED vars
  <2>1. UNCHANGED <<srvId, result, callback>>
        BY <1>8 DEF vars, serviceVars
  <2> QED BY <1>3, <2>1, SameUnanswered
<1> QED BY <1>5, <1>6, <1>7, <1>8 DEF Next, CallbackStep

LEMMA WholeStays ==
    ASSUME StreamInv, Unused, Lasting, OneConnection, OneConnection', [Next]_vars, NEW c \in Conns, link[c] = "up",
           link'[c] = "up"
    PROVE  Whole(c)'
<1>1. TypeInv /\ GreetInv /\ Whole(c) /\ InStep(c)
  <2>1. TypeInv /\ GreetInv /\ Whole(c)
        BY DEF StreamInv, GreetInv, Lasting
  <2>2. OneAccepted
        BY <2>1 DEF OneConnection, OneAccepted, TypeInv, TypeOK
  <2> QED BY <2>1, <2>2 DEF StreamInv, Streams, AllInStep
<1>2. ASSUME NEW d \in Conns, Accept(d) PROVE FALSE
  <2>1. link[d] = "none" /\ link' = [link EXCEPT ![d] = "up"]
        BY <1>2 DEF Accept
  <2>2. link'[d] = "up" /\ d # c
        BY <1>1, <2>1 DEF TypeInv, TypeOK
  <2> QED BY <2>2 DEF OneConnection
<1>3. ASSUME NEW d \in Conns, Unity(d) \/ Disconnect(d) \/ ClientThread(d) \/ SenderLoop(d)
      PROVE  Whole(c)'
  <2>1. d = c
        BY <1>1, <1>3, ActsWhenUp DEF OneConnection
  <2>2. ~Disconnect(c)
    <3>1. Disconnect(c) => link' = [link EXCEPT ![c] = "gone"]
          BY DEF Disconnect
    <3> QED BY <1>1, <3>1 DEF TypeInv, TypeOK
  <2> QED BY <1>1, <1>3, <2>1, <2>2, UnityKeeps, ReaderKeeps, SenderKeeps
<1>4. CASE CallbackStep
      BY <1>4, CallbackKeeps
<1>5. CASE UNCHANGED vars
  <2>1. UNCHANGED <<toRos, reader, hand, pendingSrvId, pendingSrvIsRequest, queue, local, sender, held, toUnity,
                     srvId, result, callback>>
        BY <1>5 DEF vars, readerVars, senderVars, pendingVars, unityVars, serviceVars
  <2>2. InTurn(c)'
        BY <1>1, <2>1, StillInTurn DEF Whole
  <2>3. Unanswered' = Unanswered
        BY <2>1, SameUnanswered
  <2>4. Read(c)' = Read(c)
    <3>1. reader' = reader /\ hand' = hand
          BY <2>1
    <3> QED BY <3>1 DEF Read
  <2>5. Once(c)' /\ OnItsWay(c)' = OnItsWay(c)
        BY <1>1, <2>1, <2>4, QuietPut DEF Whole
  <2> QED BY <1>1, <2>2, <2>3, <2>5 DEF Whole
<1> QED BY <1>2, <1>3, <1>4, <1>5 DEF Next, CallbackStep

LEMMA LastingNext ==
    ASSUME StreamInv, Unused, Lasting, [Next]_vars
    PROVE  Lasting'
<1> SUFFICES ASSUME OneConnection'
             PROVE  /\ \A c \in Conns : link'[c] = "up" => Whole(c)'
                    /\ (\A c \in Conns : link'[c] = "none") => Unanswered' = {}
                    /\ \A k \in Calls : callback'[k] = "put" => result'[k] = None
    BY DEF Lasting
<1>1. TypeInv /\ GreetInv
      BY DEF StreamInv, GreetInv
<1>2. OneConnection /\ \A c \in Conns : link[c] = "up" => link'[c] = "up"
      BY <1>1, OneLasted
<1>3. ASSUME NEW c \in Conns, link'[c] = "up" PROVE Whole(c)'
  <2>1. CASE link[c] = "up"
        BY <1>2, <1>3, <2>1, WholeStays
  <2>2. CASE link[c] # "up"
    <3>1. link[c] = "none"
          BY <1>1, <1>2, <2>2 DEF OneConnection, TypeInv, TypeOK
    <3>2. Accept(c) \/ ReaderEnds(c)
          BY <1>1, <1>3, <3>1, LinkGoesOn
    <3>3. ~ReaderEnds(c)
          BY <1>1, <1>2, <3>1, ActsWhenUp DEF ClientThread
    <3>4. \A d \in Conns : link[d] = "none"
      <4> SUFFICES ASSUME NEW d \in Conns, link[d] # "none" PROVE FALSE
          OBVIOUS
      <4>1. link[d] = "up"
            BY <1>1, <1>2 DEF OneConnection, TypeInv, TypeOK
      <4>2. link'[d] = "up" /\ d # c
            BY <1>2, <3>1, <4>1
      <4> QED BY <1>3, <4>2 DEF OneConnection
    <3> QED BY <1>2, <3>2, <3>3, <3>4, AcceptKeeps
  <2> QED BY <2>1, <2>2
<1>4. (\A c \in Conns : link'[c] = "none") => Unanswered' = {}
      BY <1>2, NobodyBefore
<1>5. \A k \in Calls : callback'[k] = "put" => result'[k] = None
      BY <1>2, PutHasNoAnswer
<1> QED BY <1>3, <1>4, <1>5

LEMMA KeptInit == Init => KeptInv
<1>1. Init => Unused
      BY DEF Init, Unused
<1>2. Init => Lasting
      BY DEF Init, Lasting, Unanswered, Callbacks
<1> QED BY <1>1, <1>2, StreamInit DEF KeptInv

LEMMA KeptNext == KeptInv /\ [Next]_vars => KeptInv'
BY StreamNext, UnusedNext, LastingNext DEF KeptInv, StreamInv

\* Whatever the breaks of connections and the order of the threads: over a single connection
\* every answer reaches the call that asked (pending_srv_id in the loop of run), and as long
\* as the one connection lasts its reader does not end, and each request that is put and not
\* answered is in exactly one place on its way, through queue, sender, Unity and back.
THEOREM AnswersAlwaysMatch == Spec => []AnswerMatches
<1>1. KeptInv => AnswerMatches
      BY MatchesByStreams, LostByKept DEF KeptInv, AnswerMatches
<1> QED BY <1>1, KeptInit, KeptNext, PTL DEF Spec
=============================================================================
