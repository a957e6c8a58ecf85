---------------------------- MODULE TcpEndpoint ----------------------------
(***************************************************************************)
(* The endpoint that joins ROS to a Unity application over TCP             *)
(* (ROS-TCP-Endpoint: server.py, client.py, tcp_sender.py, ...).           *)
(*                                                                         *)
(* Every connection has two threads, one that reads what Unity sends       *)
(* (ClientThread.run) and one that sends what is in a queue of its own     *)
(* (UnityTcpSender.sender_loop); the queue of the sender that began last   *)
(* is the one everybody puts into.  Subscriptions and calls of services    *)
(* that Unity implements are callbacks on the threads of ROS's executor;   *)
(* a service that Unity calls gets a thread of its own.  A step of the     *)
(* model ends wherever another thread may run and see the difference: a    *)
(* test of the shared queue and the put that relies on it are two steps.   *)
(*                                                                         *)
(* Of a message the model keeps what decides how it is handled.  A service *)
(* request or answer comes from Unity as two messages, a header with the   *)
(* call's number and a body.                                               *)
(***************************************************************************)
EXTENDS Integers, Sequences, FiniteSets

CONSTANTS
    MaxConns,       \* bound: connections Unity opens
    MaxCalls,       \* bound: calls of a service that Unity implements
    Topics,         \* messages on topics that Unity subscribes to
    Requests,       \* numbers of Unity's calls of ROS services
    Threads,        \* threads of the executor
    MaxExtra,       \* bound: how often Unity sends something unasked
    None

\* Connections are numbered as they are accepted (sender_id), calls as they begin.
Conns == 1..MaxConns
Calls == 1..MaxCalls

ASSUME EndpointAssumption ==
    /\ MaxConns \in Nat /\ MaxCalls \in Nat /\ Threads \in Nat \ {0} /\ MaxExtra \in Nat
    /\ None \notin Nat \cup Requests
    /\ Topics \cap Nat = {} /\ Requests \cap Nat = {}

VARIABLES
    link,               \* the connection: "none", "up", "gone"
    toRos,              \* what Unity has sent and the reader has not read
    toUnity,            \* of what Unity has received: the handshake, and requests it has
                        \* not answered
    extras,             \* how often Unity has sent something nobody asked it for
    unasked,            \* the requests Unity has not made yet
    reader,             \* where the client thread is
    hand,               \* the message it handles
    halt,               \* halt_event of the connection
    sender,             \* where the sender thread is
    held,               \* the item it sends
    local,              \* its local_queue
    queue,              \* the connection whose queue self.queue is, or None
    pendingSrvId, pendingSrvIsRequest,
    nextSrvId,
    waiting,            \* the keys of services_waiting
    registered,         \* which of "topic", "service" Unity has registered
    callback,           \* where each callback is
    srvId, result,      \* of a call: its number, and the answer it is given
    serving             \* threads that call ROS services: number, and where they are

unityVars    == <<toUnity, extras, unasked>>
readerVars   == <<reader, hand>>
senderVars   == <<sender, held>>
pendingVars  == <<pendingSrvId, pendingSrvIsRequest>>
serviceVars  == <<nextSrvId, waiting, srvId>>
vars == <<link, toRos, unityVars, readerVars, halt, senderVars, local, queue, pendingVars,
          serviceVars, registered, callback, result, serving>>

-----------------------------------------------------------------------------
Callbacks == Calls \cup Topics

\* Items of a sender's queue: a request carries the number of a call.
Handshake  == [kind |-> "handshake", id |-> None]
Other      == [kind |-> "other",     id |-> None]   \* needs no answer
Request(i) == [kind |-> "request",   id |-> i]
Items      == [kind : {"handshake", "other"}, id : {None}] \cup [kind : {"request"}, id : Nat]

\* Messages from Unity: headers and bodies of calls, and the others.
Header(k, i) == [kind |-> k, id |-> i]
Answer(i)    == [kind |-> "answer", id |-> i]
Body(r)      == [kind |-> "body",   id |-> r]
Unknown      == [kind |-> "unknown", id |-> None]
Extras       == [kind : {"subscribe", "unity_service", "publish", "unknown", "malformed"},
                 id : {None}]
Messages     == [kind : {"response", "answer"}, id : Nat] \cup
                [kind : {"request", "body"}, id : Requests] \cup Extras

\* No item and no message is taken for the absence of one.
ASSUME NoneAssumption == None \notin Items \cup Messages

Init ==
    /\ link = [c \in Conns |-> "none"]
    /\ toRos = [c \in Conns |-> <<>>] /\ toUnity = [c \in Conns |-> {}]
    /\ extras = 0 /\ unasked = Requests
    /\ reader = [c \in Conns |-> "none"] /\ hand = [c \in Conns |-> None]
    /\ halt = [c \in Conns |-> FALSE]
    /\ sender = [c \in Conns |-> "none"] /\ held = [c \in Conns |-> None]
    /\ local = [c \in Conns |-> <<>>]
    /\ queue = None
    /\ pendingSrvId = None /\ pendingSrvIsRequest = FALSE
    /\ nextSrvId = 1001 /\ waiting = {}
    /\ registered = {}
    /\ callback = [k \in Callbacks |-> "idle"]
    /\ srvId = [k \in Calls |-> None] /\ result = [k \in Calls |-> None]
    /\ serving = {}

-----------------------------------------------------------------------------
(***************************************************************************)
(* Unity, and the connection.                                              *)
(***************************************************************************)

\* listen_loop accepts a connection; its client thread starts the sender thread.
Accept(c) ==
    /\ link[c] = "none" /\ \A d \in 1..(c - 1) : link[d] # "none"
    /\ link' = [link EXCEPT ![c] = "up"]
    /\ reader' = [reader EXCEPT ![c] = "read"]
    /\ sender' = [sender EXCEPT ![c] = "start"]
    /\ UNCHANGED <<toRos, unityVars, hand, halt, held, local, queue, pendingVars, serviceVars,
                   registered, callback, result, serving>>

UnitySends(c, msgs) ==
    /\ link[c] = "up"
    /\ toRos' = [toRos EXCEPT ![c] = @ \o msgs]
    /\ UNCHANGED <<link, readerVars, halt, senderVars, local, queue, pendingVars, serviceVars,
                   registered, callback, result, serving>>

UnityAnswers(c, i) ==
    /\ Request(i) \in toUnity[c]
    /\ toUnity' = [toUnity EXCEPT ![c] = @ \ {Request(i)}]
    /\ UnitySends(c, <<Header("response", i), Answer(i)>>)
    /\ UNCHANGED <<extras, unasked>>

\* A call of a ROS service, one the endpoint knows or another.
UnityCalls(c, r) ==
    /\ r \in unasked /\ extras < MaxExtra
    /\ unasked' = unasked \ {r} /\ extras' = extras + 1
    /\ \E body \in {Body(r), Unknown} : UnitySends(c, <<Header("request", r), body>>)
    /\ UNCHANGED toUnity

UnityExtra(c, m) ==
    /\ extras < MaxExtra
    /\ extras' = extras + 1
    /\ UnitySends(c, <<m>>)
    /\ UNCHANGED <<toUnity, unasked>>

\* The connection breaks; what Unity has sent and nobody has read may be lost, and what
\* Unity has not answered it never will.
Disconnect(c) ==
    /\ link[c] = "up"
    /\ link' = [link EXCEPT ![c] = "gone"]
    /\ toRos' = [toRos EXCEPT ![c] = <<>>] \/ UNCHANGED toRos
    /\ toUnity' = [toUnity EXCEPT ![c] = {}]
    /\ UNCHANGED <<extras, unasked, readerVars, halt, senderVars, local, queue, pendingVars,
                   serviceVars, registered, callback, result, serving>>

-----------------------------------------------------------------------------
(***************************************************************************)
(* The client thread.                                                      *)
(***************************************************************************)
\* The message is kept while it is needed.
Goes(c, from, to) ==
    /\ reader[c] = from
    /\ reader' = [reader EXCEPT ![c] = to]
    /\ hand' = [hand EXCEPT ![c] =
                   IF to = "handle" THEN Head(toRos[c])
                   ELSE IF to \in {"body", "header", "flag", "request", "response"} THEN @
                   ELSE None]

\* Something is put into self.queue, whatever that is by now: without one, an exception.
Put(item) ==
    /\ queue # None
    /\ local' = [local EXCEPT ![queue] = Append(@, item)]

\* The loop of run and read_message: the next message, or the end when the event is set or
\* there will be no message.  The event is tested when the message is there; a thread that
\* tests it earlier and waits differs in nothing that others see.
ReadMessage(c) ==
    /\ \/ /\ ~halt[c] /\ toRos[c] # <<>>
          /\ Goes(c, "read", "handle")
          /\ toRos' = [toRos EXCEPT ![c] = Tail(@)]
       \/ /\ Goes(c, "read", "finally")
          /\ halt[c] \/ (toRos[c] = <<>> /\ link[c] = "gone")
          /\ UNCHANGED toRos
    /\ UNCHANGED <<link, unityVars, halt, senderVars, local, queue, pendingVars, serviceVars,
                   registered, callback, result, serving>>

\* After a header, the next message is the body of a call, whatever it is: first the number
\* is tested, then the flag.
TakeAsBody(c) ==
    /\ \/ Goes(c, "handle", "body") /\ pendingSrvId # None
       \/ Goes(c, "body", IF pendingSrvIsRequest THEN "request" ELSE "response")
    /\ UNCHANGED <<link, toRos, unityVars, halt, senderVars, local, queue, pendingVars,
                   serviceVars, registered, callback, result, serving>>

\* SysCommands.response and SysCommands.request.  The thread has found no number pending and
\* sets first the number, then the flag, whatever another thread has set in between.
TakeHeader(c) ==
    /\ \/ /\ Goes(c, "handle", "header")
          /\ pendingSrvId = None /\ hand[c].kind \in {"response", "request"}
          /\ UNCHANGED pendingVars
       \/ /\ Goes(c, "header", "flag")
          /\ pendingSrvId' = hand[c].id
          /\ UNCHANGED pendingSrvIsRequest
       \/ /\ Goes(c, "flag", "read")
          /\ pendingSrvIsRequest' = (hand[c].kind = "request")
          /\ UNCHANGED pendingSrvId
    /\ UNCHANGED <<link, toRos, unityVars, halt, senderVars, local, queue, serviceVars,
                   registered, callback, result, serving>>

\* SysCommands.subscribe and SysCommands.unity_service.
TakeRegistration(c) ==
    /\ Goes(c, "handle", "read")
    /\ pendingSrvId = None /\ hand[c].kind \in {"subscribe", "unity_service"}
    /\ registered' = registered \cup {IF hand[c].kind = "subscribe" THEN "topic" ELSE "service"}
    /\ UNCHANGED <<link, toRos, unityVars, halt, senderVars, local, queue, pendingVars,
                   serviceVars, callback, result, serving>>

\* Keep-alives and messages for known topics change nothing here; for what is addressed to
\* nobody, or cannot be registered, an error is sent back, if there is a queue.
TakeOther(c) ==
    /\ Goes(c, "handle", IF hand[c].kind = "publish" \/ queue = None THEN "read" ELSE "error")
    /\ pendingSrvId = None
    /\ hand[c].kind \in {"publish", "unknown", "answer", "body"}
    /\ UNCHANGED <<link, toRos, unityVars, halt, senderVars, local, queue, pendingVars,
                   serviceVars, registered, callback, result, serving>>

\* send_unity_error: from the main branch, or in place of a service call.
SendError(c) ==
    /\ \/ Put(Other) /\ (Goes(c, "error", "read") \/ Goes(c, "refuse", "clear"))
       \/ /\ queue = None /\ UNCHANGED local
          /\ Goes(c, "error", "finally") \/ Goes(c, "refuse", "finally")
    /\ UNCHANGED <<link, toRos, unityVars, halt, senderVars, queue, pendingVars,
                   serviceVars, registered, callback, result, serving>>

\* Slips: the answer goes to any call that waits, or nobody is notified.
AnyWaits(k)    == srvId[k] \in waiting
NoneWakes(k)   == UNCHANGED callback

Addressed(k)   == srvId[k] = pendingSrvId
Notify(k)      == callback' = IF callback[k] = "asleep" THEN [callback EXCEPT ![k] = "done"]
                              ELSE callback

\* send_unity_service_response and resume_with_result.  Nobody waits under that number: an
\* exception.  A call that is not asleep yet does not hear the notification; one that is has
\* nothing more to do with others.
Resume(c) ==
    /\ \/ /\ Goes(c, "response", "finally")
          /\ pendingSrvId \notin waiting
          /\ UNCHANGED <<waiting, result, callback>>
       \/ /\ Goes(c, "response", "clear")
          /\ pendingSrvId \in waiting
          /\ waiting' = waiting \ {pendingSrvId}
          /\ \E k \in Calls :
               /\ Addressed(k)
               /\ result' = [result EXCEPT ![k] = hand[c]]
               /\ Notify(k)
    /\ UNCHANGED <<link, toRos, unityVars, halt, senderVars, local, queue, pendingVars,
                   nextSrvId, srvId, registered, serving>>

\* send_ros_service_request: a thread for the call, or an error for an unknown service.
CallService(c) ==
    /\ \/ /\ Goes(c, "request", "clear")
          /\ hand[c].kind = "body"
          /\ serving' = serving \cup {[id |-> pendingSrvId, at |-> "call"]}
       \/ /\ Goes(c, "request", IF queue = None THEN "clear" ELSE "refuse")
          /\ hand[c].kind # "body"
          /\ UNCHANGED serving
    /\ UNCHANGED <<link, toRos, unityVars, halt, senderVars, local, queue, pendingVars,
                   serviceVars, registered, callback, result>>

ClearPending(c) ==
    /\ Goes(c, "clear", "read")
    /\ pendingSrvId' = None
    /\ UNCHANGED <<link, toRos, unityVars, halt, senderVars, local, queue,
                   pendingSrvIsRequest, serviceVars, registered, callback, result, serving>>

\* The finally clause of run.  A system command nobody knows, or one that cannot be decoded,
\* raises what no clause catches: the thread does nothing else before it ends.
ReaderEnds(c) ==
    /\ \/ Goes(c, "finally", "done")
       \/ /\ Goes(c, "handle", "done")
          /\ pendingSrvId = None /\ hand[c].kind = "malformed"
    /\ halt' = [halt EXCEPT ![c] = TRUE]
    /\ link' = [link EXCEPT ![c] = "gone"]
    /\ toRos' = [toRos EXCEPT ![c] = <<>>]
    /\ UNCHANGED <<unityVars, senderVars, local, queue, pendingVars, serviceVars,
                   registered, callback, result, serving>>

-----------------------------------------------------------------------------
(***************************************************************************)
(* The sender thread.                                                      *)
(***************************************************************************)
Moves(c, from, to) == sender[c] = from /\ sender' = [sender EXCEPT ![c] = to]

\* Slip: the queue is on offer before the handshake is in it.
OfferQueueEarly(c) ==
    /\ \/ /\ queue # c /\ sender[c] = "start"
          /\ queue' = c
          /\ UNCHANGED <<sender, local>>
       \/ /\ queue = c /\ Moves(c, "start", "get")
          /\ local' = [local EXCEPT ![c] = Append(@, Handshake)]
          /\ UNCHANGED queue
    /\ UNCHANGED <<link, toRos, unityVars, readerVars, halt, held, pendingVars, serviceVars,
                   registered, callback, result, serving>>

\* The handshake is in the new queue before others can put into it.
OfferQueue(c) ==
    /\ Moves(c, "start", "get")
    /\ local' = [local EXCEPT ![c] = <<Handshake>>]
    /\ queue' = c
    /\ UNCHANGED <<link, toRos, unityVars, readerVars, halt, held, pendingVars, serviceVars,
                   registered, callback, result, serving>>

\* Slip: get without a time-out.
GetItemOrWait(c) ==
    /\ Moves(c, "get", "send")
    /\ ~halt[c] /\ local[c] # <<>>
    /\ held' = [held EXCEPT ![c] = Head(local[c])]
    /\ local' = [local EXCEPT ![c] = Tail(@)]
    /\ UNCHANGED <<link, toRos, unityVars, readerVars, halt, queue, pendingVars, serviceVars,
                   registered, callback, result, serving>>

\* local_queue.get, given up again and again to test the event.
GetItem(c) ==
    /\ \/ /\ Moves(c, "get", "send")
          /\ ~halt[c] /\ local[c] # <<>>
          /\ held' = [held EXCEPT ![c] = Head(local[c])]
          /\ local' = [local EXCEPT ![c] = Tail(@)]
       \/ /\ Moves(c, "get", "finally")
          /\ halt[c]
          /\ UNCHANGED <<held, local>>
    /\ UNCHANGED <<link, toRos, unityVars, readerVars, halt, queue, pendingVars, serviceVars,
                   registered, callback, result, serving>>

\* sendall: on a broken connection the item is lost, at once or with an exception.
SendItem(c) ==
    /\ \/ /\ Moves(c, "send", "get")
          /\ toUnity' = IF link[c] = "up" /\ held[c].kind \in {"handshake", "request"}
                        THEN [toUnity EXCEPT ![c] = @ \cup {held[c]}] ELSE toUnity
       \/ /\ Moves(c, "send", "finally")
          /\ link[c] = "gone"
          /\ UNCHANGED toUnity
    /\ held' = [held EXCEPT ![c] = None]
    /\ UNCHANGED <<link, toRos, extras, unasked, readerVars, halt, local, queue, pendingVars,
                   serviceVars, registered, callback, result, serving>>

\* The finally clause of sender_loop: the event, then the queue if it is still this one.
SenderEnds(c) ==
    /\ \/ /\ Moves(c, "finally", "release")
          /\ halt' = [halt EXCEPT ![c] = TRUE]
          /\ UNCHANGED <<queue, local>>
       \/ /\ Moves(c, "release", "done")
          /\ queue' = IF queue = c THEN None ELSE queue
          /\ local' = [local EXCEPT ![c] = <<>>]
          /\ UNCHANGED halt
    /\ UNCHANGED <<link, toRos, unityVars, readerVars, held, pendingVars, serviceVars,
                   registered, callback, result, serving>>

-----------------------------------------------------------------------------
(***************************************************************************)
(* Callbacks on the executor's threads.                                    *)
(***************************************************************************)
Steps(k, from, to) == callback[k] = from /\ callback' = [callback EXCEPT ![k] = to]

\* An exception in a callback ends the executor's loop.
Free ==
    /\ Cardinality({k \in Callbacks : callback[k] \notin {"idle", "done", "raised"}}) < Threads
    /\ \A k \in Callbacks : callback[k] # "raised"

\* RosSubscriber.send, send_unity_message: the test for a queue, then the put.
SendMessage(t) ==
    /\ \/ /\ "topic" \in registered /\ Free
          /\ Steps(t, "idle", IF queue = None THEN "done" ELSE "put")
          /\ UNCHANGED local
       \/ Put(Other) /\ Steps(t, "put", "done")
       \/ queue = None /\ Steps(t, "put", "raised") /\ UNCHANGED local
    /\ UNCHANGED <<link, toRos, unityVars, readerVars, halt, senderVars, queue, pendingVars,
                   serviceVars, registered, result, serving>>

\* Slips: the same number again, or the call listed under a number it does not have yet.
SameSrvId == UNCHANGED nextSrvId
ListedEarly(k) == waiting' = waiting \cup {srvId[k]}

NewSrvId  == nextSrvId' = nextSrvId + 1
Listed(k) == waiting' = waiting \cup {nextSrvId}

\* UnityService.send, send_unity_service_request: without a queue None is returned, which is
\* no response, an exception in the executor; with one, under srv_lock, the call gets a
\* number and is among those that wait.
BeginCall(k) ==
    /\ "service" \in registered /\ Free
    /\ \A j \in 1..(k - 1) : callback[j] # "idle"
    /\ \/ /\ queue = None
          /\ Steps(k, "idle", "raised")
          /\ UNCHANGED serviceVars
       \/ /\ queue # None
          /\ Steps(k, "idle", "put")
          /\ srvId' = [srvId EXCEPT ![k] = nextSrvId]
          /\ NewSrvId
          /\ Listed(k)
    /\ UNCHANGED <<link, toRos, unityVars, readerVars, halt, senderVars, local, queue,
                   pendingVars, registered, result, serving>>

PutRequest(k) ==
    /\ \/ Put(Request(srvId[k])) /\ Steps(k, "put", "sleep")
       \/ queue = None /\ Steps(k, "put", "raised") /\ UNCHANGED local
    /\ UNCHANGED <<link, toRos, unityVars, readerVars, halt, senderVars, queue, pendingVars,
                   serviceVars, registered, result, serving>>

\* sleep_until_resumed, without a look at whether the answer is there already.
SleepUntilResumed(k) ==
    /\ Steps(k, "sleep", "asleep")
    /\ UNCHANGED <<link, toRos, unityVars, readerVars, halt, senderVars, local, queue,
                   pendingVars, serviceVars, registered, result, serving>>

\* service_call_thread: the ROS service answers or does not, and the response or an error
\* is put into the queue, if there is one.
ServiceCallThread(s) ==
    /\ serving' = (serving \ {s}) \cup
         IF s.at = "call" /\ queue # None THEN {[s EXCEPT !.at = "put"]} ELSE {}
    /\ IF s.at = "put" /\ queue # None THEN Put(Other)
       ELSE UNCHANGED local
    /\ UNCHANGED <<link, toRos, unityVars, readerVars, halt, senderVars, queue, pendingVars,
                   serviceVars, registered, callback, result>>

-----------------------------------------------------------------------------
ClientThread(c) ==
    \/ ReadMessage(c) \/ TakeAsBody(c) \/ TakeHeader(c) \/ TakeRegistration(c) \/ TakeOther(c)
    \/ SendError(c) \/ Resume(c) \/ CallService(c) \/ ClearPending(c) \/ ReaderEnds(c)

SenderLoop(c) ==
    OfferQueue(c) \/ GetItem(c) \/ SendItem(c) \/ SenderEnds(c)

UnityCall(k) ==
    BeginCall(k) \/ PutRequest(k) \/ SleepUntilResumed(k)

Unity(c) ==
    \/ \E k \in Calls : UnityAnswers(c, srvId[k])
    \/ \E r \in Requests : UnityCalls(c, r)
    \/ \E m \in Extras : UnityExtra(c, m)

Next ==
    \/ \E c \in Conns : Accept(c) \/ Unity(c) \/ Disconnect(c) \/ ClientThread(c) \/ SenderLoop(c)
    \/ \E t \in Topics : SendMessage(t)
    \/ \E k \in Calls : UnityCall(k)
    \/ \E s \in serving : ServiceCallThread(s)

Spec == Init /\ [][Next]_vars

\* Every thread runs, and Unity answers what it has been asked.
FairSpec ==
    /\ Spec
    /\ \A c \in Conns : WF_vars(ClientThread(c)) /\ WF_vars(SenderLoop(c))
    /\ \A c \in Conns : WF_vars(\E k \in Calls : UnityAnswers(c, srvId[k]))
    /\ \A k \in Calls : WF_vars(UnityCall(k))

-----------------------------------------------------------------------------
(***************************************************************************)
(* Properties.                                                             *)
(***************************************************************************)
\* The types of the endpoint's fields, its threads and its queues.
TypeOK ==
    /\ link \in [Conns -> {"none", "up", "gone"}]
    /\ toRos \in [Conns -> Seq(Messages)] /\ toUnity \in [Conns -> SUBSET Items]
    /\ extras \in 0..MaxExtra /\ unasked \in SUBSET Requests
    /\ reader \in [Conns -> {"none", "read", "handle", "body", "header", "flag", "request",
                             "response", "error", "refuse", "clear", "finally", "done"}]
    /\ hand \in [Conns -> Messages \cup {None}]
    /\ halt \in [Conns -> BOOLEAN]
    /\ sender \in [Conns -> {"none", "start", "get", "send", "finally", "release", "done"}]
    /\ held \in [Conns -> Items \cup {None}] /\ local \in [Conns -> Seq(Items)]
    /\ queue \in Conns \cup {None}
    /\ pendingSrvId \in Nat \cup Requests \cup {None} /\ pendingSrvIsRequest \in BOOLEAN
    /\ nextSrvId \in Nat /\ waiting \in SUBSET Nat
    /\ registered \in SUBSET {"topic", "service"}
    /\ callback \in [Callbacks -> {"idle", "put", "sleep", "asleep", "done", "raised"}]
    /\ srvId \in [Calls -> Nat \cup {None}] /\ result \in [Calls -> Messages \cup {None}]
    /\ serving \subseteq [id : Nat \cup Requests \cup {None}, at : {"call", "put"}]

\* Whoever takes part in the connection hears the handshake first: whatever is put into a
\* new connection's queue stands behind it, and a queue on offer has a sender that will
\* either drain it or take it off offer.
HandshakeFirst ==
    /\ \A c \in Conns :
         toUnity[c] # {} \/ sender[c] \in {"get", "send"} =>
            \/ Handshake \in toUnity[c] \/ held[c] = Handshake
            \/ local[c] # <<>> /\ Head(local[c]) = Handshake
            \/ link[c] = "gone"
    /\ queue # None => sender[queue] \notin {"none", "start", "done"}

\* services_waiting holds exactly the calls that have a number and no answer, and no two
\* calls have one number: no answer is lost in the table, or can reach two calls.
WaitingTracked ==
    /\ waiting = {srvId[k] : k \in {j \in Calls : srvId[j] # None /\ result[j] = None}}
    /\ \A k, j \in Calls : srvId[k] # None /\ srvId[k] = srvId[j] => k = j

\* Unity has one connection, and it lasts.
OneConnection ==
    /\ \A c \in Conns : link[c] # "gone"
    /\ \A c, d \in Conns : link[c] = "up" /\ link[d] = "up" => c = d

\* The numbers of calls in a queue or a stream, in what has this kind.
Numbers(s, k) == {s[i].id : i \in {j \in 1..Len(s) : s[j].kind = k}}

\* The way of a call's number: the queue, the sender, Unity, the stream back, the reader.
Queued(c)   == Numbers(local[c], "request")
Sending(c)  == IF sender[c] = "send" /\ held[c].kind = "request" THEN {held[c].id} ELSE {}
Asked(c)    == {item.id : item \in {i \in toUnity[c] : i.kind = "request"}}
Answered(c) == Numbers(toRos[c], "answer")
Read(c)     == IF reader[c] \in {"handle", "body", "response"} /\ hand[c].kind = "answer"
               THEN {hand[c].id} ELSE {}
OnItsWay(c) == Queued(c) \cup Sending(c) \cup Asked(c) \cup Answered(c) \cup Read(c)

Unanswered ==
    {srvId[k] : k \in {j \in Calls : callback[j] \in {"sleep", "asleep"} /\ result[j] = None}}

\* While the one connection lasts, its threads do, and no request and no answer is lost: what
\* is on its way are the calls that are put and not answered, and no others.
NothingLost ==
    OneConnection =>
      /\ \A c \in Conns :
           link[c] = "up" => reader[c] \notin {"finally", "done"} /\ OnItsWay(c) = Unanswered
      /\ (\A c \in Conns : link[c] = "none") => Unanswered = {}

\* Over a single connection every call gets the answer to its own request: the header a
\* body follows is never another call's; and it gets it, as long as the connection lasts.
OwnAnswers ==
    Cardinality({c \in Conns : link[c] # "none"}) <= 1 =>
        \A k \in Calls : result[k] # None => result[k] = Answer(srvId[k])

AnswerMatches == OwnAnswers /\ NothingLost

\* A connection that breaks takes its threads along, and its queue is no longer used.
ThreadsEnd ==
    \A c \in Conns :
        link[c] = "gone" ~> reader[c] = "done" /\ sender[c] = "done" /\ queue # c

\* Over a single connection that lasts, a call that sleeps before its answer is there is
\* answered and wakes up.
SleepEnds ==
    \A k \in Calls :
        callback[k] = "asleep" /\ result[k] = None ~> callback[k] # "asleep" \/ ~OneConnection

\* "It won't break anything if we sleep now while waiting for the response": a call that has
\* its answer wakes up.
SleepIsHarmless ==
    \A k \in Calls : callback[k] = "asleep" /\ result[k] # None ~> callback[k] # "asleep"
=============================================================================
