-------------------------------- MODULE WsHub --------------------------------
(* The WebSocket hubs (pkg/websocket/hub.go, client.go) of several instances  *)
(* of the application that share one Redis channel.  Run alone touches the    *)
(* client map and the send channels; requests call BroadcastEvent, which      *)
(* queues an event, waits for its local delivery, and publishes it; every     *)
(* hub relays what it hears, the publisher's own hub included.  An event      *)
(* stands for the call that broadcasts it, a send channel for its length.     *)
EXTENDS Naturals, Sequences

CONSTANTS Instances, Clients, Events,
          InstanceOf,   \* where a client connects and an event is broadcast
          QueueSize, BufferSize

ASSUME BuffersHold == QueueSize \in Nat \ {0} /\ BufferSize \in Nat \ {0}
ASSUME Placed == InstanceOf \in [Clients \cup Events -> Instances]

VARIABLES run,      \* the Run goroutine of each hub
          queue,    \* h.broadcast: events, and whether BroadcastEvent waits
          heard,    \* messages on the subscription of each instance
          relay,    \* the message SubscribeToRedis is about to queue
          caller,   \* where each BroadcastEvent call is
          client,   \* where each connection is
          members,  \* h.clients of each hub
          buffer,   \* messages in each client's send channel
          closed,   \* clients whose send channel is closed
          offered,  \* history: how often each event was offered to each client
          missed    \* history: instances Redis did not bring each event to

vars == <<run, queue, heard, relay, caller, client, members, buffer, closed, offered, missed>>
connectionVars == <<client, members, buffer, closed>>

Init ==
  /\ run = [i \in Instances |-> "serving"] /\ queue = [i \in Instances |-> <<>>]
  /\ heard = [i \in Instances |-> <<>>] /\ relay = [i \in Instances |-> <<>>]
  /\ caller = [e \in Events |-> "ready"] /\ client = [c \in Clients |-> "away"]
  /\ members = [i \in Instances |-> {}] /\ buffer = [c \in Clients |-> 0] /\ closed = {}
  /\ offered = [c \in Clients |-> [e \in Events |-> 0]]
  /\ missed = [e \in Events |-> {}]

Up(i) == run[i] # "exited"
HasRoom(i) == Len(queue[i]) < QueueSize
Push(c) == IF buffer[c] < BufferSize THEN buffer[c] + 1 ELSE buffer[c]

----------------------------------------------------------------------------
(* A connection: HandleWS ends its Register, and ReadPump its Unregister,     *)
(* when Run takes the client; after Run has returned neither ever does.       *)
HandleWS(c) ==
  LET i == InstanceOf[c] IN
  /\ client[c] = "away" /\ run[i] = "serving"
  /\ client' = [client EXCEPT ![c] = "open"]
  /\ members' = [members EXCEPT ![i] = @ \cup {c}] /\ buffer' = [buffer EXCEPT ![c] = Push(c)]
  /\ UNCHANGED <<run, queue, heard, relay, caller, closed, offered, missed>>

(* WritePump empties the channel, or a write or ping fails.                   *)
WritePump(c) ==
  /\ client[c] = "open" /\ buffer[c] > 0
  /\ buffer' = [buffer EXCEPT ![c] = 0]
  /\ UNCHANGED <<run, queue, heard, relay, caller, client, members, closed, offered, missed>>

ReadPumpEnds(c) ==
  /\ client[c] = "open" /\ Up(InstanceOf[c])
  /\ client' = [client EXCEPT ![c] = "unregistering"]
  /\ UNCHANGED <<run, queue, heard, relay, caller, members, buffer, closed, offered, missed>>

Forget(c) == [members EXCEPT ![InstanceOf[c]] = @ \ {c}]
Unregister(c) ==
  /\ run[InstanceOf[c]] = "serving" /\ client[c] = "unregistering"
  /\ client' = [client EXCEPT ![c] = "gone"]
  /\ members' = Forget(c) /\ closed' = closed \cup {c} /\ buffer' = [buffer EXCEPT ![c] = 0]
  /\ UNCHANGED <<run, queue, heard, relay, caller, offered, missed>>

----------------------------------------------------------------------------
(* broadcastToClients: offered to every client of the map, dropped where the  *)
(* channel is full; then the caller that waits is released.                   *)
BroadcastToClients(i) ==
  LET item == Head(queue[i])
      e == item.event IN
  /\ run[i] = "serving" /\ queue[i] # <<>>
  /\ queue' = [queue EXCEPT ![i] = Tail(@)]
  /\ buffer' = [c \in Clients |-> IF c \in members[i] THEN Push(c) ELSE buffer[c]]
  /\ offered' = [c \in Clients |->
       IF c \in members[i] THEN [offered[c] EXCEPT ![e] = @ + 1] ELSE offered[c]]
  /\ caller' = IF item.waited /\ caller[e] = "waiting"
               THEN [caller EXCEPT ![e] = "publishing"] ELSE caller
  /\ UNCHANGED <<run, heard, relay, client, members, closed, missed>>

(* BroadcastEvent: the queue has room, or 100 ms pass while it is full.       *)
BroadcastEvent(e) ==
  LET i == InstanceOf[e] IN
  /\ caller[e] = "ready" /\ Up(i)
  /\ \/ /\ HasRoom(i) /\ caller' = [caller EXCEPT ![e] = "waiting"]
        /\ queue' = [queue EXCEPT ![i] = Append(@, [event |-> e, waited |-> TRUE])]
     \/ ~HasRoom(i) /\ caller' = [caller EXCEPT ![e] = "returned"] /\ UNCHANGED queue
  /\ UNCHANGED <<run, heard, relay, connectionVars, offered, missed>>

(* Variant: the wait is not ended by the timer once Run has returned. *)
StopWaitingUnlessDown(e) ==
  /\ caller[e] = "waiting" /\ run[InstanceOf[e]] = "serving"
  /\ caller' = [caller EXCEPT ![e] = "publishing"]
  /\ UNCHANGED <<run, queue, heard, relay, connectionVars, offered, missed>>
(* 5 s pass before the local delivery, also when Run has returned.            *)
StopWaiting(e) ==
  /\ caller[e] = "waiting" /\ Up(InstanceOf[e])
  /\ caller' = [caller EXCEPT ![e] = "publishing"]
  /\ UNCHANGED <<run, queue, heard, relay, connectionVars, offered, missed>>

(* Redis brings the message to the instances it reaches, or to none.          *)
Publish(e) ==
  /\ caller[e] = "publishing" /\ Up(InstanceOf[e])
  /\ caller' = [caller EXCEPT ![e] = "returned"]
  /\ \E reached \in SUBSET {i \in Instances : run[i] = "serving"} :
       /\ heard' = [i \in Instances |-> IF i \in reached THEN Append(heard[i], e) ELSE heard[i]]
       /\ missed' = [missed EXCEPT ![e] = Instances \ reached]
  /\ UNCHANGED <<run, queue, relay, connectionVars, offered>>

(* SubscribeToRedis: one message at a time, into the queue however long it is *)
(* full.                                                                      *)
Hear(i) ==
  /\ run[i] = "serving" /\ relay[i] = <<>> /\ heard[i] # <<>>
  /\ relay' = [relay EXCEPT ![i] = <<Head(heard[i])>>]
  /\ heard' = [heard EXCEPT ![i] = Tail(@)]
  /\ UNCHANGED <<run, queue, caller, connectionVars, offered, missed>>

(* Variant: what was heard is published again. *)
RelayAsEvent(i) ==
  /\ Up(i) /\ relay[i] # <<>> /\ HasRoom(i)
  /\ queue' = [queue EXCEPT ![i] = Append(@, [event |-> relay[i][1], waited |-> FALSE])]
  /\ heard' = [j \in Instances |-> Append(heard[j], relay[i][1])]
  /\ relay' = [relay EXCEPT ![i] = <<>>]
  /\ UNCHANGED <<run, caller, connectionVars, offered, missed>>
(* Variant: a message that meets a full queue is dropped. *)
BroadcastOrDrop(i) ==
  /\ Up(i) /\ relay[i] # <<>> /\ relay' = [relay EXCEPT ![i] = <<>>]
  /\ queue' = IF HasRoom(i)
              THEN [queue EXCEPT ![i] = Append(@, [event |-> relay[i][1], waited |-> FALSE])]
              ELSE queue
  /\ UNCHANGED <<run, heard, caller, connectionVars, offered, missed>>
Broadcast(i) ==
  /\ Up(i) /\ relay[i] # <<>> /\ HasRoom(i)
  /\ queue' = [queue EXCEPT ![i] = Append(@, [event |-> relay[i][1], waited |-> FALSE])]
  /\ relay' = [relay EXCEPT ![i] = <<>>]
  /\ UNCHANGED <<run, heard, caller, connectionVars, offered, missed>>

----------------------------------------------------------------------------
(* Shutdown: Run and SubscribeToRedis see that the context is cancelled and   *)
(* return while requests still run; later the process exits.                  *)
Shutdown(i) ==
  /\ run[i] = "serving" /\ run' = [run EXCEPT ![i] = "returned"]
  /\ heard' = [heard EXCEPT ![i] = <<>>] /\ relay' = [relay EXCEPT ![i] = <<>>]
  /\ UNCHANGED <<queue, caller, connectionVars, offered, missed>>

Exit(i) ==
  /\ run[i] = "returned" /\ run' = [run EXCEPT ![i] = "exited"]
  /\ queue' = [queue EXCEPT ![i] = <<>>]
  /\ caller' = [e \in Events |-> IF InstanceOf[e] = i THEN "returned" ELSE caller[e]]
  /\ client' = [c \in Clients |-> IF InstanceOf[c] = i THEN "gone" ELSE client[c]]
  /\ buffer' = [c \in Clients |-> IF InstanceOf[c] = i THEN 0 ELSE buffer[c]]
  /\ members' = [members EXCEPT ![i] = {}]
  /\ UNCHANGED <<heard, relay, closed, offered, missed>>

Next ==
  \/ \E c \in Clients : HandleWS(c) \/ WritePump(c) \/ ReadPumpEnds(c) \/ Unregister(c)
  \/ \E i \in Instances : BroadcastToClients(i) \/ Hear(i) \/ Broadcast(i) \/ Shutdown(i) \/ Exit(i)
  \/ \E e \in Events : BroadcastEvent(e) \/ StopWaiting(e) \/ Publish(e)

Spec == Init /\ [][Next]_vars
FairSpec ==
  /\ Spec
  /\ \A i \in Instances : WF_vars(BroadcastToClients(i)) /\ WF_vars(Hear(i)) /\ WF_vars(Broadcast(i))
  /\ \A e \in Events : WF_vars(StopWaiting(e)) /\ WF_vars(Publish(e))

----------------------------------------------------------------------------
(* The hub never sends to a channel it has closed, which would end the        *)
(* process, and no event comes to a client more often than its routes allow:  *)
(* locally and once through Redis.                                            *)
DeliveryIsBounded ==
  /\ \A i \in Instances : members[i] \cap closed = {}
  /\ \A c \in Clients, e \in Events :
       offered[c][e] <= IF InstanceOf[c] = InstanceOf[e] THEN 2 ELSE 1

(* An event that BroadcastEvent could queue is offered to every client, on    *)
(* every instance, unless its connection ends, its instance or the publishing *)
(* process goes, or Redis loses the message.  That Run of the publishing      *)
(* instance has returned does not stop it.                                    *)
Excused(c, e) ==
  \/ client[c] # "open" \/ run[InstanceOf[c]] # "serving"
  \/ ~Up(InstanceOf[e]) \/ InstanceOf[c] \in missed[e]
QueuedReachesAll ==
  \A c \in Clients, e \in Events :
    (caller[e] = "waiting" /\ client[c] = "open") ~> (offered[c][e] > 0 \/ Excused(c, e))

(* No event is dropped between its call and its clients: while it is still to *)
(* be published, on the subscription of the client's instance, in the hands   *)
(* of SubscribeToRedis or queued, it stays in one of these places until the   *)
(* very step that offers it to the client, however full the queue is.         *)
OnItsWay(c, e) ==
  LET i == InstanceOf[c] IN
  \/ caller[e] \in {"waiting", "publishing"}
  \/ \E n \in DOMAIN heard[i] : heard[i][n] = e
  \/ relay[i] = <<e>>
  \/ \E n \in DOMAIN queue[i] : queue[i][n].event = e
NothingIsDropped ==
  [][\A c \in Clients, e \in Events :
       (OnItsWay(c, e) /\ ~Excused(c, e)) =>
         OnItsWay(c, e)' \/ offered'[c][e] > offered[c][e] \/ Excused(c, e)']_vars
=============================================================================
