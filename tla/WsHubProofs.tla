---------------------------- MODULE WsHubProofs ----------------------------
(* For any number of instances, clients and events and any size of the       *)
(* queues: no hub sends to a channel it has closed, and an event reaches a   *)
(* client at most once over each of its routes.                              *)
EXTENDS WsHub, TLAPS

Items(s) == {s[n] : n \in DOMAIN s}
Distinct(s) == \A m, n \in DOMAIN s : s[m] = s[n] => m = n

Item == [event : Events, waited : BOOLEAN]
Local(e) == [event |-> e, waited |-> TRUE]
Relayed(e) == [event |-> e, waited |-> FALSE]

HubTypeOK ==
  /\ run \in [Instances -> {"serving", "returned", "exited"}]
  /\ queue \in [Instances -> Seq(Item)] /\ heard \in [Instances -> Seq(Events)]
  /\ relay \in [Instances -> {<<>>} \cup {<<e>> : e \in Events}]
  /\ caller \in [Events -> {"ready", "waiting", "publishing", "returned"}]
  /\ client \in [Clients -> {"away", "open", "unregistering", "gone"}]
  /\ members \in [Instances -> SUBSET Clients] /\ closed \subseteq Clients
  /\ buffer \in [Clients -> 0..BufferSize]
  /\ offered \in [Clients -> [Events -> Nat]]

(* Only Run changes the map, and it closes a channel when it drops the       *)
(* client: a client of the map is connected, a closed one is gone.           *)
MembersOK ==
  /\ \A i \in Instances : \A c \in members[i] :
       InstanceOf[c] = i /\ client[c] \in {"open", "unregistering"}
  /\ \A c \in closed : client[c] = "gone"

(* The route through Redis: an event that an instance is still to offer is   *)
(* heard, about to be queued, or queued, once and in one of these places.    *)
InFlight(i, e) ==
  \/ e \in Items(heard[i])
  \/ relay[i] = <<e>>
  \/ Relayed(e) \in Items(queue[i])

RoutesOK(i) ==
  /\ Distinct(queue[i]) /\ Distinct(heard[i])
  /\ \A e \in Items(heard[i]) : relay[i] # <<e>> /\ Relayed(e) \notin Items(queue[i])
  /\ \A e \in Events : relay[i] = <<e>> => Relayed(e) \notin Items(queue[i])
  /\ \A e \in Events : InFlight(i, e) => caller[e] = "returned"
  /\ \A e \in Events :
       Local(e) \in Items(queue[i]) => InstanceOf[e] = i /\ caller[e] # "ready"

(* A route is open to a client until its offer has been made or cannot come. *)
LocalOpen(c, e) ==
  /\ InstanceOf[c] = InstanceOf[e]
  /\ caller[e] = "ready" \/ Local(e) \in Items(queue[InstanceOf[c]])
RelayOpen(c, e) == caller[e] # "returned" \/ InFlight(InstanceOf[c], e)

One(route) == IF route THEN 1 ELSE 0
Routes(c, e) == IF InstanceOf[c] = InstanceOf[e] THEN 2 ELSE 1

(* The offers made and the routes still open are together no more than the   *)
(* routes there are.                                                         *)
BudgetOK(c, e) ==
  offered[c][e] + One(LocalOpen(c, e)) + One(RelayOpen(c, e)) <= Routes(c, e)

HubInv ==
  /\ HubTypeOK /\ MembersOK
  /\ \A i \in Instances : RoutesOK(i)
  /\ \A c \in Clients, e \in Events : BudgetOK(c, e)

-----------------------------------------------------------------------------
(* Queues without repetitions. *)
LEMMA Bounds == BufferSize \in Nat \ {0} /\ QueueSize \in Nat \ {0}
BY BuffersHold

LEMMA Homes ==
  /\ \A c \in Clients : InstanceOf[c] \in Instances
  /\ \A e \in Events : InstanceOf[e] \in Instances
BY Placed

LEMMA AppendItems ==
  ASSUME NEW S, NEW s \in Seq(S), NEW x \in S, Distinct(s), x \notin Items(s)
  PROVE  /\ Append(s, x) \in Seq(S) /\ Items(Append(s, x)) = Items(s) \cup {x}
         /\ Distinct(Append(s, x))
<1>1. /\ Append(s, x) \in Seq(S) /\ Len(s) \in Nat
      /\ DOMAIN Append(s, x) = 1 .. Len(s) + 1 /\ DOMAIN s = 1 .. Len(s)
      /\ \A i \in 1 .. Len(s) : Append(s, x)[i] = s[i]
      /\ Append(s, x)[Len(s) + 1] = x
  OBVIOUS
<1>2. Items(Append(s, x)) = Items(s) \cup {x}
  BY <1>1 DEF Items
<1>3. ASSUME NEW m \in 1 .. Len(s) + 1, NEW n \in 1 .. Len(s) + 1,
             Append(s, x)[m] = Append(s, x)[n]
      PROVE  m = n
  <2>1. CASE m \in 1 .. Len(s) /\ n \in 1 .. Len(s)
    BY <1>1, <1>3, <2>1 DEF Distinct
  <2>2. CASE m = Len(s) + 1 /\ n \in 1 .. Len(s)
    BY <1>1, <1>3, <2>2 DEF Items
  <2>3. CASE n = Len(s) + 1 /\ m \in 1 .. Len(s)
    BY <1>1, <1>3, <2>3 DEF Items
  <2> QED
    BY <1>1, <2>1, <2>2, <2>3
<1> QED
  BY <1>1, <1>2, <1>3 DEF Distinct

LEMMA TailItems ==
  ASSUME NEW S, NEW s \in Seq(S), s # <<>>, Distinct(s)
  PROVE  /\ Tail(s) \in Seq(S) /\ Head(s) \in S
         /\ Items(s) = {Head(s)} \cup Items(Tail(s)) /\ Head(s) \notin Items(Tail(s))
         /\ Distinct(Tail(s))
<1>1. /\ Head(s) \in S /\ Tail(s) \in Seq(S) /\ Len(Tail(s)) = Len(s) - 1
      /\ Len(s) \in Nat \ {0} /\ Head(s) = s[1]
      /\ \A i \in 1 .. Len(s) - 1 : Tail(s)[i] = s[i + 1]
      /\ DOMAIN s = 1 .. Len(s) /\ DOMAIN Tail(s) = 1 .. Len(s) - 1
  OBVIOUS
<1>2. ASSUME NEW y \in Items(s) PROVE y \in {Head(s)} \cup Items(Tail(s))
  <2>1. PICK i \in 1 .. Len(s) : y = s[i]
    BY <1>1, <1>2 DEF Items
  <2>2. CASE i = 1
    BY <1>1, <2>1, <2>2
  <2>3. CASE i # 1
    <3>1. i - 1 \in 1 .. Len(s) - 1 /\ Tail(s)[i - 1] = s[i]
      BY <1>1, <2>1, <2>3
    <3> QED
      BY <1>1, <2>1, <3>1 DEF Items
  <2> QED
    BY <2>2, <2>3
<1>3. Head(s) \in Items(s) /\ \A y \in Items(Tail(s)) : y \in Items(s) /\ y # Head(s)
  <2>1. ASSUME NEW i \in 1 .. Len(s) - 1
        PROVE  Tail(s)[i] \in Items(s) /\ Tail(s)[i] # Head(s)
    <3>1. i + 1 \in 1 .. Len(s) /\ 1 \in 1 .. Len(s) /\ i + 1 # 1
      BY <1>1
    <3> QED
      BY <1>1, <3>1 DEF Items, Distinct
  <2>2. 1 \in 1 .. Len(s)
    BY <1>1
  <2> QED
    BY <1>1, <2>1, <2>2 DEF Items
<1>4. ASSUME NEW m \in 1 .. Len(s) - 1, NEW n \in 1 .. Len(s) - 1, Tail(s)[m] = Tail(s)[n]
      PROVE  m = n
  <2>1. m + 1 \in DOMAIN s /\ n + 1 \in DOMAIN s /\ s[m + 1] = s[n + 1]
    BY <1>1, <1>4
  <2>2. m + 1 = n + 1
    BY <2>1 DEF Distinct
  <2> QED
    BY <1>1, <2>2
<1>5. Distinct(Tail(s))
  BY <1>1, <1>4 DEF Distinct
<1> QED
  BY <1>1, <1>2, <1>3, <1>5

LEMMA NoItems == Items(<<>>) = {} /\ Distinct(<<>>)
BY DEF Items, Distinct

LEMMA ItemParts ==
  ASSUME NEW e \in Events
  PROVE  /\ Local(e) \in Item /\ Relayed(e) \in Item /\ Local(e) # Relayed(e)
         /\ \A d \in Events : /\ Local(d) # Relayed(e)
                              /\ Local(d) = Local(e) => d = e
                              /\ Relayed(d) = Relayed(e) => d = e
<1>1. \A d : Local(d).event = d /\ Local(d).waited = TRUE
  BY DEF Local
<1>2. \A d : Relayed(d).event = d /\ Relayed(d).waited = FALSE
  BY DEF Relayed
<1>3. Local(e) \in Item /\ Relayed(e) \in Item
  BY DEF Local, Relayed, Item
<1> QED
  BY <1>1, <1>2, <1>3

-----------------------------------------------------------------------------
(* A step that takes from the queues of i and moves no call back opens no    *)
(* route there.                                                              *)
Shrinks(i) ==
  /\ Items(queue'[i]) \subseteq Items(queue[i]) /\ Distinct(queue'[i])
  /\ Items(heard'[i]) \subseteq Items(heard[i]) /\ Distinct(heard'[i])
  /\ relay'[i] \in {relay[i], <<>>}

CallsMoveOn ==
  \A e \in Events : /\ caller[e] = "returned" => caller'[e] = "returned"
                    /\ caller[e] # "ready" => caller'[e] # "ready"

LEMMA RoutesShrink ==
  ASSUME NEW i \in Instances, RoutesOK(i), Shrinks(i), CallsMoveOn,
         heard[i] \in Seq(Events)
  PROVE  RoutesOK(i)'
<1>1. ASSUME NEW e \in Events, InFlight(i, e)' PROVE InFlight(i, e)
  <2>1. <<e>> # <<>>
    OBVIOUS
  <2> QED
    BY <1>1, <2>1 DEF InFlight, Shrinks
<1>2. \A e \in Items(heard[i]) : e \in Events
  BY DEF Items
<1>3. Distinct(queue[i])' /\ Distinct(heard[i])'
  BY DEF Shrinks
<1>4. \A e \in Items(heard'[i]) : relay'[i] # <<e>> /\ Relayed(e) \notin Items(queue'[i])
  BY <1>2 DEF Shrinks, RoutesOK
<1>5. \A e \in Events : relay'[i] = <<e>> => Relayed(e) \notin Items(queue'[i])
  <2>1. \A e \in Events : relay'[i] = <<e>> => relay[i] = <<e>>
    BY DEF Shrinks
  <2> QED
    BY <2>1 DEF Shrinks, RoutesOK
<1>6. \A e \in Events : InFlight(i, e)' => caller'[e] = "returned"
  BY <1>1 DEF RoutesOK, CallsMoveOn
<1>7. \A e \in Events :
        Local(e) \in Items(queue'[i]) => InstanceOf[e] = i /\ caller'[e] # "ready"
  BY DEF Shrinks, RoutesOK, CallsMoveOn
<1> QED
  BY <1>3, <1>4, <1>5, <1>6, <1>7 DEF RoutesOK

LEMMA BudgetIsLess ==
  ASSUME NEW c \in Clients, NEW e \in Events, BudgetOK(c, e), HubTypeOK,
         offered'[c][e] = offered[c][e],
         LocalOpen(c, e)' => LocalOpen(c, e), RelayOpen(c, e)' => RelayOpen(c, e)
  PROVE  BudgetOK(c, e)'
<1>1. offered[c][e] \in Nat
  BY DEF HubTypeOK
<1>2. PICK l \in BOOLEAN, r \in BOOLEAN, k \in BOOLEAN, s \in BOOLEAN :
        /\ l = LocalOpen(c, e) /\ k = LocalOpen(c, e)'
        /\ r = RelayOpen(c, e) /\ s = RelayOpen(c, e)'
  BY Zenon DEF LocalOpen, RelayOpen
<1>3. offered[c][e] + One(l) + One(r) <= Routes(c, e)
  BY <1>2 DEF BudgetOK
<1>4. offered[c][e] + One(k) + One(s) <= Routes(c, e)
  BY <1>1, <1>2, <1>3 DEF One, Routes
<1> QED
  BY <1>2, <1>4 DEF BudgetOK, One, Routes

LEMMA BudgetShrinks ==
  ASSUME NEW c \in Clients, NEW e \in Events, BudgetOK(c, e), HubTypeOK,
         offered'[c][e] = offered[c][e], Shrinks(InstanceOf[c]), CallsMoveOn
  PROVE  BudgetOK(c, e)'
<1>1. LocalOpen(c, e)' => LocalOpen(c, e)
  BY DEF LocalOpen, Shrinks, CallsMoveOn, HubTypeOK
<1>2. RelayOpen(c, e)' => RelayOpen(c, e)
  <2>1. <<e>> # <<>>
    OBVIOUS
  <2> QED
    BY <2>1 DEF RelayOpen, InFlight, Shrinks, CallsMoveOn
<1> QED
  BY <1>1, <1>2, BudgetIsLess

LEMMA SameShrinks ==
  ASSUME NEW i \in Instances, RoutesOK(i),
         queue'[i] = queue[i], heard'[i] = heard[i], relay'[i] = relay[i]
  PROVE  Shrinks(i)
BY DEF Shrinks, RoutesOK

-----------------------------------------------------------------------------
(* Connections. *)
LEMMA QueuesKept ==
  ASSUME HubInv, UNCHANGED <<queue, heard, relay, caller, offered>>
  PROVE  /\ \A i \in Instances : RoutesOK(i)'
         /\ \A c \in Clients, e \in Events : BudgetOK(c, e)'
<1>1. CallsMoveOn
  BY DEF CallsMoveOn
<1>2. \A i \in Instances : Shrinks(i)
  BY SameShrinks DEF HubInv
<1>3. ASSUME NEW i \in Instances PROVE RoutesOK(i)'
  BY <1>1, <1>2, RoutesShrink DEF HubInv, HubTypeOK
<1>4. ASSUME NEW c \in Clients, NEW e \in Events PROVE BudgetOK(c, e)'
  BY <1>1, <1>2, BudgetShrinks, Homes DEF HubInv
<1> QED
  BY <1>3, <1>4

LEMMA PushFits ==
  ASSUME HubTypeOK, NEW c \in Clients
  PROVE  Push(c) \in 0..BufferSize
BY Bounds DEF Push, HubTypeOK

LEMMA ConnectionsKeepInv ==
  ASSUME HubInv, NEW c \in Clients,
         HandleWS(c) \/ WritePump(c) \/ ReadPumpEnds(c) \/ Unregister(c)
  PROVE  HubInv'
<1>1. UNCHANGED <<run, queue, heard, relay, caller, offered, missed>>
  BY DEF HandleWS, WritePump, ReadPumpEnds, Unregister
<1>2. InstanceOf[c] \in Instances /\ HubTypeOK /\ MembersOK
  BY Homes DEF HubInv
<1>3. client' \in [Clients -> {"away", "open", "unregistering", "gone"}]
  <2>1. client \in [Clients -> {"away", "open", "unregistering", "gone"}]
    BY <1>2 DEF HubTypeOK
  <2>2. client' \in {client, [client EXCEPT ![c] = "open"],
                     [client EXCEPT ![c] = "unregistering"], [client EXCEPT ![c] = "gone"]}
    BY Zenon DEF HandleWS, WritePump, ReadPumpEnds, Unregister
  <2> QED
    BY <2>1, <2>2
<1>4. buffer' \in [Clients -> 0..BufferSize]
  <2>1. 0 \in 0..BufferSize
    BY Bounds
  <2>2. buffer' \in [Clients -> 0..BufferSize]
    <3>1. \E n \in 0..BufferSize : buffer' = [buffer EXCEPT ![c] = n]
      <4>1. buffer = [buffer EXCEPT ![c] = buffer[c]] /\ buffer[c] \in 0..BufferSize
        BY <1>2 DEF HubTypeOK
      <4> QED
        BY <1>2, <2>1, <4>1, PushFits DEF HandleWS, WritePump, ReadPumpEnds, Unregister
    <3> QED
      BY <1>2, <3>1 DEF HubTypeOK
  <2> QED
    BY <2>2
<1>5. members' \in [Instances -> SUBSET Clients] /\ closed' \subseteq Clients
  <2>1. \E S \in SUBSET Clients : members' = [members EXCEPT ![InstanceOf[c]] = S]
    <3>1. members[InstanceOf[c]] \in SUBSET Clients
      BY <1>2 DEF HubTypeOK
    <3>2. members = [members EXCEPT ![InstanceOf[c]] = members[InstanceOf[c]]]
      BY <1>2 DEF HubTypeOK
    <3>3. /\ members[InstanceOf[c]] \cup {c} \in SUBSET Clients
          /\ members[InstanceOf[c]] \ {c} \in SUBSET Clients
      BY <3>1
    <3>4. members' \in {members, [members EXCEPT ![InstanceOf[c]] = @ \cup {c}],
                        [members EXCEPT ![InstanceOf[c]] = @ \ {c}]}
      BY DEF HandleWS, WritePump, ReadPumpEnds, Unregister, Forget
    <3> QED
      BY <3>1, <3>2, <3>3, <3>4
  <2>2. members' \in [Instances -> SUBSET Clients]
    BY <1>2, <2>1 DEF HubTypeOK
  <2>3. closed' \subseteq closed \cup {c}
    BY DEF HandleWS, WritePump, ReadPumpEnds, Unregister
  <2> QED
    BY <1>2, <2>2, <2>3 DEF HubTypeOK
<1>6. HubTypeOK'
  BY <1>1, <1>2, <1>3, <1>4, <1>5 DEF HubTypeOK
<1>7. MembersOK'
  <2>1. CASE HandleWS(c)
    <3>1. /\ \A d \in Clients \ {c} : client'[d] = client[d]
          /\ client'[c] = "open" /\ client[c] = "away" /\ closed' = closed
          /\ \A i \in Instances : members'[i] \subseteq members[i] \cup
                                    (IF i = InstanceOf[c] THEN {c} ELSE {})
      BY <1>2, <2>1 DEF HandleWS, HubTypeOK
    <3>2. \A i \in Instances : members'[i] \subseteq Clients
      BY <1>5
    <3>3. c \notin closed
      BY <1>2, <3>1 DEF MembersOK
    <3>4. \A d \in closed' : client'[d] = "gone"
      BY <1>2, <3>1, <3>3 DEF MembersOK, HubTypeOK
    <3>5. ASSUME NEW i \in Instances, NEW d \in members'[i]
          PROVE  InstanceOf[d] = i /\ client'[d] \in {"open", "unregistering"}
      <4>1. CASE d = c
        BY <1>2, <3>1, <3>5, <4>1 DEF MembersOK
      <4>2. CASE d # c
        BY <1>2, <3>1, <3>2, <3>5, <4>2 DEF MembersOK
      <4> QED
        BY <4>1, <4>2
    <3> QED
      BY <3>4, <3>5 DEF MembersOK
  <2>2. CASE WritePump(c)
    BY <1>2, <2>2 DEF WritePump, MembersOK
  <2>3. CASE ReadPumpEnds(c)
    <3>1. /\ \A d \in Clients \ {c} : client'[d] = client[d]
          /\ client'[c] = "unregistering" /\ client[c] = "open"
          /\ closed' = closed /\ members' = members
      BY <1>2, <2>3 DEF ReadPumpEnds, HubTypeOK
    <3>2. \A d \in closed' : d \in Clients \ {c} /\ client'[d] = "gone"
      BY <1>2, <3>1 DEF MembersOK, HubTypeOK
    <3>3. ASSUME NEW i \in Instances, NEW d \in members'[i]
          PROVE  InstanceOf[d] = i /\ client'[d] \in {"open", "unregistering"}
      <4>1. d \in Clients /\ d \in members[i]
        BY <1>2, <3>1 DEF HubTypeOK
      <4>2. InstanceOf[d] = i /\ client[d] \in {"open", "unregistering"}
        BY <1>2, <4>1 DEF MembersOK
      <4> QED
        BY <3>1, <4>1, <4>2
    <3> QED
      BY <3>2, <3>3 DEF MembersOK
  <2>4. CASE Unregister(c)
    <3>1. /\ \A d \in Clients \ {c} : client'[d] = client[d]
          /\ client'[c] = "gone" /\ closed' = closed \cup {c}
          /\ \A i \in Instances : members'[i] \subseteq members[i]
          /\ c \notin members'[InstanceOf[c]]
      BY <1>2, <2>4 DEF Unregister, Forget, HubTypeOK
    <3>2. \A i \in Instances : c \notin members'[i]
      BY <1>2, <3>1 DEF MembersOK
    <3>3. \A d \in closed' : client'[d] = "gone"
      BY <1>2, <3>1 DEF MembersOK, HubTypeOK
    <3>4. ASSUME NEW i \in Instances, NEW d \in members'[i]
          PROVE  InstanceOf[d] = i /\ client'[d] \in {"open", "unregistering"}
      <4>1. d \in members[i] /\ d \in Clients \ {c}
        BY <1>2, <3>1, <3>2, <3>4 DEF HubTypeOK
      <4> QED
        BY <1>2, <3>1, <4>1 DEF MembersOK
    <3> QED
      BY <3>3, <3>4 DEF MembersOK
  <2> QED
    BY <2>1, <2>2, <2>3, <2>4
<1> QED
  BY <1>1, <1>6, <1>7, QueuesKept DEF HubInv

-----------------------------------------------------------------------------
(* Events. *)
LEMMA ShutdownKeepsInv ==
  ASSUME HubInv, NEW i \in Instances, Shutdown(i)
  PROVE  HubInv'
<1>1. CallsMoveOn
  BY DEF CallsMoveOn, Shutdown
<1>2. ASSUME NEW j \in Instances PROVE Shrinks(j)
  <2>1. CASE j = i
    BY <2>1, NoItems DEF Shutdown, Shrinks, HubInv, HubTypeOK, RoutesOK
  <2>2. CASE j # i
    BY <2>2, SameShrinks DEF Shutdown, HubInv, HubTypeOK
  <2> QED
    BY <2>1, <2>2
<1>3. ASSUME NEW j \in Instances PROVE RoutesOK(j)'
  BY <1>1, <1>2, RoutesShrink DEF HubInv, HubTypeOK
<1>4. ASSUME NEW c \in Clients, NEW e \in Events PROVE BudgetOK(c, e)'
  BY <1>1, <1>2, BudgetShrinks, Homes DEF HubInv, Shutdown
<1>5. HubTypeOK' /\ MembersOK'
  BY DEF Shutdown, HubInv, HubTypeOK, MembersOK, connectionVars
<1> QED
  BY <1>3, <1>4, <1>5 DEF HubInv

LEMMA ExitKeepsInv ==
  ASSUME HubInv, NEW i \in Instances, Exit(i)
  PROVE  HubInv'
<1>1. CallsMoveOn
  BY DEF CallsMoveOn, Exit, HubInv, HubTypeOK
<1>2. ASSUME NEW j \in Instances PROVE Shrinks(j)
  <2>1. CASE j = i
    BY <2>1, NoItems DEF Exit, Shrinks, HubInv, HubTypeOK, RoutesOK
  <2>2. CASE j # i
    BY <2>2, SameShrinks DEF Exit, HubInv, HubTypeOK
  <2> QED
    BY <2>1, <2>2
<1>3. ASSUME NEW j \in Instances PROVE RoutesOK(j)'
  BY <1>1, <1>2, RoutesShrink DEF HubInv, HubTypeOK
<1>4. ASSUME NEW c \in Clients, NEW e \in Events PROVE BudgetOK(c, e)'
  BY <1>1, <1>2, BudgetShrinks, Homes DEF HubInv, Exit
<1>5. HubTypeOK'
  <2>1. HubTypeOK /\ 0 \in 0..BufferSize
    BY Bounds DEF HubInv
  <2>2. /\ run' \in [Instances -> {"serving", "returned", "exited"}]
        /\ queue' \in [Instances -> Seq(Item)]
        /\ members' \in [Instances -> SUBSET Clients]
    BY <2>1 DEF Exit, HubTypeOK
  <2>3. /\ caller' \in [Events -> {"ready", "waiting", "publishing", "returned"}]
        /\ client' \in [Clients -> {"away", "open", "unregistering", "gone"}]
        /\ buffer' \in [Clients -> 0..BufferSize]
    BY <2>1 DEF Exit, HubTypeOK
  <2> QED
    BY <2>1, <2>2, <2>3 DEF Exit, HubTypeOK
<1>6. MembersOK'
  <2>1. /\ members'[i] = {} /\ closed' = closed
        /\ \A j \in Instances \ {i} : members'[j] = members[j] /\ members[j] \subseteq Clients
        /\ \A c \in Clients : InstanceOf[c] # i => client'[c] = client[c]
        /\ \A c \in Clients : InstanceOf[c] = i => client'[c] = "gone"
    BY DEF Exit, HubInv, HubTypeOK
  <2>2. \A c \in closed' : client'[c] = "gone"
    BY <2>1 DEF HubInv, MembersOK, HubTypeOK
  <2>3. ASSUME NEW j \in Instances, NEW c \in members'[j]
        PROVE  InstanceOf[c] = j /\ client'[c] \in {"open", "unregistering"}
    <3>1. j # i /\ c \in members[j] /\ c \in Clients
      BY <2>1, <2>3
    <3> QED
      BY <2>1, <3>1 DEF HubInv, MembersOK
  <2> QED
    BY <2>2, <2>3 DEF MembersOK
<1> QED
  BY <1>3, <1>4, <1>5, <1>6 DEF HubInv

(* A call that stops waiting still publishes. *)
LEMMA StopWaitingKeepsInv ==
  ASSUME HubInv, NEW e \in Events, StopWaiting(e)
  PROVE  HubInv'
<1>1. CallsMoveOn
  BY DEF CallsMoveOn, StopWaiting, HubInv, HubTypeOK
<1>2. \A j \in Instances : Shrinks(j)
  BY SameShrinks DEF StopWaiting, HubInv
<1>3. ASSUME NEW j \in Instances PROVE RoutesOK(j)'
  BY <1>1, <1>2, RoutesShrink DEF HubInv, HubTypeOK
<1>4. ASSUME NEW c \in Clients, NEW d \in Events PROVE BudgetOK(c, d)'
  BY <1>1, <1>2, BudgetShrinks, Homes DEF HubInv, StopWaiting
<1>5. HubTypeOK' /\ MembersOK'
  BY DEF StopWaiting, HubInv, HubTypeOK, MembersOK, connectionVars
<1> QED
  BY <1>3, <1>4, <1>5 DEF HubInv

(* What BroadcastEvent queues is on the local route, which was open. *)
LEMMA BroadcastEventKeepsInv ==
  ASSUME HubInv, NEW e \in Events, BroadcastEvent(e)
  PROVE  HubInv'
<1>1. PICK i \in Instances : i = InstanceOf[e]
  BY Homes
<1>2. CallsMoveOn
  BY DEF CallsMoveOn, BroadcastEvent, HubInv, HubTypeOK
<1>3. ASSUME NEW j \in Instances, queue'[j] = queue[j] PROVE Shrinks(j)
  BY <1>3, SameShrinks DEF BroadcastEvent, HubInv
<1>4. HubTypeOK /\ RoutesOK(i) /\ Local(e) \in Item /\ queue[i] \in Seq(Item)
  BY <1>1, ItemParts DEF HubInv, HubTypeOK
<1>5. \/ /\ queue' = [queue EXCEPT ![i] = Append(@, Local(e))]
         /\ caller' = [caller EXCEPT ![e] = "waiting"]
      \/ queue' = queue /\ caller' = [caller EXCEPT ![e] = "returned"]
  BY <1>1 DEF BroadcastEvent, Local
<1>6. /\ caller[e] = "ready"
      /\ UNCHANGED <<run, heard, relay, connectionVars, offered, missed>>
  BY DEF BroadcastEvent
<1>7. CASE queue' = queue
  <2>1. ASSUME NEW j \in Instances PROVE RoutesOK(j)'
    BY <1>2, <1>3, <1>7, RoutesShrink DEF HubInv, HubTypeOK
  <2>2. ASSUME NEW c \in Clients, NEW d \in Events PROVE BudgetOK(c, d)'
    BY <1>2, <1>3, <1>6, <1>7, BudgetShrinks, Homes DEF HubInv
  <2>3. HubTypeOK' /\ MembersOK'
    <3>1. caller' \in [Events -> {"ready", "waiting", "publishing", "returned"}]
      BY <1>4, <1>5 DEF HubTypeOK
    <3> QED
      BY <1>4, <1>6, <1>7, <3>1 DEF HubInv, HubTypeOK, MembersOK, connectionVars
  <2> QED
    BY <2>1, <2>2, <2>3 DEF HubInv
<1>8. CASE /\ queue' = [queue EXCEPT ![i] = Append(@, Local(e))]
           /\ caller' = [caller EXCEPT ![e] = "waiting"]
  <2>1. Local(e) \notin Items(queue[i])
    BY <1>4, <1>6 DEF RoutesOK
  <2>2. /\ queue'[i] \in Seq(Item) /\ Items(queue'[i]) = Items(queue[i]) \cup {Local(e)}
        /\ Distinct(queue'[i])
    <3>1. queue'[i] = Append(queue[i], Local(e))
      BY <1>4, <1>8 DEF HubTypeOK
    <3>2. Distinct(queue[i])
      BY <1>4 DEF RoutesOK
    <3> QED
      BY <1>4, <2>1, <3>1, <3>2, AppendItems
  <2>3. \A j \in Instances \ {i} : queue'[j] = queue[j]
    BY <1>4, <1>8 DEF HubTypeOK
  <2>4. caller'[e] = "waiting" /\ \A d \in Events \ {e} : caller'[d] = caller[d]
    BY <1>4, <1>8 DEF HubTypeOK
  <2>5. \A j \in Instances, d \in Events :
          /\ Relayed(d) \in Items(queue'[j]) <=> Relayed(d) \in Items(queue[j])
          /\ InFlight(j, d)' <=> InFlight(j, d)
    <3>1. \A j \in Instances, d \in Events :
            Relayed(d) \in Items(queue'[j]) <=> Relayed(d) \in Items(queue[j])
      BY <2>2, <2>3, ItemParts
    <3> QED
      BY <1>6, <3>1 DEF InFlight
  <2>6. ASSUME NEW j \in Instances PROVE RoutesOK(j)'
    <3>1. CASE j = i
      <4>1. Distinct(queue[j])' /\ Distinct(heard[j])'
        BY <1>4, <1>6, <2>2, <3>1 DEF RoutesOK
      <4>2. \A d \in Items(heard'[j]) : relay'[j] # <<d>> /\ Relayed(d) \notin Items(queue'[j])
        <5>1. Items(heard'[j]) \subseteq Events
          BY <1>4, <1>6, <3>1 DEF HubTypeOK, Items
        <5> QED
          BY <1>4, <1>6, <2>5, <3>1, <5>1 DEF RoutesOK
      <4>3. \A d \in Events : relay'[j] = <<d>> => Relayed(d) \notin Items(queue'[j])
        BY <1>4, <1>6, <2>5, <3>1 DEF RoutesOK
      <4>4. \A d \in Events : InFlight(j, d)' => caller'[d] = "returned"
        BY <1>4, <1>6, <2>4, <2>5, <3>1 DEF RoutesOK
      <4>5. \A d \in Events :
              Local(d) \in Items(queue'[j]) => InstanceOf[d] = j /\ caller'[d] # "ready"
        BY <1>1, <1>4, <2>2, <2>4, <3>1, ItemParts DEF RoutesOK
      <4> QED
        BY <4>1, <4>2, <4>3, <4>4, <4>5 DEF RoutesOK
    <3>2. CASE j # i
      BY <1>2, <1>3, <2>3, <3>2, RoutesShrink DEF HubInv, HubTypeOK
    <3> QED
      BY <3>1, <3>2
  <2>7. ASSUME NEW c \in Clients, NEW d \in Events PROVE BudgetOK(c, d)'
    <3>1. InstanceOf[c] \in Instances
      BY Homes
    <3>2. LocalOpen(c, d)' => LocalOpen(c, d)
      BY <1>1, <1>6, <2>2, <2>3, <2>4, <3>1, ItemParts DEF LocalOpen
    <3>3. RelayOpen(c, d)' => RelayOpen(c, d)
      BY <1>6, <2>4, <2>5, <3>1 DEF RelayOpen
    <3> QED
      BY <1>4, <1>6, <3>2, <3>3, BudgetIsLess DEF HubInv
  <2>8. HubTypeOK' /\ MembersOK'
    <3>1. caller' \in [Events -> {"ready", "waiting", "publishing", "returned"}]
      BY <1>4, <1>8 DEF HubTypeOK
    <3>2. queue' \in [Instances -> Seq(Item)]
      BY <1>4, <1>8 DEF HubTypeOK
    <3> QED
      BY <1>4, <1>6, <3>1, <3>2 DEF HubInv, HubTypeOK, MembersOK, connectionVars
  <2> QED
    BY <2>6, <2>7, <2>8 DEF HubInv
<1> QED
  BY <1>5, <1>7, <1>8

(* A call publishes once, and until then its event is nowhere on the way.    *)
LEMMA PublishKeepsInv ==
  ASSUME HubInv, NEW e \in Events, Publish(e)
  PROVE  HubInv'
<1>1. /\ caller[e] = "publishing" /\ caller' = [caller EXCEPT ![e] = "returned"]
      /\ UNCHANGED <<run, queue, relay, connectionVars, offered>>
  BY DEF Publish
<1>2. PICK reached \in SUBSET Instances :
        heard' = [i \in Instances |-> IF i \in reached THEN Append(heard[i], e) ELSE heard[i]]
  BY DEF Publish
<1>3. HubTypeOK /\ caller'[e] = "returned" /\ \A d \in Events \ {e} : caller'[d] = caller[d]
  BY <1>1 DEF HubInv, HubTypeOK
<1>4. CallsMoveOn
  BY <1>1, <1>3 DEF CallsMoveOn
<1>5. \A i \in Instances : ~InFlight(i, e)
  BY <1>1 DEF HubInv, RoutesOK
<1>6. ASSUME NEW i \in Instances
      PROVE  /\ heard'[i] \in Seq(Events) /\ Distinct(heard'[i])
             /\ Items(heard'[i]) \subseteq Items(heard[i]) \cup {e}
  <2>1. heard[i] \in Seq(Events) /\ Distinct(heard[i]) /\ e \notin Items(heard[i])
    BY <1>3, <1>5 DEF HubInv, HubTypeOK, RoutesOK, InFlight
  <2>2. CASE i \in reached
    BY <1>2, <2>1, <2>2, AppendItems
  <2>3. CASE i \notin reached
    BY <1>2, <2>1, <2>3
  <2> QED
    BY <2>2, <2>3
<1>7. ASSUME NEW i \in Instances PROVE RoutesOK(i)'
  <2>1. RoutesOK(i)
    BY DEF HubInv
  <2>2. Distinct(queue[i])' /\ Distinct(heard[i])'
    BY <1>1, <1>6, <2>1 DEF RoutesOK
  <2>3. relay[i] # <<e>> /\ Relayed(e) \notin Items(queue[i])
    BY <1>5 DEF InFlight
  <2>4. \A d \in Items(heard'[i]) : relay'[i] # <<d>> /\ Relayed(d) \notin Items(queue'[i])
    BY <1>1, <1>6, <2>1, <2>3 DEF RoutesOK
  <2>5. \A d \in Events : relay'[i] = <<d>> => Relayed(d) \notin Items(queue'[i])
    BY <1>1, <2>1 DEF RoutesOK
  <2>6. \A d \in Events : InFlight(i, d)' => caller'[d] = "returned"
    BY <1>1, <1>3, <1>6, <2>1 DEF InFlight, RoutesOK
  <2>7. \A d \in Events :
          Local(d) \in Items(queue'[i]) => InstanceOf[d] = i /\ caller'[d] # "ready"
    BY <1>1, <1>4, <2>1 DEF RoutesOK, CallsMoveOn
  <2> QED
    BY <2>2, <2>4, <2>5, <2>6, <2>7 DEF RoutesOK
<1>8. ASSUME NEW c \in Clients, NEW d \in Events PROVE BudgetOK(c, d)'
  <2>1. InstanceOf[c] \in Instances
    BY Homes
  <2>2. LocalOpen(c, d)' => LocalOpen(c, d)
    BY <1>1, <1>4, <2>1 DEF LocalOpen, CallsMoveOn
  <2>3. RelayOpen(c, d)' => RelayOpen(c, d)
    BY <1>1, <1>3, <1>6, <2>1 DEF RelayOpen, InFlight
  <2> QED
    BY <1>1, <1>3, <2>2, <2>3, BudgetIsLess DEF HubInv
<1>9. HubTypeOK' /\ MembersOK'
  <2>1. heard' \in [Instances -> Seq(Events)]
    BY <1>2, <1>6
  <2>2. caller' \in [Events -> {"ready", "waiting", "publishing", "returned"}]
    BY <1>1, <1>3 DEF HubTypeOK
  <2> QED
    BY <1>1, <1>3, <2>1, <2>2 DEF HubInv, HubTypeOK, MembersOK, connectionVars
<1> QED
  BY <1>7, <1>8, <1>9 DEF HubInv

(* What a hub hears moves on from the subscription to its queue.             *)
LEMMA MovedOn ==
  ASSUME HubInv, UNCHANGED <<caller, offered>>,
         NEW i \in Instances, RoutesOK(i)', \A e \in Events : InFlight(i, e)' => InFlight(i, e),
         \A e \in Events : Local(e) \in Items(queue'[i]) => Local(e) \in Items(queue[i]),
         \A j \in Instances \ {i} : /\ queue'[j] = queue[j] /\ heard'[j] = heard[j]
                                    /\ relay'[j] = relay[j]
  PROVE  /\ \A j \in Instances : RoutesOK(j)'
         /\ \A c \in Clients, d \in Events : BudgetOK(c, d)'
<1>1. CallsMoveOn
  BY DEF CallsMoveOn
<1>2. \A j \in Instances \ {i} : Shrinks(j)
  BY SameShrinks DEF HubInv
<1>3. ASSUME NEW j \in Instances \ {i} PROVE RoutesOK(j)'
  BY <1>1, <1>2, RoutesShrink DEF HubInv, HubTypeOK
<1>4. ASSUME NEW c \in Clients, NEW d \in Events, InstanceOf[c] # i PROVE BudgetOK(c, d)'
  BY <1>1, <1>2, <1>4, BudgetShrinks, Homes DEF HubInv
<1>5. ASSUME NEW c \in Clients, NEW d \in Events, InstanceOf[c] = i PROVE BudgetOK(c, d)'
  <2>1. LocalOpen(c, d)' => LocalOpen(c, d)
    BY <1>5 DEF LocalOpen
  <2>2. RelayOpen(c, d)' => RelayOpen(c, d)
    BY <1>5 DEF RelayOpen
  <2> QED
    BY <2>1, <2>2, BudgetIsLess DEF HubInv
<1> QED
  BY <1>3, <1>4, <1>5

LEMMA HearKeepsInv ==
  ASSUME HubInv, NEW i \in Instances, Hear(i)
  PROVE  HubInv'
<1>1. HubTypeOK /\ RoutesOK(i) /\ heard[i] \in Seq(Events) /\ Distinct(heard[i])
  BY DEF HubInv, HubTypeOK, RoutesOK
<1>2. PICK e, t : e = Head(heard[i]) /\ t = Tail(heard[i])
  OBVIOUS
<1>3. /\ heard[i] # <<>> /\ relay[i] = <<>>
      /\ relay' = [relay EXCEPT ![i] = <<e>>] /\ heard' = [heard EXCEPT ![i] = t]
      /\ UNCHANGED <<run, queue, caller, connectionVars, offered, missed>>
  BY <1>2 DEF Hear
<1>4. /\ e \in Events /\ t \in Seq(Events) /\ Distinct(t) /\ e \notin Items(t)
      /\ Items(heard[i]) = {e} \cup Items(t)
  BY <1>1, <1>2, <1>3, TailItems
<1>5. /\ heard'[i] = t /\ relay'[i] = <<e>>
      /\ \A j \in Instances \ {i} : heard'[j] = heard[j] /\ relay'[j] = relay[j]
  BY <1>1, <1>3 DEF HubTypeOK
<1>6. \A d : <<d>> = <<e>> <=> d = e
  OBVIOUS
<1>7. ASSUME NEW d \in Events, InFlight(i, d)' PROVE InFlight(i, d)
  BY <1>3, <1>4, <1>5, <1>6, <1>7 DEF InFlight
<1>8. RoutesOK(i)'
  <2>1. Distinct(queue[i])' /\ Distinct(heard[i])'
    BY <1>1, <1>3, <1>4, <1>5 DEF RoutesOK
  <2>2. \A d \in Items(heard'[i]) : relay'[i] # <<d>> /\ Relayed(d) \notin Items(queue'[i])
    BY <1>1, <1>3, <1>4, <1>5, <1>6 DEF RoutesOK
  <2>3. \A d \in Events : relay'[i] = <<d>> => Relayed(d) \notin Items(queue'[i])
    BY <1>1, <1>3, <1>4, <1>5, <1>6 DEF RoutesOK
  <2>4. \A d \in Events : InFlight(i, d)' => caller'[d] = "returned"
    BY <1>1, <1>3, <1>7 DEF RoutesOK
  <2>5. \A d \in Events :
          Local(d) \in Items(queue'[i]) => InstanceOf[d] = i /\ caller'[d] # "ready"
    BY <1>1, <1>3 DEF RoutesOK
  <2> QED
    BY <2>1, <2>2, <2>3, <2>4, <2>5 DEF RoutesOK
<1>9. /\ \A j \in Instances : RoutesOK(j)'
      /\ \A c \in Clients, d \in Events : BudgetOK(c, d)'
  BY <1>3, <1>5, <1>7, <1>8, MovedOn
<1>10. HubTypeOK' /\ MembersOK'
  <2>1. heard' \in [Instances -> Seq(Events)]
    BY <1>1, <1>3, <1>4 DEF HubTypeOK
  <2>2. relay' \in [Instances -> {<<>>} \cup {<<d>> : d \in Events}]
    BY <1>1, <1>3, <1>4 DEF HubTypeOK
  <2> QED
    BY <1>1, <1>3, <2>1, <2>2 DEF HubInv, HubTypeOK, MembersOK, connectionVars
<1> QED
  BY <1>9, <1>10 DEF HubInv

LEMMA BroadcastKeepsInv ==
  ASSUME HubInv, NEW i \in Instances, Broadcast(i)
  PROVE  HubInv'
<1>1. HubTypeOK /\ RoutesOK(i) /\ queue[i] \in Seq(Item) /\ Distinct(queue[i])
  BY DEF HubInv, HubTypeOK, RoutesOK
<1>2. PICK e \in Events : relay[i] = <<e>>
  BY <1>1 DEF Broadcast, HubTypeOK
<1>3. /\ queue' = [queue EXCEPT ![i] = Append(@, Relayed(e))]
      /\ relay' = [relay EXCEPT ![i] = <<>>]
      /\ UNCHANGED <<run, heard, caller, connectionVars, offered, missed>>
  BY <1>2 DEF Broadcast, Relayed
<1>4. /\ queue'[i] = Append(queue[i], Relayed(e)) /\ relay'[i] = <<>>
      /\ \A j \in Instances \ {i} : queue'[j] = queue[j] /\ relay'[j] = relay[j]
  BY <1>1, <1>3 DEF HubTypeOK
<1>5. Relayed(e) \in Item /\ Relayed(e) \notin Items(queue[i])
  BY <1>1, <1>2, ItemParts DEF RoutesOK
<1>6. /\ queue'[i] \in Seq(Item) /\ Distinct(queue'[i])
      /\ Items(queue'[i]) = Items(queue[i]) \cup {Relayed(e)}
  BY <1>1, <1>4, <1>5, AppendItems
<1>7. \A d : <<d>> # <<>> /\ (<<d>> = <<e>> <=> d = e)
  OBVIOUS
<1>8. ASSUME NEW d \in Events, InFlight(i, d)' PROVE InFlight(i, d)
  BY <1>2, <1>3, <1>4, <1>6, <1>7, <1>8, ItemParts DEF InFlight
<1>9. \A d \in Events : Local(d) \in Items(queue'[i]) => Local(d) \in Items(queue[i])
  BY <1>6, ItemParts
<1>10. Items(heard[i]) \subseteq Events
  BY <1>1 DEF HubTypeOK, Items
<1>11. RoutesOK(i)'
  <2>1. Distinct(queue[i])' /\ Distinct(heard[i])'
    BY <1>1, <1>3, <1>6 DEF RoutesOK
  <2>2. \A d \in Items(heard'[i]) : relay'[i] # <<d>> /\ Relayed(d) \notin Items(queue'[i])
    <3> SUFFICES ASSUME NEW d \in Items(heard[i])
                 PROVE  relay'[i] # <<d>> /\ Relayed(d) \notin Items(queue'[i])
      BY <1>3
    <3>1. d # e /\ Relayed(d) \notin Items(queue[i]) /\ d \in Events
      BY <1>1, <1>2, <1>10 DEF RoutesOK
    <3> QED
      BY <1>4, <1>6, <1>7, <3>1, ItemParts
  <2>3. \A d \in Events : relay'[i] = <<d>> => Relayed(d) \notin Items(queue'[i])
    BY <1>4, <1>7
  <2>4. \A d \in Events : InFlight(i, d)' => caller'[d] = "returned"
    BY <1>1, <1>3, <1>8 DEF RoutesOK
  <2>5. \A d \in Events :
          Local(d) \in Items(queue'[i]) => InstanceOf[d] = i /\ caller'[d] # "ready"
    BY <1>1, <1>3, <1>9 DEF RoutesOK
  <2> QED
    BY <2>1, <2>2, <2>3, <2>4, <2>5 DEF RoutesOK
<1>12. /\ \A j \in Instances : RoutesOK(j)'
       /\ \A c \in Clients, d \in Events : BudgetOK(c, d)'
  BY <1>3, <1>4, <1>8, <1>9, <1>11, MovedOn
<1>13. HubTypeOK' /\ MembersOK'
  <2>1. queue' \in [Instances -> Seq(Item)]
    BY <1>1, <1>3, <1>5 DEF HubTypeOK
  <2>2. relay' \in [Instances -> {<<>>} \cup {<<d>> : d \in Events}]
    BY <1>1, <1>3 DEF HubTypeOK
  <2> QED
    BY <1>1, <1>3, <2>1, <2>2 DEF HubInv, HubTypeOK, MembersOK, connectionVars
<1> QED
  BY <1>12, <1>13 DEF HubInv

(* An offer uses up the route its item came by.                              *)
LEMMA BroadcastToClientsKeepsInv ==
  ASSUME HubInv, NEW i \in Instances, BroadcastToClients(i)
  PROVE  HubInv'
<1>1. HubTypeOK /\ RoutesOK(i) /\ queue[i] \in Seq(Item) /\ Distinct(queue[i])
  BY DEF HubInv, HubTypeOK, RoutesOK
<1>2. PICK item, t : item = Head(queue[i]) /\ t = Tail(queue[i])
  OBVIOUS
<1>3. queue[i] # <<>>
  BY DEF BroadcastToClients
<1>4. /\ item \in Item /\ t \in Seq(Item) /\ Distinct(t) /\ item \notin Items(t)
      /\ Items(queue[i]) = {item} \cup Items(t)
  BY <1>1, <1>2, <1>3, TailItems
<1>5. PICK e \in Events : e = item.event /\ item \in {Local(e), Relayed(e)}
  BY <1>4 DEF Item, Local, Relayed
<1>6. /\ queue' = [queue EXCEPT ![i] = t]
      /\ buffer' = [c \in Clients |-> IF c \in members[i] THEN Push(c) ELSE buffer[c]]
      /\ offered' = [c \in Clients |->
           IF c \in members[i] THEN [offered[c] EXCEPT ![e] = @ + 1] ELSE offered[c]]
      /\ caller' \in {caller, [caller EXCEPT ![e] = "publishing"]}
      /\ caller' # caller => caller[e] = "waiting"
      /\ UNCHANGED <<run, heard, relay, client, members, closed, missed>>
  BY <1>2, <1>5 DEF BroadcastToClients
<1>7. /\ queue'[i] = t /\ \A j \in Instances \ {i} : queue'[j] = queue[j]
  BY <1>1, <1>6 DEF HubTypeOK
<1>8. \A d \in Events : /\ caller'[d] = "returned" <=> caller[d] = "returned"
                        /\ caller'[d] = "ready" <=> caller[d] = "ready"
  BY <1>1, <1>6 DEF HubTypeOK
<1>9. CallsMoveOn
  BY <1>8 DEF CallsMoveOn
<1>10. ASSUME NEW j \in Instances PROVE Shrinks(j)
  <2>1. CASE j = i
    BY <1>1, <1>4, <1>6, <1>7, <2>1 DEF Shrinks, RoutesOK
  <2>2. CASE j # i
    BY <1>6, <1>7, <2>2, SameShrinks DEF HubInv
  <2> QED
    BY <2>1, <2>2
<1>11. ASSUME NEW j \in Instances PROVE RoutesOK(j)'
  BY <1>9, <1>10, RoutesShrink DEF HubInv, HubTypeOK
<1>12. \A c \in Clients, d \in Events :
         offered'[c][d] = IF c \in members[i] /\ d = e THEN offered[c][d] + 1 ELSE offered[c][d]
  BY <1>1, <1>6 DEF HubTypeOK
<1>13. ASSUME NEW c \in Clients, c \in members[i] PROVE BudgetOK(c, e)'
  <2>1. InstanceOf[c] = i /\ BudgetOK(c, e) /\ offered[c][e] \in Nat
    BY <1>1, <1>13 DEF HubInv, MembersOK, HubTypeOK
  <2>2. offered'[c][e] = offered[c][e] + 1
    BY <1>12, <1>13
  <2>3. CASE item = Local(e)
    <3>1. LocalOpen(c, e) /\ ~LocalOpen(c, e)'
      BY <1>1, <1>4, <1>7, <1>8, <2>1, <2>3 DEF LocalOpen, RoutesOK
    <3>2. RelayOpen(c, e)' => RelayOpen(c, e)
      BY <1>4, <1>6, <1>7, <1>8, <2>1 DEF RelayOpen, InFlight
    <3>3. PICK r \in BOOLEAN, s \in BOOLEAN : r = RelayOpen(c, e) /\ s = RelayOpen(c, e)'
      BY Zenon DEF RelayOpen
    <3>4. offered[c][e] + 1 + One(r) <= Routes(c, e)
      BY <2>1, <3>1, <3>3 DEF BudgetOK, One
    <3>5. offered[c][e] + 1 + One(s) <= Routes(c, e)
      BY <2>1, <3>2, <3>3, <3>4 DEF One, Routes
    <3> QED
      BY <2>1, <2>2, <3>1, <3>3, <3>5 DEF BudgetOK, One, Routes
  <2>4. CASE item = Relayed(e)
    <3>1. RelayOpen(c, e) /\ ~RelayOpen(c, e)'
      <4>1. InFlight(i, e)
        BY <1>4, <2>4 DEF InFlight
      <4>2. caller[e] = "returned" /\ e \notin Items(heard[i]) /\ relay[i] # <<e>>
        BY <1>1, <1>4, <2>4, <4>1 DEF RoutesOK
      <4> QED
        BY <1>4, <1>6, <1>7, <1>8, <2>1, <2>4, <4>1, <4>2 DEF RelayOpen, InFlight
    <3>2. LocalOpen(c, e)' => LocalOpen(c, e)
      BY <1>4, <1>7, <1>8, <2>1 DEF LocalOpen
    <3>3. PICK r \in BOOLEAN, s \in BOOLEAN : r = LocalOpen(c, e) /\ s = LocalOpen(c, e)'
      BY Zenon DEF LocalOpen
    <3>4. offered[c][e] + One(r) + 1 <= Routes(c, e)
      BY <2>1, <3>1, <3>3 DEF BudgetOK, One
    <3>5. offered[c][e] + 1 + One(s) <= Routes(c, e)
      BY <2>1, <3>2, <3>3, <3>4 DEF One, Routes
    <3> QED
      BY <2>1, <2>2, <3>1, <3>3, <3>5 DEF BudgetOK, One, Routes
  <2> QED
    BY <1>5, <2>3, <2>4
<1>14. ASSUME NEW c \in Clients, NEW d \in Events PROVE BudgetOK(c, d)'
  <2>1. CASE c \in members[i] /\ d = e
    BY <1>13, <2>1
  <2>2. CASE ~(c \in members[i] /\ d = e)
    BY <1>1, <1>9, <1>10, <1>12, <2>2, BudgetShrinks, Homes DEF HubInv
  <2> QED
    BY <2>1, <2>2
<1>15. HubTypeOK'
  <2>1. queue' \in [Instances -> Seq(Item)]
    BY <1>1, <1>4, <1>6 DEF HubTypeOK
  <2>2. buffer' \in [Clients -> 0..BufferSize]
    BY <1>1, <1>6, PushFits DEF HubTypeOK
  <2>3. offered' \in [Clients -> [Events -> Nat]]
    BY <1>1, <1>6 DEF HubTypeOK
  <2>4. caller' \in [Events -> {"ready", "waiting", "publishing", "returned"}]
    BY <1>1, <1>6 DEF HubTypeOK
  <2> QED
    BY <1>1, <1>6, <2>1, <2>2, <2>3, <2>4 DEF HubTypeOK
<1>16. MembersOK'
  BY <1>6 DEF HubInv, MembersOK
<1> QED
  BY <1>11, <1>14, <1>15, <1>16 DEF HubInv

-----------------------------------------------------------------------------
LEMMA HubInitInv == Init => HubInv
<1> SUFFICES ASSUME Init PROVE HubInv
  OBVIOUS
<1>1. HubTypeOK
  <2>1. 0 \in 0..BufferSize /\ 0 \in Nat
    BY Bounds
  <2>2. <<>> \in Seq(Item) /\ <<>> \in Seq(Events)
    OBVIOUS
  <2> QED
    BY <2>1, <2>2 DEF Init, HubTypeOK
<1>2. MembersOK
  BY DEF Init, MembersOK
<1>3. \A i \in Instances : RoutesOK(i)
  <2>1. \A e : <<e>> # <<>>
    OBVIOUS
  <2> QED
    BY <2>1, NoItems DEF Init, RoutesOK, InFlight
<1>4. ASSUME NEW c \in Clients, NEW e \in Events PROVE BudgetOK(c, e)
  <2>1. caller[e] = "ready" /\ offered[c][e] = 0
    BY DEF Init
  <2>2. RelayOpen(c, e) /\ (LocalOpen(c, e) <=> InstanceOf[c] = InstanceOf[e])
    BY <2>1 DEF RelayOpen, LocalOpen
  <2> QED
    BY <2>1, <2>2 DEF BudgetOK, One, Routes
<1> QED
  BY <1>1, <1>2, <1>3, <1>4 DEF HubInv

LEMMA HubStep == HubInv /\ [Next]_vars => HubInv'
<1> SUFFICES ASSUME HubInv, [Next]_vars PROVE HubInv'
  OBVIOUS
<1>1. ASSUME NEW c \in Clients,
             HandleWS(c) \/ WritePump(c) \/ ReadPumpEnds(c) \/ Unregister(c)
      PROVE  HubInv'
  BY <1>1, ConnectionsKeepInv
<1>2. ASSUME NEW i \in Instances,
             BroadcastToClients(i) \/ Hear(i) \/ Broadcast(i) \/ Shutdown(i) \/ Exit(i)
      PROVE  HubInv'
  BY <1>2, BroadcastToClientsKeepsInv, HearKeepsInv, BroadcastKeepsInv, ShutdownKeepsInv,
     ExitKeepsInv
<1>3. ASSUME NEW e \in Events, BroadcastEvent(e) \/ StopWaiting(e) \/ Publish(e)
      PROVE  HubInv'
  BY <1>3, BroadcastEventKeepsInv, StopWaitingKeepsInv, PublishKeepsInv
<1>4. CASE UNCHANGED vars
  <2>1. HubTypeOK' /\ MembersOK'
    BY <1>4 DEF vars, HubInv, HubTypeOK, MembersOK
  <2> QED
    BY <1>4, <2>1, QueuesKept DEF vars, HubInv
<1> QED
  BY <1>1, <1>2, <1>3, <1>4 DEF Next

(* The inductive invariant: who is in a hub's map, where an event can be on  *)
(* its way, and how many offers its open routes can still make.              *)
THEOREM HubInvHolds == Spec => []HubInv
<1> QED
  BY HubInitInv, HubStep, PTL DEF Spec

(* Whatever queues fill, calls time out, messages get lost or instances      *)
(* shut down: no hub offers to a closed channel, and a client is offered an  *)
(* event at most once through Redis, and once more where it was broadcast.   *)
THEOREM DeliveryBounded == Spec => []DeliveryIsBounded
<1>1. ASSUME HubInv PROVE DeliveryIsBounded
  <2>1. \A i \in Instances : members[i] \cap closed = {}
    BY <1>1 DEF HubInv, MembersOK
  <2>2. ASSUME NEW c \in Clients, NEW e \in Events PROVE offered[c][e] <= Routes(c, e)
    <3>1. BudgetOK(c, e) /\ offered[c][e] \in Nat
      BY <1>1 DEF HubInv, HubTypeOK
    <3> QED
      BY <3>1 DEF BudgetOK, One, Routes
  <2> QED
    BY <2>1, <2>2 DEF DeliveryIsBounded, Routes
<1> QED
  BY <1>1, HubInvHolds, PTL
-----------------------------------------------------------------------------
(* Nothing is dropped.  A connected client is in the map of its hub.         *)
WayInv ==
  /\ missed \in [Events -> SUBSET Instances]
  /\ \A c \in Clients : client[c] = "open" => c \in members[InstanceOf[c]]

LEMMA WayStep == HubInv /\ WayInv /\ [Next]_vars => WayInv'
<1> SUFFICES ASSUME HubInv, WayInv, [Next]_vars PROVE WayInv'
  OBVIOUS
<1>1. /\ client \in [Clients -> {"away", "open", "unregistering", "gone"}]
      /\ members \in [Instances -> SUBSET Clients]
      /\ \A c \in Clients : InstanceOf[c] \in Instances
  BY Homes DEF HubInv, HubTypeOK
<1>0. missed' \in [Events -> SUBSET Instances]
  <2>1. \/ UNCHANGED missed
        \/ \E e \in Events, S \in SUBSET Instances : missed' = [missed EXCEPT ![e] = Instances \ S]
    BY DEF Next, vars, connectionVars, HandleWS, WritePump, ReadPumpEnds, Unregister,
           BroadcastToClients, Hear, Broadcast, Shutdown, Exit, BroadcastEvent, StopWaiting,
           Publish
  <2> QED
    BY <2>1 DEF WayInv
<1> SUFFICES ASSUME NEW c \in Clients, client'[c] = "open"
             PROVE  c \in members'[InstanceOf[c]]
  BY <1>0 DEF WayInv
<1>2. CASE UNCHANGED <<client, members>>
  BY <1>2 DEF WayInv
<1>3. ASSUME NEW d \in Clients, HandleWS(d) PROVE c \in members'[InstanceOf[c]]
  <2>1. /\ client' = [client EXCEPT ![d] = "open"]
        /\ members' = [members EXCEPT ![InstanceOf[d]] = members[InstanceOf[d]] \cup {d}]
    BY <1>3 DEF HandleWS
  <2>2. c = d \/ c \in members[InstanceOf[c]]
    BY <1>1, <2>1 DEF WayInv
  <2> QED
    BY <1>1, <2>1, <2>2
<1>4. ASSUME NEW d \in Clients, ReadPumpEnds(d) PROVE c \in members'[InstanceOf[c]]
  BY <1>1, <1>4 DEF ReadPumpEnds, WayInv
<1>5. ASSUME NEW d \in Clients, Unregister(d) PROVE c \in members'[InstanceOf[c]]
  <2>1. /\ client' = [client EXCEPT ![d] = "gone"]
        /\ members' = [members EXCEPT ![InstanceOf[d]] = members[InstanceOf[d]] \ {d}]
    BY <1>5 DEF Unregister, Forget
  <2>2. c # d /\ c \in members[InstanceOf[c]]
    BY <1>1, <2>1 DEF WayInv
  <2> QED
    BY <1>1, <2>1, <2>2
<1>6. ASSUME NEW i \in Instances, Exit(i) PROVE c \in members'[InstanceOf[c]]
  <2>1. /\ client'[c] = IF InstanceOf[c] = i THEN "gone" ELSE client[c]
        /\ members' = [members EXCEPT ![i] = {}]
    BY <1>6 DEF Exit
  <2>2. InstanceOf[c] # i /\ c \in members[InstanceOf[c]]
    BY <2>1 DEF WayInv
  <2> QED
    BY <1>1, <2>1, <2>2
<1>7. \/ \E d \in Clients : HandleWS(d) \/ ReadPumpEnds(d) \/ Unregister(d)
      \/ \E i \in Instances : Exit(i)
      \/ UNCHANGED <<client, members>>
  BY DEF Next, vars, connectionVars, WritePump, BroadcastToClients, Hear, Broadcast,
         Shutdown, BroadcastEvent, StopWaiting, Publish
<1> QED
  BY <1>2, <1>3, <1>4, <1>5, <1>6, <1>7

(* An event among what an instance has heard, and in its queue.              *)
Heard(s, e) == \E n \in DOMAIN s : s[n] = e
Queued(s, e) == \E n \in DOMAIN s : s[n].event = e

LEMMA AppendKeeps ==
  ASSUME NEW S, NEW s \in Seq(S), NEW x \in S, NEW e
  PROVE  /\ Heard(s, e) \/ x = e => Heard(Append(s, x), e)
         /\ Queued(s, e) \/ x.event = e => Queued(Append(s, x), e)
<1>1. /\ DOMAIN s = 1 .. Len(s) /\ Len(s) \in Nat
      /\ DOMAIN Append(s, x) = 1 .. Len(s) + 1 /\ Append(s, x)[Len(s) + 1] = x
      /\ \A n \in 1 .. Len(s) : Append(s, x)[n] = s[n]
  OBVIOUS
<1>2. /\ \A n \in DOMAIN s : n \in DOMAIN Append(s, x) /\ Append(s, x)[n] = s[n]
      /\ \E n \in DOMAIN Append(s, x) : Append(s, x)[n] = x
  BY <1>1
<1> QED
  BY <1>2, Zenon DEF Heard, Queued

LEMMA TailKeeps ==
  ASSUME NEW S, NEW s \in Seq(S), s # <<>>, NEW e
  PROVE  /\ Heard(s, e) => Head(s) = e \/ Heard(Tail(s), e)
         /\ Queued(s, e) => Head(s).event = e \/ Queued(Tail(s), e)
<1>1. /\ DOMAIN s = 1 .. Len(s) /\ Len(s) \in Nat \ {0} /\ Head(s) = s[1]
      /\ DOMAIN Tail(s) = 1 .. Len(s) - 1
      /\ \A n \in 1 .. Len(s) - 1 : Tail(s)[n] = s[n + 1]
  OBVIOUS
<1>2. ASSUME NEW n \in DOMAIN s
      PROVE  s[n] = Head(s) \/ \E m \in DOMAIN Tail(s) : Tail(s)[m] = s[n]
  <2>1. CASE n = 1
    BY <1>1, <2>1
  <2>2. CASE n # 1
    <3>1. n - 1 \in 1 .. Len(s) - 1 /\ (n - 1) + 1 = n
      BY <1>1, <2>2
    <3> QED
      BY <1>1, <3>1
  <2> QED
    BY <2>1, <2>2
<1> QED
  BY <1>2, Zenon DEF Heard, Queued

LEMMA WayParts ==
  ASSUME NEW c \in Clients, NEW e \in Events
  PROVE  OnItsWay(c, e) <=> \/ caller[e] \in {"waiting", "publishing"}
                            \/ Heard(heard[InstanceOf[c]], e)
                            \/ relay[InstanceOf[c]] = <<e>>
                            \/ Queued(queue[InstanceOf[c]], e)
BY DEF OnItsWay, Heard, Queued

(* The steps of a hub.                                                       *)
LEMMA HubKeepsWay ==
  ASSUME HubInv, WayInv, NEW c \in Clients, NEW e \in Events, OnItsWay(c, e),
         ~Excused(c, e), ~Excused(c, e)', NEW j \in Instances,
         BroadcastToClients(j) \/ Hear(j) \/ Broadcast(j) \/ Shutdown(j) \/ Exit(j)
  PROVE  OnItsWay(c, e)' \/ offered'[c][e] > offered[c][e]
<1> DEFINE i == InstanceOf[c]
<1>1. /\ i \in Instances /\ InstanceOf[e] \in Instances
      /\ queue \in [Instances -> Seq(Item)] /\ heard \in [Instances -> Seq(Events)]
      /\ relay \in [Instances -> {<<>>} \cup {<<d>> : d \in Events}]
      /\ caller \in [Events -> {"ready", "waiting", "publishing", "returned"}]
      /\ offered[c][e] \in Nat /\ offered \in [Clients -> [Events -> Nat]]
      /\ run \in [Instances -> {"serving", "returned", "exited"}]
  BY Homes DEF HubInv, HubTypeOK
<1>2. /\ run[i] = "serving" /\ run'[i] = "serving" /\ c \in members[i]
      /\ run[InstanceOf[e]] # "exited" /\ run'[InstanceOf[e]] # "exited"
  BY DEF Excused, WayInv, Up
<1>3. \/ caller[e] \in {"waiting", "publishing"} \/ Heard(heard[i], e)
      \/ relay[i] = <<e>> \/ Queued(queue[i], e)
  BY WayParts
<1> HIDE DEF i
<1> SUFFICES \/ caller'[e] \in {"waiting", "publishing"} \/ Heard(heard'[i], e)
             \/ relay'[i] = <<e>> \/ Queued(queue'[i], e)
             \/ offered'[c][e] > offered[c][e]
  BY DEF OnItsWay, Heard, Queued, i
<1>4. CASE BroadcastToClients(j)
  <2>1. UNCHANGED <<heard, relay>> /\ queue' = [queue EXCEPT ![j] = Tail(queue[j])]
    BY <1>4 DEF BroadcastToClients
  <2>2. caller[e] \in {"waiting", "publishing"} => caller'[e] \in {"waiting", "publishing"}
    BY <1>1, <1>4 DEF BroadcastToClients
  <2>3. CASE Queued(queue[i], e)
    <3>1. CASE i # j
      BY <1>1, <2>1, <2>3, <3>1
    <3>2. CASE i = j /\ Head(queue[i]).event = e
      <4>1. offered'[c] = [offered[c] EXCEPT ![e] = offered[c][e] + 1]
        BY <1>2, <1>4, <3>2 DEF BroadcastToClients
      <4>2. offered'[c][e] = offered[c][e] + 1
        BY <1>1, <4>1
      <4> QED
        BY <1>1, <4>2
    <3>3. CASE i = j /\ Head(queue[i]).event # e
      <4>1. queue[i] # <<>> /\ queue[i] \in Seq(Item) /\ queue'[i] = Tail(queue[i])
        BY <1>1, <1>4, <2>1, <3>3 DEF BroadcastToClients
      <4> QED
        BY <2>3, <3>3, <4>1, TailKeeps
    <3> QED
      BY <3>1, <3>2, <3>3
  <2> QED
    BY <1>3, <2>1, <2>2, <2>3
<1>5. CASE Hear(j)
  <2>1. /\ UNCHANGED <<queue, caller>> /\ relay[j] = <<>> /\ heard[j] # <<>>
        /\ relay' = [relay EXCEPT ![j] = <<Head(heard[j])>>]
        /\ heard' = [heard EXCEPT ![j] = Tail(heard[j])]
    BY <1>5 DEF Hear
  <2>2. <<e>> # <<>>
    OBVIOUS
  <2>3. CASE relay[i] = <<e>>
    <3>1. i # j
      BY <2>1, <2>2, <2>3
    <3> QED
      BY <1>1, <2>1, <2>3, <3>1
  <2>4. CASE Heard(heard[i], e)
    <3>1. CASE i # j
      BY <1>1, <2>1, <2>4, <3>1
    <3>2. CASE i = j
      <4>1. heard[i] \in Seq(Events) /\ heard[i] # <<>> /\ heard'[i] = Tail(heard[i])
            /\ relay'[i] = <<Head(heard[i])>>
        BY <1>1, <2>1, <3>2
      <4>2. Head(heard[i]) = e \/ Heard(Tail(heard[i]), e)
        BY <2>4, <4>1, TailKeeps
      <4> QED
        BY <4>1, <4>2
    <3> QED
      BY <3>1, <3>2
  <2> QED
    BY <1>3, <2>1, <2>3, <2>4
<1>6. CASE Broadcast(j)
  <2>1. /\ UNCHANGED <<heard, caller>> /\ relay[j] # <<>>
        /\ queue' = [queue EXCEPT ![j] = Append(queue[j], Relayed(relay[j][1]))]
        /\ relay' = [relay EXCEPT ![j] = <<>>]
    BY <1>6 DEF Broadcast, Relayed
  <2>2. PICK d \in Events : relay[j] = <<d>>
    BY <1>1, <2>1
  <2>3. queue[j] \in Seq(Item) /\ Relayed(d) \in Item /\ Relayed(d).event = d
    BY <1>1, ItemParts DEF Relayed
  <2>4. queue' = [queue EXCEPT ![j] = Append(queue[j], Relayed(d))]
    BY <2>1, <2>2
  <2>5. CASE Queued(queue[i], e) \/ (relay[i] = <<e>> /\ i = j)
    <3>1. CASE i # j
      BY <1>1, <2>4, <2>5, <3>1
    <3>2. CASE i = j
      <4>1. queue'[i] = Append(queue[i], Relayed(d)) /\ queue[i] \in Seq(Item)
        BY <1>1, <2>4, <3>2
      <4>2. Queued(queue[i], e) \/ Relayed(d).event = e
        BY <2>2, <2>3, <2>5, <3>2
      <4> QED
        BY <2>3, <4>1, <4>2, AppendKeeps
    <3> QED
      BY <3>1, <3>2
  <2>6. CASE relay[i] = <<e>> /\ i # j
    BY <1>1, <2>1, <2>6
  <2> QED
    BY <1>3, <2>1, <2>5, <2>6
<1>7. CASE Shutdown(j)
  <2>1. j # i
    BY <1>1, <1>2, <1>7 DEF Shutdown
  <2> QED
    BY <1>1, <1>3, <1>7, <2>1 DEF Shutdown
<1>8. CASE Exit(j)
  <2>1. j # i /\ j # InstanceOf[e]
    BY <1>1, <1>2, <1>8 DEF Exit
  <2>2. caller'[e] = caller[e] /\ queue'[i] = queue[i] /\ UNCHANGED <<heard, relay>>
    BY <1>1, <1>8, <2>1 DEF Exit
  <2> QED
    BY <1>3, <2>2
<1> QED
  BY <1>4, <1>5, <1>6, <1>7, <1>8

(* The steps of a broadcast.                                                 *)
LEMMA CallKeepsWay ==
  ASSUME HubInv, WayInv, NEW c \in Clients, NEW e \in Events, OnItsWay(c, e),
         ~Excused(c, e), ~Excused(c, e)', NEW d \in Events,
         BroadcastEvent(d) \/ StopWaiting(d) \/ Publish(d)
  PROVE  OnItsWay(c, e)'
<1> DEFINE i == InstanceOf[c]
<1>1. /\ i \in Instances /\ InstanceOf[d] \in Instances
      /\ queue \in [Instances -> Seq(Item)] /\ heard \in [Instances -> Seq(Events)]
      /\ caller \in [Events -> {"ready", "waiting", "publishing", "returned"}]
  BY Homes DEF HubInv, HubTypeOK
<1>2. \/ caller[e] \in {"waiting", "publishing"} \/ Heard(heard[i], e)
      \/ relay[i] = <<e>> \/ Queued(queue[i], e)
  BY WayParts
<1>3. i \notin missed'[e]
  BY DEF Excused
<1> HIDE DEF i
<1> SUFFICES \/ caller'[e] \in {"waiting", "publishing"} \/ Heard(heard'[i], e)
             \/ relay'[i] = <<e>> \/ Queued(queue'[i], e)
  BY DEF OnItsWay, Heard, Queued, i
<1>4. CASE BroadcastEvent(d)
  <2>1. /\ UNCHANGED <<heard, relay>> /\ caller[d] = "ready"
        /\ caller' \in {[caller EXCEPT ![d] = "waiting"], [caller EXCEPT ![d] = "returned"]}
    BY <1>4 DEF BroadcastEvent
  <2>2. caller[e] \in {"waiting", "publishing"} => caller'[e] = caller[e]
    BY <1>1, <2>1
  <2>3. Queued(queue[i], e) => Queued(queue'[i], e)
    <3>1. \/ queue' = queue
          \/ queue' = [queue EXCEPT ![InstanceOf[d]] = Append(queue[InstanceOf[d]], Local(d))]
      BY <1>4 DEF BroadcastEvent, Local
    <3>2. queue'[i] = queue[i] \/ queue'[i] = Append(queue[i], Local(d))
      BY <1>1, <3>1
    <3>3. queue[i] \in Seq(Item) /\ Local(d) \in Item
      BY <1>1, ItemParts
    <3> QED
      BY <3>2, <3>3, AppendKeeps
  <2> QED
    BY <1>2, <2>1, <2>2, <2>3
<1>5. CASE StopWaiting(d)
  BY <1>1, <1>2, <1>5 DEF StopWaiting
<1>6. CASE Publish(d)
  <2>1. PICK reached \in SUBSET {j \in Instances : run[j] = "serving"} :
          /\ heard' = [j \in Instances |-> IF j \in reached THEN Append(heard[j], d) ELSE heard[j]]
          /\ missed' = [missed EXCEPT ![d] = Instances \ reached]
    BY <1>6 DEF Publish
  <2>2. UNCHANGED <<queue, relay>> /\ caller' = [caller EXCEPT ![d] = "returned"]
    BY <1>6 DEF Publish
  <2>3. heard[i] \in Seq(Events)
        /\ heard'[i] = IF i \in reached THEN Append(heard[i], d) ELSE heard[i]
    BY <1>1, <2>1
  <2>4. Heard(heard[i], e) => Heard(heard'[i], e)
    BY <2>3, AppendKeeps
  <2>5. CASE d = e /\ caller[e] \in {"waiting", "publishing"}
    <3>1. missed'[e] = Instances \ reached
      BY <2>1, <2>5 DEF WayInv
    <3>2. heard'[i] = Append(heard[i], e)
      BY <1>1, <1>3, <2>3, <2>5, <3>1
    <3>3. Heard(heard'[i], e)
      BY <1>1, <3>2, AppendKeeps
    <3> QED
      BY <3>3
  <2>6. CASE d # e /\ caller[e] \in {"waiting", "publishing"}
    BY <1>1, <2>2, <2>6
  <2> QED
    BY <1>2, <2>2, <2>4, <2>5, <2>6
<1> QED
  BY <1>4, <1>5, <1>6

(* Whatever fills and whoever is slow: an event on its way to a connected    *)
(* client stays on its way until the step that offers it.                    *)
THEOREM EventsAreNotDropped == Spec => NothingIsDropped
<1>1. Init => WayInv
  BY DEF Init, WayInv
<1>2. ASSUME HubInv, WayInv, [Next]_vars, NEW c \in Clients, NEW e \in Events,
             OnItsWay(c, e), ~Excused(c, e), ~Excused(c, e)'
      PROVE  OnItsWay(c, e)' \/ offered'[c][e] > offered[c][e]
  <2>1. ASSUME NEW j \in Instances,
               BroadcastToClients(j) \/ Hear(j) \/ Broadcast(j) \/ Shutdown(j) \/ Exit(j)
        PROVE  OnItsWay(c, e)' \/ offered'[c][e] > offered[c][e]
    BY <1>2, <2>1, HubKeepsWay
  <2>2. ASSUME NEW d \in Events, BroadcastEvent(d) \/ StopWaiting(d) \/ Publish(d)
        PROVE  OnItsWay(c, e)'
    BY <1>2, <2>2, CallKeepsWay
  <2>3. CASE UNCHANGED <<queue, heard, relay, caller>>
    BY <1>2, <2>3 DEF OnItsWay
  <2>4. (\E d \in Clients : HandleWS(d) \/ WritePump(d) \/ ReadPumpEnds(d) \/ Unregister(d))
          \/ UNCHANGED vars => UNCHANGED <<queue, heard, relay, caller>>
    BY DEF HandleWS, WritePump, ReadPumpEnds, Unregister, vars
  <2> QED
    BY <1>2, <2>1, <2>2, <2>3, <2>4 DEF Next
<1>3. HubInv /\ WayInv /\ [Next]_vars =>
        [\A c \in Clients, e \in Events :
           (OnItsWay(c, e) /\ ~Excused(c, e)) =>
             OnItsWay(c, e)' \/ offered'[c][e] > offered[c][e] \/ Excused(c, e)']_vars
  BY <1>2
<1> QED
  BY <1>1, <1>3, HubInitInv, HubStep, WayStep, PTL DEF Spec, NothingIsDropped
=============================================================================
