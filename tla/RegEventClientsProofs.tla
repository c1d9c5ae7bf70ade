------------------------- MODULE RegEventClientsProofs -------------------------
(***************************************************************************)
(* The structural invariants of RegEventClients, proved for every value of  *)
(* the constants.                                                            *)
(***************************************************************************)
EXTENDS RegEventClients, FiniteSetTheorems, TLAPS

\* A free slot keeps nothing of the client it held.
FreeSlotsAreClean ==
    \A c \in Clients \ live :
        /\ mTo[c] = Null
        /\ mSubscribeEvent[c] = Null
        /\ mObservers[c] = {}
        /\ mParticipantDevices[c] = {}

\* The event of a client leads back to the client.
EventsLeadToTheirClient ==
    \A c \in Clients : mSubscribeEvent[c] # Null => evData[mSubscribeEvent[c]] = c

\* The store finds only living clients, under their own address.
StoreFindsLiveClients ==
    \A a \in Addresses : mClients[a] # Null =>
        /\ mClients[a] \in live
        /\ mTo[mClients[a]] = a

DialogInv == /\ FreeSlotsAreClean
             /\ EventsLeadToTheirClient
             /\ EventDataIsCurrent
             /\ OpenSubscriptionsAreOwned

StoreInv == /\ OneClientPerAddress
            /\ StoreFindsLiveClients

IInv == TypeOK /\ DialogInv /\ StoreInv /\ FactoryListensForClients

\* A listener observes one client at most.
ListenersObserveOnce ==
    \A c1, c2 \in Clients : c1 # c2 => mObservers[c1] \cap mObservers[c2] = {}

\* A free event has no history.
FreeEventsAreUnheard == \A e \in Events : evState[e] = "free" => e \notin heard

\* The devices of a client came in a NOTIFY of its current event.
KnownDevicesCame ==
    \A c \in Clients : mParticipantDevices[c] # {} => mSubscribeEvent[c] \in heard

ViewInv == /\ ListenersObserveOnce
           /\ FreeEventsAreUnheard
           /\ ObserversKnowTheDevices
           /\ KnownDevicesCame

-----------------------------------------------------------------------------
(* The initial states have no client and no event. *)
LEMMA InitIInv == Init => IInv
<1> SUFFICES ASSUME Init PROVE IInv
  OBVIOUS
<1>1. Cardinality(live) = 0 /\ live = {}
  BY FS_EmptySet DEF Init
<1>2. TypeOK
  BY DEF Init, TypeOK, Unknown
<1>3. DialogInv
  BY NullIsNothing DEF Init, DialogInv, FreeSlotsAreClean, EventsLeadToTheirClient,
     EventDataIsCurrent, OpenSubscriptionsAreOwned
<1>4. StoreInv
  BY DEF Init, StoreInv, OneClientPerAddress, StoreFindsLiveClients
<1>5. FactoryListensForClients
  BY <1>1 DEF Init, FactoryListensForClients
<1> QED
  BY <1>2, <1>3, <1>4, <1>5 DEF IInv

(* The living clients are finitely many, so their count is a number that is   *)
(* zero only when there is none.                                              *)
LEMMA LiveIsFinite ==
    ASSUME TypeOK
    PROVE  /\ IsFiniteSet(live)
           /\ Cardinality(live) \in Nat
           /\ Cardinality(live) = 0 <=> live = {}
BY ClientsFinite, FS_Subset, FS_CardinalityType, FS_EmptySet DEF TypeOK

(* Sharing a living client, or constructing one in a free slot, keeps the     *)
(* store and the factory's count right.                                       *)
LEMMA AcquireKeepsStore ==
    ASSUME IInv, NEW a \in Addresses, NEW c \in Clients, AcquireClient(a, c)
    PROVE  /\ live' \subseteq Clients
           /\ mTo' \in [Clients -> Addresses \cup {Null}]
           /\ mClients' \in [Addresses -> Clients \cup {Null}]
           /\ mUseCount' \in Nat
           /\ mListening' \in BOOLEAN
           /\ StoreInv'
           /\ FactoryListensForClients'
           /\ live' = live \cup {c}
           /\ \A x \in Clients : x # c => mTo'[x] = mTo[x]
<1> USE DEF IInv, TypeOK, StoreInv, FactoryListensForClients
<1>n. Null \notin Clients /\ Null \notin Addresses
  BY NullIsNothing
<1>1. CASE c = mClients[a] /\ UNCHANGED <<live, mTo, storeVars>>
  <2>1. c \in live /\ live' = live
    BY <1>1, <1>n DEF StoreFindsLiveClients
  <2> QED
    BY <1>1, <2>1 DEF storeVars, OneClientPerAddress, StoreFindsLiveClients
<1>2. CASE /\ mClients[a] = Null
           /\ c \notin live
           /\ live' = live \cup {c}
           /\ mTo' = [mTo EXCEPT ![c] = a]
           /\ mClients' = [mClients EXCEPT ![a] = c]
           /\ RegisterClient
  <2>1. Cardinality(live') = Cardinality(live) + 1
    BY <1>2, LiveIsFinite, FS_AddElement
  <2>2. FactoryListensForClients'
    BY <1>2, <2>1, LiveIsFinite DEF RegisterClient
  <2>3. OneClientPerAddress'
    <3> SUFFICES ASSUME NEW x \in live'
                 PROVE  mTo'[x] \in Addresses /\ mClients'[mTo'[x]] = x
      BY DEF OneClientPerAddress
    <3>1. CASE x = c
      BY <1>2, <3>1
    <3>2. CASE x # c
      BY <1>2, <1>n, <3>2 DEF OneClientPerAddress
    <3> QED
      BY <3>1, <3>2
  <2>4. StoreFindsLiveClients'
    <3> SUFFICES ASSUME NEW b \in Addresses, mClients'[b] # Null
                 PROVE  mClients'[b] \in live' /\ mTo'[mClients'[b]] = b
      BY DEF StoreFindsLiveClients
    <3>1. CASE b = a
      BY <1>2, <3>1
    <3>2. CASE b # a
      BY <1>2, <3>2 DEF StoreFindsLiveClients
    <3> QED
      BY <3>1, <3>2
  <2> QED
    BY <1>2, <2>1, <2>2, <2>3, <2>4, LiveIsFinite DEF RegisterClient
<1> QED
  BY <1>1, <1>2 DEF AcquireClient

-----------------------------------------------------------------------------
(* A listener starts: either it joins a client that has its event, or the     *)
(* client takes a free event.                                                 *)
LEMMA StartStep ==
    ASSUME IInv, NEW l \in Listeners, NEW a \in Addresses, Start(l, a)
    PROVE  IInv'
<1> USE DEF IInv, TypeOK
<1>n. Null \notin Clients /\ Null \notin Events
  BY NullIsNothing
<1>1. PICK c \in Clients :
        /\ AcquireClient(a, c)
        /\ mObservers' = [mObservers EXCEPT ![c] = @ \cup {l}]
        /\ Subscribe(c, l)
        /\ refreshes' = {}
        /\ UNCHANGED <<mParticipantDevices, heard>>
  BY DEF Start
<1>2. /\ live' \subseteq Clients
      /\ mTo' \in [Clients -> Addresses \cup {Null}]
      /\ mClients' \in [Addresses -> Clients \cup {Null}]
      /\ mUseCount' \in Nat
      /\ mListening' \in BOOLEAN
      /\ StoreInv'
      /\ FactoryListensForClients'
      /\ live' = live \cup {c}
      /\ \A x \in Clients : x # c => mTo'[x] = mTo[x]
  BY <1>1, AcquireKeepsStore
<1>3. TypeOK' /\ DialogInv'
  <2> USE DEF DialogInv, FreeSlotsAreClean, EventsLeadToTheirClient,
          EventDataIsCurrent, OpenSubscriptionsAreOwned
  <2>1. CASE /\ mSubscribeEvent[c] # Null
             /\ told' = [told EXCEPT ![l] = mParticipantDevices[c]]
             /\ UNCHANGED <<mSubscribeEvent, evState, evData>>
    <3>1. TypeOK'
      BY <1>1, <1>2, <2>1
    <3>2. FreeSlotsAreClean' /\ EventsLeadToTheirClient'
      BY <1>1, <1>2, <2>1
    <3>3. EventDataIsCurrent' /\ OpenSubscriptionsAreOwned'
      BY <1>2, <2>1
    <3> QED
      BY <3>1, <3>2, <3>3
  <2>2. ASSUME mSubscribeEvent[c] = Null, UNCHANGED told, NEW e \in Events,
               evState[e] = "free",
               mSubscribeEvent' = [mSubscribeEvent EXCEPT ![c] = e],
               evState' = [evState EXCEPT ![e] = "open"],
               evData' = [evData EXCEPT ![e] = c]
        PROVE  TypeOK' /\ DialogInv'
    <3>1. TypeOK'
      BY <1>1, <1>2, <2>2
    <3>2. FreeSlotsAreClean'
      BY <1>1, <1>2, <2>2
    <3>3. evData[e] = Null
      BY <2>2
    <3>4. EventsLeadToTheirClient'
      BY <1>n, <1>2, <2>2, <3>3
    <3>5. EventDataIsCurrent'
      BY <1>n, <1>2, <2>2
    <3>6. OpenSubscriptionsAreOwned'
      <4> SUFFICES ASSUME NEW f \in Events, evState'[f] = "open"
                   PROVE  \E x \in live' : mSubscribeEvent'[x] = f /\ evData'[f] = x
        OBVIOUS
      <4>1. CASE f = e
        BY <1>2, <2>2, <4>1
      <4>2. CASE f # e
        <5>1. PICK x \in live : mSubscribeEvent[x] = f /\ evData[f] = x
          BY <2>2, <4>2
        <5> QED
          BY <1>n, <1>2, <2>2, <4>2, <5>1
      <4> QED
        BY <4>1, <4>2
    <3> QED
      BY <3>1, <3>2, <3>4, <3>5, <3>6
  <2> QED
    BY <1>1, <2>1, <2>2 DEF Subscribe
<1> QED
  BY <1>2, <1>3

-----------------------------------------------------------------------------
(* Listeners stop: the clients nobody else holds are destroyed with their     *)
(* events, whatever their number.                                             *)
LEMMA ReleaseStep ==
    ASSUME IInv, NEW ls \in SUBSET Listeners, Release(ls)
    PROVE  IInv'
<1> DEFINE dead == HeldOnlyBy(ls)
<1> USE DEF IInv, TypeOK
<1>n. Null \notin Clients /\ Null \notin Events
  BY NullIsNothing
<1>1. dead \subseteq live
  BY DEF HeldOnlyBy
<1>2. /\ mObservers' = [c \in Clients |-> mObservers[c] \ ls]
      /\ told' = [l \in Listeners |-> IF l \in ls THEN Unknown ELSE told[l]]
      /\ refreshes' = {}
      /\ Destroy(dead)
  BY DEF Release
<1> HIDE DEF dead
<1>3. /\ mUseCount' = Cardinality(live')
      /\ mUseCount' \in Nat
      /\ mListening' \in BOOLEAN
      /\ mListening' <=> live' # {}
  <2>1. /\ live' = live \ dead
        /\ mUseCount' = mUseCount - Cardinality(dead)
        /\ mListening' = (mListening /\ mUseCount' # 0)
    BY <1>2 DEF Destroy, UnregisterClients
  <2>2. /\ IsFiniteSet(live)
        /\ Cardinality(live) \in Nat
    BY LiveIsFinite
  <2>3. Cardinality(live \ dead) = Cardinality(live) - Cardinality(live \cap dead)
    BY <2>2, FS_Difference
  <2>4. live \cap dead = dead
    BY <1>1
  <2>5. /\ IsFiniteSet(live \ dead)
        /\ Cardinality(live \ dead) \in Nat
        /\ Cardinality(live \ dead) = 0 <=> live \ dead = {}
    BY <2>2, FS_Difference, FS_CardinalityType, FS_EmptySet
  <2> QED
    BY <2>1, <2>2, <2>3, <2>4, <2>5 DEF FactoryListensForClients
<1>4. TypeOK'
  <2>1. live' \subseteq Clients /\ mTo' \in [Clients -> Addresses \cup {Null}]
    BY <1>2 DEF Destroy
  <2>2. /\ mSubscribeEvent' \in [Clients -> Events \cup {Null}]
        /\ mParticipantDevices' \in [Clients -> SUBSET Devices]
        /\ mObservers' \in [Clients -> SUBSET Listeners]
    BY <1>2 DEF Destroy
  <2>3. mClients' \in [Addresses -> Clients \cup {Null}]
    BY <1>2 DEF Destroy
  <2>4. /\ evState' \in [Events -> {"free", "open", "closing"}]
        /\ evData' \in [Events -> Clients \cup {Null}]
        /\ heard' \subseteq Events
    BY <1>2 DEF Destroy, Unsubscribe
  <2>5. /\ told' \in [Listeners -> (SUBSET Devices) \cup {Unknown}]
        /\ refreshes' \subseteq Listeners \X Devices
    BY <1>2
  <2> QED
    BY <1>3, <2>1, <2>2, <2>3, <2>4, <2>5
<1>5. DialogInv'
  <2> USE DEF DialogInv
  <2>1. /\ live' = live \ dead
        /\ mTo' = [c \in Clients |-> IF c \in dead THEN Null ELSE mTo[c]]
        /\ mSubscribeEvent' =
             [c \in Clients |-> IF c \in dead THEN Null ELSE mSubscribeEvent[c]]
        /\ mParticipantDevices' =
             [c \in Clients |-> IF c \in dead THEN {} ELSE mParticipantDevices[c]]
    BY <1>2 DEF Destroy
  <2> DEFINE closed == {e \in Events : \E c \in dead : mSubscribeEvent[c] = e}
  <2>2. /\ evData' = [e \in Events |-> IF e \in closed THEN Null ELSE evData[e]]
        /\ evState' = [e \in Events |-> IF e \in closed THEN "closing" ELSE evState[e]]
    BY <1>2 DEF Destroy, Unsubscribe
  <2>3. FreeSlotsAreClean'
    <3> SUFFICES ASSUME NEW c \in Clients, c \notin live'
                 PROVE  /\ mTo'[c] = Null
                        /\ mSubscribeEvent'[c] = Null
                        /\ mObservers'[c] = {}
                        /\ mParticipantDevices'[c] = {}
      BY DEF FreeSlotsAreClean
    <3>1. CASE c \in dead
      BY <1>2, <2>1, <3>1 DEF dead, HeldOnlyBy
    <3>2. CASE c \notin dead
      BY <1>2, <2>1, <3>2 DEF FreeSlotsAreClean
    <3> QED
      BY <3>1, <3>2
  \* no two clients have the same event
  <2>4. \A e \in Events, c \in Clients :
            mSubscribeEvent[c] = e /\ c \notin dead => e \notin closed
    BY <1>1, <1>n DEF EventsLeadToTheirClient
  <2> HIDE DEF closed
  <2>5. EventsLeadToTheirClient'
    BY <1>n, <2>1, <2>2, <2>4 DEF EventsLeadToTheirClient
  <2>6. EventDataIsCurrent'
    <3> SUFFICES ASSUME NEW e \in Events, evData'[e] # Null
                 PROVE  /\ evData'[e] \in live'
                        /\ mSubscribeEvent'[evData'[e]] = e
                        /\ evState'[e] = "open"
      BY DEF EventDataIsCurrent
    <3>1. e \notin closed /\ evData'[e] = evData[e]
      BY <2>2
    <3>2. /\ evData[e] \in live
          /\ mSubscribeEvent[evData[e]] = e
          /\ evState[e] = "open"
      BY <3>1 DEF EventDataIsCurrent
    <3>3. evData[e] \notin dead
      BY <3>1, <3>2 DEF closed
    <3> QED
      BY <2>1, <2>2, <3>1, <3>2, <3>3
  <2>7. OpenSubscriptionsAreOwned'
    <3> SUFFICES ASSUME NEW e \in Events, evState'[e] = "open"
                 PROVE  \E c \in live' : mSubscribeEvent'[c] = e /\ evData'[e] = c
      BY DEF OpenSubscriptionsAreOwned
    <3>1. e \notin closed /\ evState[e] = "open"
      BY <2>2
    <3>2. PICK c \in live : mSubscribeEvent[c] = e /\ evData[e] = c
      BY <3>1 DEF OpenSubscriptionsAreOwned
    <3>3. c \notin dead
      BY <3>1, <3>2 DEF closed
    <3> QED
      BY <2>1, <2>2, <3>1, <3>2, <3>3
  <2> QED
    BY <2>3, <2>5, <2>6, <2>7
<1>6. StoreInv'
  BY <1>n, <1>2 DEF Destroy, StoreInv, OneClientPerAddress, StoreFindsLiveClients
<1> QED
  BY <1>3, <1>4, <1>5, <1>6 DEF FactoryListensForClients

-----------------------------------------------------------------------------
(* A NOTIFY changes what is known, never the structure. *)
LEMMA NotifyStep ==
    ASSUME IInv, NEW e \in Events, NEW doc \in Documents, NotifyReceived(e, doc)
    PROVE  IInv'
<1> USE DEF IInv, TypeOK, storeVars
<1>1. PICK c \in Clients : DispatchedTo(e, c) /\ OnNotifyReceived(c, doc)
  BY DEF NotifyReceived
<1>2. UNCHANGED <<live, mTo, mSubscribeEvent, mObservers, mClients, mUseCount,
                  mListening, evState, evData>>
  BY DEF NotifyReceived
<1>3. doc.contacts \in SUBSET Devices /\ doc.refreshed \in SUBSET Devices
  BY DEF Documents
<1>4. /\ mParticipantDevices' \in [Clients -> SUBSET Devices]
      /\ \A x \in Clients : x # c => mParticipantDevices'[x] = mParticipantDevices[x]
      /\ told' \in [Listeners -> (SUBSET Devices) \cup {Unknown}]
      /\ refreshes' \subseteq Listeners \X Devices
  BY <1>1, <1>3 DEF OnNotifyReceived, Tell
<1>5. TypeOK'
  BY <1>2, <1>4 DEF NotifyReceived
<1>6. c \in live
  BY <1>1, NullIsNothing DEF DialogInv, EventDataIsCurrent, DispatchedTo
<1>7. DialogInv'
  BY <1>2, <1>4, <1>6 DEF DialogInv, FreeSlotsAreClean, EventsLeadToTheirClient,
     EventDataIsCurrent, OpenSubscriptionsAreOwned
<1>8. StoreInv' /\ FactoryListensForClients'
  BY <1>2 DEF StoreInv, OneClientPerAddress, StoreFindsLiveClients,
     FactoryListensForClients
<1> QED
  BY <1>5, <1>7, <1>8

(* The end of an event the factory dispatches: the client it reaches is the   *)
(* one whose current event ended, so acting on the current event is right.    *)
LEMMA EndedStep ==
    ASSUME IInv, NEW e \in Events, SubscriptionEnded(e)
    PROVE  IInv'
<1> USE DEF IInv, TypeOK, storeVars
<1>n. Null \notin Clients /\ Null \notin Events
  BY NullIsNothing
<1>1. PICK c \in Clients : DispatchedTo(e, c) /\ OnSubscriptionEnded(c)
  BY DEF SubscriptionEnded
<1>2. /\ UNCHANGED <<live, mTo, mObservers, mClients, mUseCount, mListening, told>>
      /\ evState' = [evState EXCEPT ![e] = "free"]
      /\ heard' = heard \ {e}
      /\ refreshes' = {}
  BY DEF SubscriptionEnded
<1>3. c \in live /\ mSubscribeEvent[c] = e
  BY <1>1, <1>n DEF DialogInv, EventDataIsCurrent, DispatchedTo
<1>4. /\ evData' = [evData EXCEPT ![e] = Null]
      /\ mSubscribeEvent' = [mSubscribeEvent EXCEPT ![c] = Null]
      /\ mParticipantDevices' = [mParticipantDevices EXCEPT ![c] = {}]
  BY <1>1, <1>3 DEF OnSubscriptionEnded
<1>5. TypeOK'
  BY <1>2, <1>4
<1>6. DialogInv'
  <2> USE DEF DialogInv
  <2>1. FreeSlotsAreClean'
    BY <1>2, <1>3, <1>4 DEF FreeSlotsAreClean
  <2>2. EventsLeadToTheirClient'
    BY <1>n, <1>1, <1>4 DEF EventsLeadToTheirClient, DispatchedTo
  <2>3. EventDataIsCurrent'
    BY <1>n, <1>2, <1>3, <1>4 DEF EventDataIsCurrent
  <2>4. OpenSubscriptionsAreOwned'
    BY <1>n, <1>2, <1>3, <1>4 DEF OpenSubscriptionsAreOwned
  <2> QED
    BY <2>1, <2>2, <2>3, <2>4
<1>7. StoreInv' /\ FactoryListensForClients'
  BY <1>2 DEF StoreInv, OneClientPerAddress, StoreFindsLiveClients,
     FactoryListensForClients
<1> QED
  BY <1>5, <1>6, <1>7

(* An end that reaches no client is the end of an event no client holds.      *)
LEMMA ClosedStep ==
    ASSUME IInv, NEW e \in Events, SubscriptionClosed(e)
    PROVE  IInv'
<1> USE DEF IInv, TypeOK, storeVars, clientVars
<1>n. Null \notin Clients /\ Null \notin Events
  BY NullIsNothing
<1>1. /\ UNCHANGED <<live, mTo, mSubscribeEvent, mParticipantDevices, mObservers,
                     mClients, mUseCount, mListening, evData, told>>
      /\ evState' = [evState EXCEPT ![e] = "free"]
      /\ heard' = heard \ {e}
      /\ refreshes' = {}
      /\ \A c \in Clients : ~DispatchedTo(e, c)
  BY DEF SubscriptionClosed
<1>2. evData[e] = Null
  <2> SUFFICES ASSUME evData[e] # Null PROVE FALSE
    OBVIOUS
  <2>1. evData[e] \in live
    BY DEF DialogInv, EventDataIsCurrent
  <2>2. mListening
    BY <2>1 DEF FactoryListensForClients
  <2> QED
    BY <1>1, <2>1, <2>2 DEF DispatchedTo
<1>3. TypeOK'
  BY <1>1
<1>4. DialogInv'
  <2> USE DEF DialogInv
  <2>1. FreeSlotsAreClean' /\ EventsLeadToTheirClient'
    BY <1>1 DEF FreeSlotsAreClean, EventsLeadToTheirClient
  <2>2. EventDataIsCurrent'
    BY <1>1, <1>2 DEF EventDataIsCurrent
  <2>3. OpenSubscriptionsAreOwned'
    BY <1>1 DEF OpenSubscriptionsAreOwned
  <2> QED
    BY <2>1, <2>2, <2>3
<1>5. StoreInv' /\ FactoryListensForClients'
  BY <1>1 DEF StoreInv, OneClientPerAddress, StoreFindsLiveClients,
     FactoryListensForClients
<1> QED
  BY <1>3, <1>4, <1>5

-----------------------------------------------------------------------------
(* Every step of the clients keeps the inductive invariant. *)
LEMMA NextIInv == IInv /\ [Next]_vars => IInv'
<1> SUFFICES ASSUME IInv, [Next]_vars PROVE IInv'
  OBVIOUS
<1>1. ASSUME NEW l \in Listeners, NEW a \in Addresses, Start(l, a) PROVE IInv'
  BY <1>1, StartStep
<1>2. ASSUME NEW l \in Listeners, Stop(l) PROVE IInv'
  BY <1>2, ReleaseStep DEF Stop
<1>3. CASE StopAll
  BY <1>3, ReleaseStep DEF StopAll
<1>4. ASSUME NEW e \in Events, NEW doc \in Documents, NotifyReceived(e, doc) PROVE IInv'
  BY <1>4, NotifyStep
<1>5. ASSUME NEW e \in Events, SubscriptionEnded(e) PROVE IInv'
  BY <1>5, EndedStep
<1>6. ASSUME NEW e \in Events, SubscriptionClosed(e) PROVE IInv'
  BY <1>6, ClosedStep
<1>7. CASE UNCHANGED vars
  BY <1>7 DEF vars, clientVars, storeVars, eventVars, IInv, TypeOK, DialogInv, StoreInv,
     FreeSlotsAreClean, EventsLeadToTheirClient, EventDataIsCurrent,
     OpenSubscriptionsAreOwned, OneClientPerAddress, StoreFindsLiveClients,
     FactoryListensForClients
<1> QED
  BY <1>1, <1>2, <1>3, <1>4, <1>5, <1>6, <1>7 DEF Next

(* The inductive invariant holds of every behaviour. *)
LEMMA Inductive == Spec => []IInv
BY InitIInv, NextIInv, PTL DEF Spec

(* Every variable keeps its type; in particular the factory's use count never *)
(* goes below zero (client-factory.cc:69).                                    *)
THEOREM Typing == Spec => []TypeOK
BY Inductive, PTL DEF IInv

(* No event of the core refers to a destroyed client, nor to one that moved   *)
(* to another event.                                                          *)
THEOREM EventsReachTheirClient == Spec => []EventDataIsCurrent
BY Inductive, PTL DEF IInv, DialogInv

(* No subscription is left open without the client that would end it.         *)
THEOREM SubscriptionsHaveOwners == Spec => []OpenSubscriptionsAreOwned
BY Inductive, PTL DEF IInv, DialogInv

(* There is one client, hence one subscription, per address at any time.      *)
THEOREM AddressesAreShared == Spec => []OneClientPerAddress
BY Inductive, PTL DEF IInv, StoreInv

(* The factory listens to the core exactly while there are clients.           *)
THEOREM FactoryCounts == Spec => []FactoryListensForClients
BY Inductive, PTL DEF IInv

-----------------------------------------------------------------------------
(* Only a start adds an observer, and it finds or opens the client's event.   *)

LEMMA StartRevives ==
    ASSUME IInv, NEW l \in Listeners, NEW a \in Addresses, Start(l, a),
           NEW x \in Clients, ~(mObservers'[x] \subseteq mObservers[x])
    PROVE  \E e \in Events : /\ mSubscribeEvent'[x] = e
                             /\ evState'[e] = "open"
                             /\ evData'[e] = x
<1> USE DEF IInv, TypeOK
<1>1. PICK c \in Clients :
        /\ mObservers' = [mObservers EXCEPT ![c] = @ \cup {l}]
        /\ Subscribe(c, l)
  BY DEF Start
<1>2. x = c
  BY <1>1
<1>3. IInv'
  BY StartStep
<1>4. mSubscribeEvent'[c] # Null /\ mSubscribeEvent'[c] \in Events
  BY <1>1, <1>3, NullIsNothing DEF Subscribe
<1>5. evData'[mSubscribeEvent'[c]] = c
  BY <1>3, <1>4 DEF DialogInv, EventsLeadToTheirClient
<1>6. evState'[mSubscribeEvent'[c]] = "open"
  BY <1>3, <1>4, <1>5, NullIsNothing DEF DialogInv, EventDataIsCurrent
<1> QED
  BY <1>2, <1>4, <1>5, <1>6

(* Whoever joins a client whose subscription has ended opens a new one.       *)
THEOREM NewcomersRevive == Spec => NewcomersReviveTheClient
<1>1. ASSUME IInv, Next, NEW x \in Clients, ~(mObservers'[x] \subseteq mObservers[x])
      PROVE  \E e \in Events : /\ mSubscribeEvent'[x] = e
                               /\ evState'[e] = "open"
                               /\ evData'[e] = x
  <2>1. ASSUME NEW ls \in SUBSET Listeners, Release(ls) PROVE FALSE
    BY <1>1, <2>1 DEF Release, IInv, TypeOK
  <2>2. ~(\E l \in Listeners : Stop(l)) /\ ~StopAll
    BY <2>1 DEF Stop, StopAll
  <2>3. ~UNCHANGED mObservers
    BY <1>1
  <2>4. PICK l \in Listeners, a \in Addresses : Start(l, a)
    BY <1>1, <2>2, <2>3 DEF Next, NotifyReceived, SubscriptionEnded, SubscriptionClosed, clientVars
  <2> QED
    BY <1>1, <2>4, StartRevives
<1>2. IInv /\ [Next]_vars =>
        [\A c \in Clients : ~(mObservers'[c] \subseteq mObservers[c]) =>
            \E e \in Events : /\ mSubscribeEvent'[c] = e
                              /\ evState'[e] = "open"
                              /\ evData'[e] = c]_vars
  BY <1>1
<1> QED
  BY Inductive, <1>2, PTL DEF Spec, NewcomersReviveTheClient

-----------------------------------------------------------------------------
(* What the observers were told follows what the client knows, as long as a   *)
(* NOTIFY with nothing but refreshed contacts brings no other list.           *)

LEMMA InitViewInv == Init => ViewInv
BY DEF Init, ViewInv, ListenersObserveOnce, FreeEventsAreUnheard,
   ObserversKnowTheDevices, KnownDevicesCame

LEMMA StartViews ==
    ASSUME IInv, ViewInv, NEW l \in Listeners, NEW a \in Addresses, Start(l, a)
    PROVE  ViewInv'
<1> USE DEF IInv, TypeOK, ViewInv
<1>n. Null \notin Events
  BY NullIsNothing
<1>1. PICK c \in Clients :
        /\ AcquireClient(a, c)
        /\ mObservers' = [mObservers EXCEPT ![c] = @ \cup {l}]
        /\ Subscribe(c, l)
        /\ refreshes' = {}
        /\ UNCHANGED <<mParticipantDevices, heard>>
  BY DEF Start
<1>2. live' = live \cup {c}
  BY <1>1, AcquireKeepsStore
<1>3. \A x \in Clients : l \notin mObservers[x]
  BY DEF Start, Observing, DialogInv, FreeSlotsAreClean
<1>4. ListenersObserveOnce'
  BY <1>1, <1>3 DEF ListenersObserveOnce
<1>5. FreeEventsAreUnheard' /\ ObserversKnowTheDevices'
  <2>1. CASE /\ mSubscribeEvent[c] # Null
             /\ told' = [told EXCEPT ![l] = mParticipantDevices[c]]
             /\ UNCHANGED <<mSubscribeEvent, evState, evData>>
    <3>1. c \in live
      BY <2>1 DEF DialogInv, FreeSlotsAreClean
    <3>2. ObserversKnowTheDevices'
      <4> SUFFICES ASSUME NEW x \in live', mSubscribeEvent'[x] \in heard',
                          NEW k \in mObservers'[x]
                   PROVE  told'[k] = mParticipantDevices'[x]
        BY DEF ObserversKnowTheDevices
      <4>0. x \in live /\ x \in Clients /\ mSubscribeEvent[x] \in heard
        BY <1>1, <1>2, <2>1, <3>1
      <4>1. CASE k = l
        <5>1. x = c
          BY <1>1, <1>3, <4>0, <4>1
        <5> QED
          BY <1>1, <2>1, <4>1, <5>1
      <4>2. CASE k # l
        <5>1. k \in mObservers[x] /\ k \in Listeners
          BY <1>1, <4>0, <4>2
        <5>2. told[k] = mParticipantDevices[x]
          BY <4>0, <5>1 DEF ObserversKnowTheDevices
        <5> QED
          BY <1>1, <2>1, <4>2, <5>1, <5>2
      <4> QED
        BY <4>1, <4>2
    <3> QED
      BY <1>1, <2>1, <3>2 DEF FreeEventsAreUnheard
  <2>2. ASSUME mSubscribeEvent[c] = Null, UNCHANGED told, NEW e \in Events,
               evState[e] = "free",
               mSubscribeEvent' = [mSubscribeEvent EXCEPT ![c] = e],
               evState' = [evState EXCEPT ![e] = "open"]
        PROVE  FreeEventsAreUnheard' /\ ObserversKnowTheDevices'
    <3>1. e \notin heard
      BY <2>2 DEF FreeEventsAreUnheard
    <3>2. ObserversKnowTheDevices'
      <4> SUFFICES ASSUME NEW x \in live', mSubscribeEvent'[x] \in heard',
                          NEW k \in mObservers'[x]
                   PROVE  told'[k] = mParticipantDevices'[x]
        BY DEF ObserversKnowTheDevices
      <4>1. x # c
        BY <1>1, <1>2, <2>2, <3>1
      <4>2. x \in live /\ x \in Clients /\ mSubscribeEvent[x] \in heard /\ k \in mObservers[x]
        BY <1>1, <1>2, <2>2, <4>1
      <4> QED
        BY <1>1, <2>2, <4>2 DEF ObserversKnowTheDevices
    <3> QED
      BY <1>1, <2>2, <3>1, <3>2 DEF FreeEventsAreUnheard
  <2> QED
    BY <1>1, <2>1, <2>2 DEF Subscribe
\* the client has an event already if it has devices
<1>6. KnownDevicesCame'
  BY <1>1, <1>n DEF KnownDevicesCame, Subscribe
<1> QED
  BY <1>4, <1>5, <1>6

LEMMA ReleaseViews ==
    ASSUME IInv, ViewInv, NEW ls \in SUBSET Listeners, Release(ls)
    PROVE  ViewInv'
<1> USE DEF IInv, TypeOK, ViewInv, Release, Destroy, Unsubscribe
<1>1. ListenersObserveOnce'
  BY DEF ListenersObserveOnce
<1>2. FreeEventsAreUnheard'
  BY DEF FreeEventsAreUnheard
<1>3. ObserversKnowTheDevices'
  <2> SUFFICES ASSUME NEW x \in live', mSubscribeEvent'[x] \in heard',
                      NEW k \in mObservers'[x]
               PROVE  told'[k] = mParticipantDevices'[x]
    BY DEF ObserversKnowTheDevices
  <2>1. x \in live /\ x \in Clients /\ x \notin HeldOnlyBy(ls)
    OBVIOUS
  <2>2. mSubscribeEvent[x] \in heard /\ k \in mObservers[x] /\ k \in Listeners /\ k \notin ls
    BY <2>1
  <2>3. told[k] = mParticipantDevices[x]
    BY <2>1, <2>2 DEF ObserversKnowTheDevices
  <2> QED
    BY <2>1, <2>2, <2>3
\* the events that are closed are those of the clients destroyed
<1>4. KnownDevicesCame'
  <2> SUFFICES ASSUME NEW x \in Clients, mParticipantDevices'[x] # {}
               PROVE  mSubscribeEvent'[x] \in heard'
    BY DEF KnownDevicesCame
  <2>1. /\ x \notin HeldOnlyBy(ls) /\ mSubscribeEvent'[x] = mSubscribeEvent[x]
        /\ mSubscribeEvent[x] \in heard
    BY DEF KnownDevicesCame
  <2>2. \A y \in HeldOnlyBy(ls) : mSubscribeEvent[y] # mSubscribeEvent[x]
    BY <2>1, NullIsNothing DEF HeldOnlyBy, DialogInv, EventsLeadToTheirClient
  <2> QED
    BY <2>1, <2>2
<1> QED
  BY <1>1, <1>2, <1>3, <1>4

LEMMA NotifyViews ==
    ASSUME OnlyKnownRefreshed, IInv, ViewInv,
           NEW e \in Events, NEW doc \in Documents, NotifyReceived(e, doc)
    PROVE  ViewInv'
<1> USE DEF IInv, TypeOK, ViewInv
<1>n. Null \notin Clients /\ Null \notin Events
  BY NullIsNothing
<1>1. PICK c \in Clients :
        DispatchedTo(e, c) /\ Sendable(e, doc) /\ OnNotifyReceived(c, doc)
  BY DEF NotifyReceived
<1>2. /\ UNCHANGED <<live, mSubscribeEvent, mObservers, evState>>
      /\ evState[e] # "free"
      /\ heard' = heard \cup {e}
  BY DEF NotifyReceived
<1>3. evData[e] = c /\ c \in live /\ mSubscribeEvent[c] = e
  BY <1>1, <1>n DEF DispatchedTo, DialogInv, EventDataIsCurrent
<1>4. ListenersObserveOnce' /\ FreeEventsAreUnheard'
  BY <1>2 DEF ListenersObserveOnce, FreeEventsAreUnheard
<1>5. doc.contacts \in SUBSET Devices
  BY DEF Documents
\* the observers of c are told the new devices, unless these are the old ones
<1>6. \A k \in mObservers[c] : told'[k] = mParticipantDevices'[c]
  <2>1. \A k \in mObservers[c] : k \in Listeners
    OBVIOUS
  <2>2. CASE doc.state = "terminated"
    BY <1>1, <2>1, <2>2 DEF OnNotifyReceived, Tell
  <2>3. CASE doc.state = "active" /\ Reported(doc)
    BY <1>1, <2>1, <2>3 DEF OnNotifyReceived, Tell
  <2>4. CASE doc.state = "active" /\ ~Reported(doc)
    <3>1. e \in heard /\ doc.contacts = mParticipantDevices[c]
      BY <1>1, <1>3, <2>4 DEF Sendable, Reported
    <3>2. mParticipantDevices'[c] = mParticipantDevices[c] /\ told' = told
      BY <1>1, <2>4, <3>1 DEF OnNotifyReceived
    <3> QED
      BY <1>3, <3>1, <3>2 DEF ObserversKnowTheDevices
  <2> QED
    BY <1>1, <2>2, <2>3, <2>4 DEF OnNotifyReceived
\* those of another client are not concerned
<1>7. ASSUME NEW x \in live, x # c, mSubscribeEvent'[x] \in heard', NEW k \in mObservers[x]
      PROVE  told'[k] = mParticipantDevices'[x]
  <2>1. x \in Clients /\ mSubscribeEvent[x] # e
    BY <1>3, <1>7, <1>n DEF DialogInv, EventsLeadToTheirClient
  <2>2. k \in Listeners /\ k \notin mObservers[c]
    BY <1>7, <2>1 DEF ListenersObserveOnce
  <2>3. told'[k] = told[k] /\ mParticipantDevices'[x] = mParticipantDevices[x]
    BY <1>1, <1>7, <2>1, <2>2 DEF OnNotifyReceived, Tell
  <2>4. mSubscribeEvent[x] \in heard
    BY <1>2, <1>7, <2>1
  <2> QED
    BY <2>3, <2>4 DEF ObserversKnowTheDevices
<1>8. ObserversKnowTheDevices'
  BY <1>2, <1>6, <1>7 DEF ObserversKnowTheDevices
<1>9. KnownDevicesCame'
  <2> SUFFICES ASSUME NEW x \in Clients, mParticipantDevices'[x] # {}
               PROVE  mSubscribeEvent'[x] \in heard'
    BY DEF KnownDevicesCame
  <2>1. CASE x = c
    BY <1>2, <1>3, <2>1
  <2>2. CASE x # c
    BY <1>1, <1>2, <2>2 DEF OnNotifyReceived, KnownDevicesCame
  <2> QED
    BY <2>1, <2>2
<1> QED
  BY <1>4, <1>8, <1>9

LEMMA EndViews ==
    ASSUME IInv, ViewInv, NEW e \in Events, SubscriptionEnded(e) \/ SubscriptionClosed(e)
    PROVE  ViewInv'
<1> USE DEF IInv, TypeOK, ViewInv, clientVars
<1>1. /\ UNCHANGED <<live, mObservers, told>>
      /\ evState' = [evState EXCEPT ![e] = "free"]
      /\ heard' = heard \ {e}
  BY DEF SubscriptionEnded, SubscriptionClosed
<1>2. ListenersObserveOnce' /\ FreeEventsAreUnheard'
  BY <1>1 DEF ListenersObserveOnce, FreeEventsAreUnheard
<1>3. \A x \in Clients : mSubscribeEvent'[x] \in heard' =>
          /\ mSubscribeEvent[x] \in heard
          /\ mParticipantDevices'[x] = mParticipantDevices[x]
  <2>1. CASE SubscriptionClosed(e)
    BY <1>1, <2>1 DEF SubscriptionClosed
  <2>2. CASE SubscriptionEnded(e)
    <3>1. PICK c \in Clients : OnSubscriptionEnded(c)
      BY <2>2 DEF SubscriptionEnded
    <3> QED
      BY <1>1, <3>1, NullIsNothing DEF OnSubscriptionEnded
  <2> QED
    BY <2>1, <2>2
<1>4. ObserversKnowTheDevices'
  BY <1>1, <1>3 DEF ObserversKnowTheDevices
\* a client whose event ends forgets its devices
<1>5. KnownDevicesCame'
  <2>1. CASE SubscriptionClosed(e)
    <3>1. ASSUME NEW x \in Clients, mSubscribeEvent[x] = e PROVE FALSE
      <4>1. evData[e] = x /\ x \in live
        BY <3>1, NullIsNothing DEF DialogInv, EventsLeadToTheirClient, FreeSlotsAreClean
      <4> QED
        BY <2>1, <4>1 DEF SubscriptionClosed, DispatchedTo, FactoryListensForClients
    <3> QED
      BY <1>1, <2>1, <3>1 DEF SubscriptionClosed, KnownDevicesCame
  <2>2. CASE SubscriptionEnded(e)
    <3>1. PICK c \in Clients : DispatchedTo(e, c) /\ OnSubscriptionEnded(c)
      BY <2>2 DEF SubscriptionEnded
    <3>2. \A x \in Clients : x # c => mSubscribeEvent[x] # e
      BY <3>1, NullIsNothing DEF DispatchedTo, DialogInv, EventsLeadToTheirClient
    <3> QED
      BY <1>1, <3>1, <3>2 DEF OnSubscriptionEnded, KnownDevicesCame
  <2> QED
    BY <2>1, <2>2
<1> QED
  BY <1>2, <1>4, <1>5

LEMMA NextViewInv == OnlyKnownRefreshed /\ IInv /\ ViewInv /\ [Next]_vars => ViewInv'
<1> SUFFICES ASSUME OnlyKnownRefreshed, IInv, ViewInv, [Next]_vars PROVE ViewInv'
  OBVIOUS
<1>1. ASSUME NEW l \in Listeners, NEW a \in Addresses, Start(l, a) PROVE ViewInv'
  BY <1>1, StartViews
<1>2. ASSUME NEW l \in Listeners, Stop(l) PROVE ViewInv'
  BY <1>2, ReleaseViews DEF Stop
<1>3. CASE StopAll
  BY <1>3, ReleaseViews DEF StopAll
<1>4. ASSUME NEW e \in Events, NEW doc \in Documents, NotifyReceived(e, doc) PROVE ViewInv'
  BY <1>4, NotifyViews
<1>5. ASSUME NEW e \in Events, SubscriptionEnded(e) \/ SubscriptionClosed(e) PROVE ViewInv'
  BY <1>5, EndViews
<1>6. CASE UNCHANGED vars
  BY <1>6 DEF vars, clientVars, storeVars, eventVars, ViewInv, ListenersObserveOnce,
     FreeEventsAreUnheard, ObserversKnowTheDevices, KnownDevicesCame
<1> QED
  BY <1>1, <1>2, <1>3, <1>4, <1>5, <1>6 DEF Next

LEMMA ViewsInductive ==
    ASSUME OnlyKnownRefreshed
    PROVE  Spec => []ViewInv
<1>1. Init => IInv /\ ViewInv
  BY InitIInv, InitViewInv
<1>2. IInv /\ ViewInv /\ [Next]_vars => IInv' /\ ViewInv'
  BY NextIInv, NextViewInv
<1> QED
  BY <1>1, <1>2, PTL DEF Spec

(* Whatever the order of joins, leaves, answers and failures, after a NOTIFY  *)
(* every observer of a client was told of exactly the client's devices: the   *)
(* list a client does not report is one its observers have.                   *)
THEOREM ViewsAgree ==
    ASSUME OnlyKnownRefreshed
    PROVE  Spec => []ObserversKnowTheDevices
<1>1. ViewInv => ObserversKnowTheDevices
  BY DEF ViewInv
<1> QED
  BY <1>1, ViewsInductive, PTL

\* What a client knows, its observers were told.
ToldWhatIsKnown ==
    \A c \in live : \A l \in mObservers[c] : \A d \in mParticipantDevices[c] :
        told[l] # Unknown /\ d \in told[l]

\* It follows from the invariants.
LEMMA KnownIsTold == IInv /\ ViewInv => ToldWhatIsKnown
<1> SUFFICES ASSUME IInv, ViewInv,
                    NEW c \in live, NEW l \in mObservers[c], NEW d \in mParticipantDevices[c]
             PROVE  told[l] # Unknown /\ d \in told[l]
  BY DEF ToldWhatIsKnown
<1>1. c \in Clients /\ mParticipantDevices[c] \in SUBSET Devices
  BY DEF IInv, TypeOK
<1>2. told[l] = mParticipantDevices[c]
  BY <1>1 DEF ViewInv, KnownDevicesCame, ObserversKnowTheDevices
<1> QED
  BY <1>1, <1>2, NullIsNothing DEF Unknown

(* An observer that hears of the refresh of a device has the device in its list *)
(* when the NOTIFY is handled, and had it before if the client knew it.         *)
THEOREM RefreshesFollowViews ==
    ASSUME OnlyKnownRefreshed
    PROVE  Spec => RefreshesAreOfToldDevices
<1>0. IInv' /\ ViewInv' => ToldWhatIsKnown'
  BY KnownIsTold, PTL
<1>1. ASSUME IInv, ViewInv, IInv', ViewInv', Next, NEW l \in Listeners, NEW d \in Devices,
             <<l, d>> \in refreshes'
      PROVE  /\ told'[l] # Unknown /\ d \in told'[l]
             /\ \A c \in live : l \in mObservers[c] /\ d \in mParticipantDevices[c] =>
                   told[l] # Unknown /\ d \in told[l]
  <2>1. PICK e \in Events, doc \in Documents : NotifyReceived(e, doc)
    BY <1>1 DEF Next, Start, Stop, StopAll, Release, SubscriptionEnded, SubscriptionClosed
  <2>2. PICK c \in Clients :
          DispatchedTo(e, c) /\ Sendable(e, doc) /\ OnNotifyReceived(c, doc)
    BY <2>1 DEF NotifyReceived
  <2>3. c \in live' /\ mObservers' = mObservers
    BY <1>1, <2>1, <2>2, NullIsNothing
    DEF NotifyReceived, DispatchedTo, IInv, DialogInv, EventDataIsCurrent
  <2>4. /\ l \in mObservers[c] /\ d \in doc.contacts
        /\ mParticipantDevices' = [mParticipantDevices EXCEPT ![c] = doc.contacts]
    BY <1>1, <2>2 DEF OnNotifyReceived, Sendable
  <2>5. d \in mParticipantDevices'[c]
    BY <1>1, <2>4 DEF IInv, TypeOK
  <2> QED
    BY <1>0, <1>1, <2>3, <2>4, <2>5, KnownIsTold DEF ToldWhatIsKnown
<1>2. IInv /\ ViewInv /\ IInv' /\ ViewInv' /\ [Next]_vars =>
        [\A l \in Listeners, d \in Devices : <<l, d>> \in refreshes' =>
            /\ told'[l] # Unknown /\ d \in told'[l]
            /\ \A c \in live : l \in mObservers[c] /\ d \in mParticipantDevices[c] =>
                  told[l] # Unknown /\ d \in told[l]]_vars
  BY <1>1
<1> QED
  BY Inductive, ViewsInductive, <1>2, PTL DEF Spec, RefreshesAreOfToldDevices

=============================================================================
