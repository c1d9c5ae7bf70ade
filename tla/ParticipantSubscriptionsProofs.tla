--------------------- MODULE ParticipantSubscriptionsProofs ---------------------
(***************************************************************************)
(* Theorems about ParticipantSubscriptions, for any chat rooms, addresses,   *)
(* devices and slots: the store knows all that is at work, once each, and    *)
(* nothing is when the server has stopped.                                   *)
(*                                                                           *)
(* The two kinds of subscription keep the invariants proved of them alone,   *)
(* as each of their steps is one of RegEventClients or of OwnSubscriptions.  *)
(***************************************************************************)
EXTENDS ParticipantSubscriptions, TLAPS

REP  == INSTANCE RegEventClientsProofs WITH Addresses <- External, Listeners <- Rooms \X External
OwnP == INSTANCE OwnSubscriptionsProofs

-----------------------------------------------------------------------------
(* The modules and their proofs speak of the same definitions. *)

\* Releases, with the destructions they cause
LEMMA SameReleases ==
    /\ \A ls : RE!HeldOnlyBy(ls) = REP!HeldOnlyBy(ls)
    /\ \A ls : RE!Release(ls) <=> REP!Release(ls)
<1>1. \A ls : RE!HeldOnlyBy(ls) = REP!HeldOnlyBy(ls)
  BY DEF RE!HeldOnlyBy, REP!HeldOnlyBy
<1>2. \A dead : RE!UnregisterClients(dead) <=> REP!UnregisterClients(dead)
  BY DEF RE!UnregisterClients, REP!UnregisterClients, RE!Cardinality, REP!Cardinality
<1>3. \A dead : RE!Unsubscribe(dead) <=> REP!Unsubscribe(dead)
  BY DEF RE!Unsubscribe, REP!Unsubscribe
<1>4. \A dead : RE!Destroy(dead) <=> REP!Destroy(dead)
  BY <1>2, <1>3 DEF RE!Destroy, REP!Destroy
<1> QED
  BY <1>1, <1>4 DEF RE!Release, REP!Release, RE!Unknown, REP!Unknown

\* Starts, with the acquisition of the client
LEMMA SameStarts ==
    /\ \A l : RE!Observing(l) <=> REP!Observing(l)
    /\ \A l, a : RE!Start(l, a) <=> REP!Start(l, a)
<1>1. \A l : RE!Observing(l) <=> REP!Observing(l)
  BY DEF RE!Observing, REP!Observing
<1>2. \A a, c : RE!AcquireClient(a, c) <=> REP!AcquireClient(a, c)
  BY DEF RE!AcquireClient, REP!AcquireClient, RE!RegisterClient, REP!RegisterClient,
         RE!storeVars, REP!storeVars
<1>3. \A c, l : RE!Subscribe(c, l) <=> REP!Subscribe(c, l)
  BY DEF RE!Subscribe, REP!Subscribe
<1> QED
  BY <1>1, <1>2, <1>3 DEF RE!Start, REP!Start

\* Reports of the core
LEMMA SameReports ==
    /\ \A e, doc : RE!NotifyReceived(e, doc) <=> REP!NotifyReceived(e, doc)
    /\ \A e : RE!SubscriptionEnded(e) <=> REP!SubscriptionEnded(e)
    /\ \A e : RE!SubscriptionClosed(e) <=> REP!SubscriptionClosed(e)
    /\ RE!Documents = REP!Documents
<1>1. \A e, c : RE!DispatchedTo(e, c) <=> REP!DispatchedTo(e, c)
  BY DEF RE!DispatchedTo, REP!DispatchedTo
<1>2. \A c, devices : RE!Tell(c, devices) <=> REP!Tell(c, devices)
  BY DEF RE!Tell, REP!Tell
<1>3. \A c, doc : RE!OnNotifyReceived(c, doc) <=> REP!OnNotifyReceived(c, doc)
  BY <1>2 DEF RE!OnNotifyReceived, REP!OnNotifyReceived, RE!Reported, REP!Reported
<1>4. \A e, doc : RE!Sendable(e, doc) <=> REP!Sendable(e, doc)
  BY DEF RE!Sendable, REP!Sendable
<1>5. \A c : RE!OnSubscriptionEnded(c) <=> REP!OnSubscriptionEnded(c)
  BY DEF RE!OnSubscriptionEnded, REP!OnSubscriptionEnded
<1>6. \A e, doc : RE!NotifyReceived(e, doc) <=> REP!NotifyReceived(e, doc)
  BY <1>1, <1>3, <1>4 DEF RE!NotifyReceived, REP!NotifyReceived, RE!storeVars, REP!storeVars
<1>7. \A e : RE!SubscriptionEnded(e) <=> REP!SubscriptionEnded(e)
  BY <1>1, <1>5 DEF RE!SubscriptionEnded, REP!SubscriptionEnded, RE!storeVars, REP!storeVars
<1>8. \A e : RE!SubscriptionClosed(e) <=> REP!SubscriptionClosed(e)
  BY <1>1 DEF RE!SubscriptionClosed, REP!SubscriptionClosed, RE!clientVars, REP!clientVars,
              RE!storeVars, REP!storeVars
<1> QED
  BY <1>6, <1>7, <1>8 DEF RE!Documents, REP!Documents

\* Every step of the own subscriptions
LEMMA SameOwn ==
    /\ \A o, p : Own!Start(o, p) <=> OwnP!Start(o, p)
    /\ \A objects : Own!Stop(objects) <=> OwnP!Stop(objects)
    /\ Own!RegistrarNext <=> OwnP!RegistrarNext
<1>1. \A o, p : Own!Start(o, p) <=> OwnP!Start(o, p)
  BY DEF Own!Start, OwnP!Start, Own!Free, OwnP!Free, Own!Asked, OwnP!Asked
<1>2. \A objects : Own!Stop(objects) <=> OwnP!Stop(objects)
  BY DEF Own!Stop, OwnP!Stop, Own!Pairs, OwnP!Pairs, Own!NotTold, OwnP!NotTold
<1>3. \A a, devices, uid : Own!BindingsChange(a, devices, uid) <=> OwnP!BindingsChange(a, devices, uid)
  BY DEF Own!BindingsChange, OwnP!BindingsChange, Own!Asked, OwnP!Asked
<1>4. \A o : Own!RecordRead(o) <=> OwnP!RecordRead(o)
  BY DEF Own!RecordRead, OwnP!RecordRead
<1>5. \A r, devices : Own!Compatible(r, devices) = OwnP!Compatible(r, devices)
  BY DEF Own!Compatible, OwnP!Compatible, Own!IsContactCompatible, OwnP!IsContactCompatible,
         Own!MaskFromSpecs, OwnP!MaskFromSpecs
<1>6. \A o, record : Own!ProcessRecord(o, record) <=> OwnP!ProcessRecord(o, record)
  BY <1>5 DEF Own!ProcessRecord, OwnP!ProcessRecord
<1>7. \A o, answer : Own!Reported(o, answer) = OwnP!Reported(o, answer)
  BY <1>5 DEF Own!Reported, OwnP!Reported
<1>8. \A o : Own!AnswerReceived(o) <=> OwnP!AnswerReceived(o)
  BY <1>6, <1>7 DEF Own!AnswerReceived, OwnP!AnswerReceived
<1>9. \A o : Own!ErrorReceived(o) <=> OwnP!ErrorReceived(o)
  BY DEF Own!ErrorReceived, OwnP!ErrorReceived
<1> QED
  BY <1>1, <1>2, <1>3, <1>4, <1>8, <1>9 DEF Own!RegistrarNext, OwnP!RegistrarNext

\* Types
LEMMA SameTypes == (RE!TypeOK <=> REP!TypeOK) /\ (Own!TypeOK <=> OwnP!TypeOK)
  BY DEF RE!TypeOK, REP!TypeOK, RE!Unknown, REP!Unknown, Own!TypeOK, OwnP!TypeOK,
         Own!Pairs, OwnP!Pairs, Own!Record, OwnP!Record

\* Initial states
LEMMA SameInit == (RE!Init <=> REP!Init) /\ (Own!Init <=> OwnP!Init)
  BY DEF RE!Init, REP!Init, RE!Unknown, REP!Unknown, Own!Init, OwnP!Init,
         Own!Pairs, OwnP!Pairs, Own!NotTold, OwnP!NotTold

-----------------------------------------------------------------------------
(* The parts keep their invariants *)

L == Rooms \X External
PartsInv == REP!IInv /\ OwnP!IInv

\* The constants of the parts are as their proofs assume.
LEMMA PartsConstants ==
    /\ REP!IsFiniteSet(Clients) /\ Null \notin Clients \cup Events \cup External \cup Devices
    /\ Null \notin Devices /\ MaxVersion \in Nat
<1>1. REP!IsFiniteSet(Clients)
  BY ConstantsAssumption DEF IsFiniteSet, REP!IsFiniteSet
<1> QED
  BY <1>1, ConstantsAssumption DEF External

\* Every step of the external part keeps the invariant of its clients.
LEMMA ExternalKeeps ==
    ASSUME REP!IInv,
           \/ \E ls \in SUBSET L : RE!Release(ls)
           \/ \E l \in L, a \in External : RE!Start(l, a)
           \/ \E e \in Events, doc \in RE!Documents : RE!NotifyReceived(e, doc)
           \/ \E e \in Events : RE!SubscriptionEnded(e)
           \/ \E e \in Events : RE!SubscriptionClosed(e)
           \/ UNCHANGED externalVars
    PROVE  REP!IInv'
<1>1. CASE \E ls \in SUBSET L : RE!Release(ls)
  BY <1>1, SameReleases, REP!ReleaseStep, PartsConstants DEF L
<1>2. CASE \E l \in L, a \in External : RE!Start(l, a)
  BY <1>2, SameStarts, REP!StartStep, PartsConstants DEF L
<1>3. CASE \/ \E e \in Events, doc \in RE!Documents : RE!NotifyReceived(e, doc)
           \/ \E e \in Events : RE!SubscriptionEnded(e)
           \/ \E e \in Events : RE!SubscriptionClosed(e)
  <2>1. REP!Next
    BY <1>3, SameReports DEF REP!Next
  <2> QED
    BY <2>1, REP!NextIInv, PartsConstants
<1>4. CASE UNCHANGED externalVars
  <2>1. UNCHANGED REP!vars
    BY <1>4 DEF externalVars, REP!vars, REP!clientVars, REP!storeVars, REP!eventVars
  <2> QED
    BY <2>1, REP!NextIInv, PartsConstants
<1> QED
  BY <1>1, <1>2, <1>3, <1>4

\* Every step of the own part keeps the invariant of its answers.
LEMMA OwnKeeps ==
    ASSUME OwnP!IInv,
           \/ \E o \in Objects, p \in Rooms \X Aors :
                Own!Start(o, p) /\ \A q \in Objects : mActive[q] => owner[q] # p
           \/ \E objects \in SUBSET Objects : Own!Stop(objects)
           \/ Own!RegistrarNext
           \/ UNCHANGED ownVars
    PROVE  OwnP!IInv'
<1>1. CASE UNCHANGED ownVars
  <2>1. UNCHANGED OwnP!vars
    BY <1>1 DEF ownVars, OwnP!vars, OwnP!registrarVars
  <2> QED
    BY <2>1, OwnP!StepKeeps, PartsConstants
<1>2. CASE \E o \in Objects, p \in Rooms \X Aors :
             Own!Start(o, p) /\ \A q \in Objects : mActive[q] => owner[q] # p
  <2>1. OwnP!Step
    BY <1>2, SameOwn DEF OwnP!Step, OwnP!Pairs
  <2> QED
    BY <2>1, OwnP!StepKeeps, PartsConstants
<1>3. CASE (\E objects \in SUBSET Objects : Own!Stop(objects)) \/ Own!RegistrarNext
  <2>1. OwnP!Step
    BY <1>3, SameOwn DEF OwnP!Step
  <2> QED
    BY <2>1, OwnP!StepKeeps, PartsConstants
<1> QED
  BY <1>1, <1>2, <1>3

-----------------------------------------------------------------------------
(* Who observes a client *)

\* What is used of the invariant of the external part
LEMMA ExternalFacts ==
    ASSUME REP!IInv
    PROVE  /\ live \subseteq Clients /\ mObservers \in [Clients -> SUBSET L]
           /\ told \in [L -> (SUBSET Devices) \cup {RE!Unknown}]
           /\ mParticipantDevices \in [Clients -> SUBSET Devices]
           /\ mTo \in [Clients -> External \cup {Null}]
           /\ \A c \in Clients \ live : mObservers[c] = {}
           /\ \A a \in External : mClients[a] # Null => mClients[a] \in live /\ mTo[mClients[a]] = a
           /\ \A e \in Events : evData[e] # Null => evData[e] \in live
           /\ live = {} => ~mListening /\ \A e \in Events : evState[e] # "open"
<1>1. /\ live \subseteq Clients /\ mObservers \in [Clients -> SUBSET L]
      /\ told \in [L -> (SUBSET Devices) \cup {RE!Unknown}]
      /\ mParticipantDevices \in [Clients -> SUBSET Devices]
      /\ mTo \in [Clients -> External \cup {Null}]
  BY DEF REP!IInv, REP!TypeOK, REP!Unknown, RE!Unknown, L
<1>2. \A c \in Clients \ live : mObservers[c] = {}
  BY DEF REP!IInv, REP!DialogInv, REP!FreeSlotsAreClean
<1>3. \A a \in External : mClients[a] # Null => mClients[a] \in live /\ mTo[mClients[a]] = a
  BY DEF REP!IInv, REP!StoreInv, REP!StoreFindsLiveClients
<1>4. \A e \in Events : evData[e] # Null => evData[e] \in live
  BY DEF REP!IInv, REP!DialogInv, REP!EventDataIsCurrent
<1>5. live = {} => ~mListening /\ \A e \in Events : evState[e] # "open"
  BY DEF REP!IInv, REP!DialogInv, REP!OpenSubscriptionsAreOwned, REP!FactoryListensForClients
<1> QED
  BY <1>1, <1>2, <1>3, <1>4, <1>5

\* A start has its listener observe one client, of the address.
LEMMA StartObserves ==
    ASSUME REP!IInv, NEW l \in L, NEW a \in External, RE!Start(l, a)
    PROVE  \E c \in live' :
              /\ mObservers' = [mObservers EXCEPT ![c] = @ \cup {l}]
              /\ live' \subseteq Clients /\ live' = live \cup {c}
              /\ mTo'[c] = a /\ \A d \in live \ {c} : mTo'[d] = mTo[d]
              /\ c \in live => mTo[c] = a
              /\ told' \in {told, [told EXCEPT ![l] = mParticipantDevices[c]]}
              /\ refreshes' = {}
<1>1. PICK c \in Clients : /\ RE!AcquireClient(a, c) /\ RE!Subscribe(c, l)
                           /\ mObservers' = [mObservers EXCEPT ![c] = @ \cup {l}]
                           /\ refreshes' = {}
  BY DEF RE!Start
<1>2. told' \in {told, [told EXCEPT ![l] = mParticipantDevices[c]]}
  BY <1>1 DEF RE!Subscribe
<1>3. CASE c = mClients[a] /\ UNCHANGED <<live, mTo>>
  <2>1. mClients[a] # Null
    BY <1>3, PartsConstants
  <2>2. c \in live /\ mTo[c] = a
    BY <1>3, <2>1, ExternalFacts
  <2>3. /\ c \in live' /\ live' \subseteq Clients /\ live' = live \cup {c}
        /\ mTo'[c] = a /\ \A d \in live \ {c} : mTo'[d] = mTo[d]
    BY <1>3, <2>2, ExternalFacts
  <2> QED
    BY <1>1, <1>2, <2>2, <2>3
<1>4. CASE c \notin live /\ live' = live \cup {c} /\ mTo' = [mTo EXCEPT ![c] = a]
  BY <1>1, <1>2, <1>4, ExternalFacts
<1> QED
  BY <1>1, <1>3, <1>4 DEF RE!AcquireClient

\* A start adds its listener to those who observe.
LEMMA ObserversStart ==
    ASSUME REP!IInv, NEW l \in L, NEW a \in External, RE!Start(l, a)
    PROVE  /\ ~RE!Observing(l)
           /\ \A k \in L : RE!Observing(k)' <=> RE!Observing(k) \/ k = l
<1>1. PICK c \in live' :
              /\ mObservers' = [mObservers EXCEPT ![c] = @ \cup {l}]
              /\ live' \subseteq Clients /\ live' = live \cup {c}
  BY StartObserves
<1>2. ~RE!Observing(l)
  BY DEF RE!Start
<1>3. ASSUME NEW k \in L PROVE RE!Observing(k)' <=> RE!Observing(k) \/ k = l
  <2>1. mObservers'[c] = mObservers[c] \cup {l} /\ \A d \in live' \ {c} : mObservers'[d] = mObservers[d]
    BY <1>1, ExternalFacts
  <2>2. c \notin live => mObservers[c] = {}
    BY <1>1, ExternalFacts
  <2> QED
    BY <1>1, <2>1, <2>2 DEF RE!Observing
<1> QED
  BY <1>2, <1>3

\* A release takes its listeners away, and the clients only they held.
LEMMA ObserversRelease ==
    ASSUME REP!IInv, NEW ls \in SUBSET L, RE!Release(ls)
    PROVE  /\ \A k \in L : RE!Observing(k)' <=> RE!Observing(k) /\ k \notin ls
           /\ mObservers' = [c \in Clients |-> mObservers[c] \ ls]
           /\ live' = {c \in live : ~(mObservers[c] \subseteq ls)}
           /\ \A c \in live' : mTo'[c] = mTo[c]
           /\ told' = [l \in L |-> IF l \in ls THEN RE!Unknown ELSE told[l]]
           /\ refreshes' = {}
<1>1. /\ mObservers' = [c \in Clients |-> mObservers[c] \ ls]
      /\ told' = [l \in L |-> IF l \in ls THEN RE!Unknown ELSE told[l]]
      /\ refreshes' = {} /\ RE!Destroy(RE!HeldOnlyBy(ls))
  BY DEF RE!Release, L
<1>2. live' = {c \in live : ~(mObservers[c] \subseteq ls)}
  BY <1>1 DEF RE!Destroy, RE!HeldOnlyBy
<1>3. \A c \in live' : mTo'[c] = mTo[c]
  BY <1>1, <1>2, ExternalFacts DEF RE!Destroy, RE!HeldOnlyBy
<1>4. ASSUME NEW k \in L PROVE RE!Observing(k)' <=> RE!Observing(k) /\ k \notin ls
  BY <1>1, <1>2, ExternalFacts DEF RE!Observing
<1> QED
  BY <1>1, <1>2, <1>3, <1>4

\* The reports of the core change no observer.
LEMMA ObserversReports ==
    ASSUME CoreReports
    PROVE  /\ UNCHANGED <<live, mObservers, mTo, mListening>>
           /\ \A k \in L : RE!Observing(k)' <=> RE!Observing(k)
<1>1. UNCHANGED <<live, mObservers, mTo, mListening>>
  BY DEF CoreReports, RE!NotifyReceived, RE!SubscriptionEnded, RE!SubscriptionClosed,
         RE!OnSubscriptionEnded, RE!clientVars, RE!storeVars
<1> QED
  BY <1>1 DEF RE!Observing

-----------------------------------------------------------------------------
(* The store *)

ServerInv ==
    /\ mRunning \in BOOLEAN /\ mChatRooms \subseteq Rooms /\ mSubscriptions \subseteq Subscription
    /\ ~mRunning => mChatRooms = {} /\ mSubscriptions = {}

\* The object of a stored subscription is at work for it.
ObjectsInv ==
    \A s \in mSubscriptions : s.object # Null =>
        mActive[s.object] /\ owner[s.object] = <<s.room, s.address>> /\ s.address \in Aors

\* A client that nobody holds is destroyed.
LiveAreHeld == \A c \in live : mObservers[c] # {}

StoreInv ==
    /\ ServerInv /\ ObjectsInv /\ LiveAreHeld
    /\ StoreKnowsWhatRuns /\ OneSubscriptionPerPresence

IInv == PartsInv /\ StoreInv

\* What is used of the invariant of the own subscriptions
LEMMA OwnFacts ==
    ASSUME OwnP!IInv
    PROVE  /\ mActive \in [Objects -> BOOLEAN]
           /\ owner \in [Objects -> (Rooms \X Aors) \cup {Null}]
           /\ roomDevices \in [Rooms \X Aors -> [devices : SUBSET Devices, version : Nat]]
           /\ listeners = {o \in Objects : mActive[o]}
           /\ \A o \in Objects : mActive[o] => owner[o] \in Rooms \X Aors
           /\ \A o, q \in Objects : mActive[o] /\ mActive[q] /\ owner[o] = owner[q] => o = q
  BY DEF OwnP!IInv, OwnP!TypeOK, OwnP!ObjectsInv, OwnP!Pairs, OwnP!Record

\* An address is local or external.
LEMMA AddressKinds ==
    /\ External \cup LocalAddresses = Addresses /\ External \cap LocalAddresses = {}
    /\ Aors \subseteq LocalAddresses /\ Aors = LocalAddresses \ InvalidAors
    /\ \A r \in Rooms, a \in External : <<r, a>> \in L
    /\ \A l \in L : l[1] \in Rooms /\ l[2] \in External /\ l = <<l[1], l[2]>>
  BY AddressesAssumption DEF External, Aors, L

\* Subscriptions are told from one another by what they hold.
LEMMA Fields ==
    /\ \A s \in Subscription : s = [room |-> s.room, address |-> s.address, object |-> s.object]
    /\ \A s \in Subscription : s.room \in Rooms /\ s.address \in Addresses /\ s.object \in Objects \cup {Null}
    /\ \A r \in Rooms, a \in Addresses, o \in Objects \cup {Null} :
         [room |-> r, address |-> a, object |-> o] \in Subscription
  BY DEF Subscription

(* Before the server listens to any chat room nothing is at work. *)
LEMMA InitStore == Init => IInv
<1> SUFFICES ASSUME Init PROVE IInv
  OBVIOUS
<1>1. PartsInv
  BY SameInit, REP!InitIInv, OwnP!InitIInv, PartsConstants DEF Init, PartsInv
<1>2. live = {} /\ \A o \in Objects : ~mActive[o]
  BY DEF Init, RE!Init, Own!Init
<1>3. StoreInv
  BY <1>2 DEF Init, StoreInv, ServerInv, ObjectsInv, LiveAreHeld, StoreKnowsWhatRuns,
              OneSubscriptionPerPresence, RE!Observing
<1> QED
  BY <1>1, <1>3 DEF IInv

(* A subscription is stored when it starts. *)
LEMMA SubscribeExternalKeeps ==
    ASSUME IInv, NEW r \in Rooms, NEW a \in Addresses, mRunning, Matching(r, a) = {},
           SubscribeExternal(r, a), UNCHANGED <<mRunning, mChatRooms>>
    PROVE  IInv'
<1> DEFINE s == [room |-> r, address |-> a, object |-> Null]
<1>1. /\ a \in External /\ <<r, a>> \in L /\ s \in Subscription
      /\ RE!Start(<<r, a>>, a) /\ mSubscriptions' = mSubscriptions \cup {s} /\ UNCHANGED ownVars
  BY AddressKinds, Fields DEF SubscribeExternal, AddSubscription
<1>2. PartsInv'
  BY <1>1, ExternalKeeps, OwnKeeps DEF IInv, PartsInv
<1>3. ServerInv'
  BY <1>1 DEF IInv, StoreInv, ServerInv
<1>4. UNCHANGED <<mActive, owner>>
  BY <1>1 DEF ownVars
<1>5. ObjectsInv'
  BY <1>1, <1>4 DEF IInv, StoreInv, ObjectsInv
<1>6. LiveAreHeld'
  <2>1. PICK c \in live' : /\ mObservers' = [mObservers EXCEPT ![c] = @ \cup {<<r, a>>}]
                           /\ live' \subseteq Clients /\ live' = live \cup {c}
    BY <1>1, StartObserves DEF IInv, PartsInv
  <2>2. mObservers'[c] = mObservers[c] \cup {<<r, a>>} /\ \A d \in live' \ {c} : mObservers'[d] = mObservers[d]
    BY <2>1, ExternalFacts DEF IInv, PartsInv
  <2> QED
    BY <2>1, <2>2 DEF IInv, StoreInv, LiveAreHeld
<1>7. StoreKnowsWhatRuns'
  <2>1. ASSUME NEW q \in Rooms, NEW b \in External
        PROVE  RE!Observing(<<q, b>>)' <=> [room |-> q, address |-> b, object |-> Null] \in mSubscriptions'
    <3>1. RE!Observing(<<q, b>>)' <=> RE!Observing(<<q, b>>) \/ <<q, b>> = <<r, a>>
      BY <1>1, AddressKinds, ObserversStart DEF IInv, PartsInv
    <3>2. [room |-> q, address |-> b, object |-> Null] = s <=> <<q, b>> = <<r, a>>
      OBVIOUS
    <3>3. RE!Observing(<<q, b>>) <=> [room |-> q, address |-> b, object |-> Null] \in mSubscriptions
      BY DEF IInv, StoreInv, StoreKnowsWhatRuns
    <3> HIDE DEF s
    <3> QED
      BY <1>1, <3>1, <3>2, <3>3
  <2>2. ASSUME NEW o \in Objects
        PROVE  mActive'[o] <=>
                 \E t \in mSubscriptions' : t.object = o /\ owner'[o] = <<t.room, t.address>>
    <3>1. s.object # o
      BY ConstantsAssumption
    <3> HIDE DEF s
    <3> QED
      BY <1>1, <1>4, <3>1 DEF IInv, StoreInv, StoreKnowsWhatRuns
  <2> QED
    BY <2>1, <2>2 DEF StoreKnowsWhatRuns
<1>8. OneSubscriptionPerPresence'
  BY <1>1 DEF IInv, StoreInv, OneSubscriptionPerPresence, Matching
<1> QED
  BY <1>2, <1>3, <1>5, <1>6, <1>7, <1>8 DEF IInv, StoreInv

\* An own subscription is stored with the object it starts, if it starts one.
LEMMA SubscribeOwnKeeps ==
    ASSUME IInv, NEW r \in Rooms, NEW a \in Addresses, mRunning, Matching(r, a) = {},
           SubscribeOwn(r, a), UNCHANGED <<mRunning, mChatRooms>>
    PROVE  IInv'
<1>1. a \in LocalAddresses /\ a \notin External /\ UNCHANGED externalVars
  BY AddressKinds DEF SubscribeOwn
<1>2. PICK o \in Objects \cup {Null} :
        /\ mSubscriptions' = mSubscriptions \cup {[room |-> r, address |-> a, object |-> o]}
        /\ \/ o = Null /\ UNCHANGED ownVars
           \/ o \in Objects /\ a \in Aors /\ Own!Start(o, <<r, a>>)
  BY DEF SubscribeOwn, AddSubscription, Aors
<1> DEFINE s == [room |-> r, address |-> a, object |-> o]
<1>3. s \in Subscription /\ s.room = r /\ s.address = a /\ s.object = o
  BY Fields
<1>4. \A q \in Objects : mActive[q] => owner[q] # <<r, a>>
  BY DEF IInv, StoreInv, StoreKnowsWhatRuns, Matching
<1>5. PartsInv'
  <2>1. REP!IInv'
    BY <1>1, ExternalKeeps DEF IInv, PartsInv
  <2>2. OwnP!IInv'
    BY <1>1, <1>2, <1>4, OwnKeeps DEF IInv, PartsInv
  <2> QED
    BY <2>1, <2>2 DEF PartsInv
<1>6. \/ o = Null /\ UNCHANGED <<mActive, owner>>
      \/ /\ o \in Objects /\ ~mActive[o] /\ a \in Aors
         /\ mActive' = [mActive EXCEPT ![o] = TRUE] /\ owner' = [owner EXCEPT ![o] = <<r, a>>]
  BY <1>2 DEF Own!Start, Own!Free, ownVars
<1> HIDE DEF s
<1>n. Null \notin Objects
  BY ConstantsAssumption
<1>7. /\ \A q \in Objects \ {o} : mActive'[q] = mActive[q] /\ owner'[q] = owner[q]
      /\ o # Null => a \in Aors /\ mActive'[o] /\ owner'[o] = <<r, a>> /\ \A t \in mSubscriptions : t.object # o
  BY <1>6, <1>n, OwnFacts DEF IInv, PartsInv, StoreInv, ObjectsInv
<1>s. mSubscriptions' = mSubscriptions \cup {s} /\ \A t \in mSubscriptions : t \in Subscription
  BY <1>2 DEF s, IInv, StoreInv, ServerInv
<1>8. ServerInv'
  BY <1>3, <1>s DEF IInv, StoreInv, ServerInv
<1>9. ObjectsInv'
  <2> SUFFICES ASSUME NEW t \in mSubscriptions', t.object # Null
               PROVE  mActive'[t.object] /\ owner'[t.object] = <<t.room, t.address>> /\ t.address \in Aors
    BY DEF ObjectsInv
  <2>1. CASE t = s
    BY <1>1, <1>3, <1>7, <2>1
  <2>2. CASE t \in mSubscriptions
    <3>1. t.object \in Objects \ {o}
      BY <1>s, <1>7, <1>n, <2>2, Fields
    <3> QED
      BY <1>7, <2>2, <3>1 DEF IInv, StoreInv, ObjectsInv
  <2> QED
    BY <1>s, <2>1, <2>2
<1>10. LiveAreHeld'
  BY <1>1 DEF IInv, StoreInv, LiveAreHeld, externalVars
<1>11. StoreKnowsWhatRuns'
  <2>1. ASSUME NEW q \in Rooms, NEW b \in External
        PROVE  RE!Observing(<<q, b>>)' <=> [room |-> q, address |-> b, object |-> Null] \in mSubscriptions'
    <3>1. RE!Observing(<<q, b>>)' <=> RE!Observing(<<q, b>>)
      BY <1>1 DEF RE!Observing, externalVars
    <3>2. [room |-> q, address |-> b, object |-> Null] # s
      BY <1>1, <1>3
    <3> QED
      BY <1>s, <3>1, <3>2 DEF IInv, StoreInv, StoreKnowsWhatRuns
  <2>2. ASSUME NEW q \in Objects
        PROVE  mActive'[q] <=>
                 \E t \in mSubscriptions' : t.object = q /\ owner'[q] = <<t.room, t.address>>
    <3>1. CASE q = o
      BY <1>3, <1>7, <1>s, <1>n, <3>1
    <3>2. CASE q # o
      BY <1>3, <1>7, <1>s, <3>2 DEF IInv, StoreInv, StoreKnowsWhatRuns
    <3> QED
      BY <3>1, <3>2
  <2> QED
    BY <2>1, <2>2 DEF StoreKnowsWhatRuns
<1>12. OneSubscriptionPerPresence'
  BY <1>3, <1>s DEF IInv, StoreInv, OneSubscriptionPerPresence, Matching
<1> QED
  BY <1>5, <1>8, <1>9, <1>10, <1>11, <1>12 DEF IInv, StoreInv

\* What is stopped with the subscriptions of a set
ListenersOf(subs) == {<<s.room, s.address>> : s \in {t \in subs : t.address \in External}}
ObjectsOf(subs) == {s.object : s \in subs} \ {Null}

(* Those stopped with stored subscriptions are listeners and objects, and those *)
(* that are external are stopped by a release, if there are any.                *)
LEMMA Removed ==
    ASSUME IInv, NEW subs \in SUBSET mSubscriptions, RemoveSubscriptions(subs)
    PROVE  /\ ListenersOf(subs) \in SUBSET L /\ ObjectsOf(subs) \in SUBSET Objects
           /\ \/ ListenersOf(subs) # {} /\ RE!Release(ListenersOf(subs))
              \/ ListenersOf(subs) = {} /\ UNCHANGED externalVars
           /\ \/ ObjectsOf(subs) # {} /\ Own!Stop(ObjectsOf(subs))
              \/ ObjectsOf(subs) = {} /\ UNCHANGED ownVars
           /\ mSubscriptions' = mSubscriptions \ subs
<1>1. \A s \in subs : s \in Subscription
  BY DEF IInv, StoreInv, ServerInv
<1>2. ListenersOf(subs) \in SUBSET L
  BY <1>1, Fields, AddressKinds DEF ListenersOf
<1>3. ObjectsOf(subs) \in SUBSET Objects
  BY <1>1, Fields DEF ObjectsOf
<1> QED
  BY <1>2, <1>3 DEF RemoveSubscriptions, StopExternal, StopOwn, ListenersOf, ObjectsOf

\* Those who observe after a removal, if it stops any of them or not
LEMMA ObserversRemoved ==
    ASSUME IInv, NEW ls \in SUBSET L, RE!Release(ls) \/ (ls = {} /\ UNCHANGED externalVars)
    PROVE  /\ \A k \in L : RE!Observing(k)' <=> RE!Observing(k) /\ k \notin ls
           /\ mObservers' = [c \in Clients |-> mObservers[c] \ ls]
           /\ live' = {c \in live : ~(mObservers[c] \subseteq ls)}
           /\ told' = [l \in L |-> IF l \in ls THEN RE!Unknown ELSE told[l]]
<1>1. CASE RE!Release(ls)
  BY <1>1, ObserversRelease DEF IInv, PartsInv
<1>2. CASE ls = {} /\ UNCHANGED externalVars
  <2>1. UNCHANGED <<live, mObservers, told>>
    BY <1>2 DEF externalVars
  <2>2. \A c \in live : mObservers[c] # {}
    BY DEF IInv, StoreInv, LiveAreHeld
  <2>3. mObservers' = [c \in Clients |-> mObservers[c] \ ls]
    BY <1>2, <2>1, ExternalFacts DEF IInv, PartsInv
  <2>4. told' = [l \in L |-> IF l \in ls THEN RE!Unknown ELSE told[l]]
    BY <1>2, <2>1, ExternalFacts DEF IInv, PartsInv
  <2> QED
    BY <1>2, <2>1, <2>2, <2>3, <2>4 DEF RE!Observing
<1> QED
  BY <1>1, <1>2

(* Subscriptions that leave the store are stopped, whatever their number. *)
LEMMA RemoveKeeps ==
    ASSUME IInv, NEW subs \in SUBSET mSubscriptions, RemoveSubscriptions(subs),
           mRunning' \in BOOLEAN, mChatRooms' \subseteq Rooms,
           ~mRunning' => mChatRooms' = {} /\ mSubscriptions' = {}
    PROVE  IInv'
<1> DEFINE ls == ListenersOf(subs)
           objects == ObjectsOf(subs)
<1>1. \A s \in mSubscriptions : s \in Subscription
  BY DEF IInv, StoreInv, ServerInv
<1>2. ls \in SUBSET L /\ objects \in SUBSET Objects
  BY Removed
<1>3. /\ RE!Release(ls) \/ (ls = {} /\ UNCHANGED externalVars)
      /\ Own!Stop(objects) \/ (objects = {} /\ UNCHANGED ownVars)
      /\ mSubscriptions' = mSubscriptions \ subs
  BY Removed
<1>4. \A q \in Rooms, b \in External :
        <<q, b>> \in ls <=> [room |-> q, address |-> b, object |-> Null] \in subs
  <2> SUFFICES ASSUME NEW q \in Rooms, NEW b \in External
               PROVE  <<q, b>> \in ls <=> [room |-> q, address |-> b, object |-> Null] \in subs
    OBVIOUS
  <2>1. ASSUME <<q, b>> \in ls PROVE [room |-> q, address |-> b, object |-> Null] \in subs
    <3>1. PICK s \in subs : s.room = q /\ s.address = b
      BY <2>1 DEF ListenersOf
    <3>2. s.object = Null
      BY <3>1, AddressKinds DEF IInv, StoreInv, ObjectsInv
    <3>3. s = [room |-> s.room, address |-> s.address, object |-> s.object]
      BY <1>1, Fields
    <3> QED
      BY <3>1, <3>2, <3>3
  <2>2. ASSUME [room |-> q, address |-> b, object |-> Null] \in subs PROVE <<q, b>> \in ls
    BY <2>2 DEF ListenersOf
  <2> QED
    BY <2>1, <2>2
<1>5. \A o \in Objects : o \in objects <=> \E s \in subs : s.object = o
  BY ConstantsAssumption DEF ObjectsOf
<1> HIDE DEF ls, objects
<1>6. PartsInv'
  BY <1>2, <1>3, ExternalKeeps, OwnKeeps DEF IInv, PartsInv
<1>7. ServerInv'
  BY <1>3 DEF IInv, StoreInv, ServerInv
<1>8. \A o \in Objects : (mActive'[o] <=> mActive[o] /\ o \notin objects) /\ owner'[o] = owner[o]
  BY <1>2, <1>3, OwnFacts DEF Own!Stop, ownVars, IInv, PartsInv
<1>9. \A s \in mSubscriptions', t \in subs : s.object # Null => s.object # t.object
  <2> SUFFICES ASSUME NEW s \in mSubscriptions', NEW t \in subs, s.object # Null, s.object = t.object
               PROVE  FALSE
    OBVIOUS
  <2>1. <<s.room, s.address>> = <<t.room, t.address>>
    BY <1>3 DEF IInv, StoreInv, ObjectsInv
  <2>2. s = t
    BY <1>3, <2>1 DEF IInv, StoreInv, OneSubscriptionPerPresence
  <2> QED
    BY <1>3, <2>2
<1>10. ObjectsInv'
  <2> SUFFICES ASSUME NEW s \in mSubscriptions', s.object # Null
               PROVE  /\ mActive'[s.object] /\ owner'[s.object] = <<s.room, s.address>>
                      /\ s.address \in Aors
    BY DEF ObjectsInv
  <2>1. s \in mSubscriptions /\ s.object \in Objects
    BY <1>1, <1>3, Fields
  <2>2. s.object \notin objects
    BY <1>5, <1>9, <2>1
  <2> QED
    BY <1>8, <2>1, <2>2 DEF IInv, StoreInv, ObjectsInv
<1>11. LiveAreHeld'
  <2>1. /\ mObservers' = [c \in Clients |-> mObservers[c] \ ls]
        /\ live' = {c \in live : ~(mObservers[c] \subseteq ls)}
    BY <1>2, <1>3, ObserversRemoved
  <2> QED
    BY <2>1, ExternalFacts DEF IInv, PartsInv, LiveAreHeld
<1>12. StoreKnowsWhatRuns'
  <2>1. ASSUME NEW q \in Rooms, NEW b \in External
        PROVE  RE!Observing(<<q, b>>)' <=> [room |-> q, address |-> b, object |-> Null] \in mSubscriptions'
    <3>1. RE!Observing(<<q, b>>)' <=> RE!Observing(<<q, b>>) /\ <<q, b>> \notin ls
      BY <1>2, <1>3, AddressKinds, ObserversRemoved
    <3>2. RE!Observing(<<q, b>>) <=> [room |-> q, address |-> b, object |-> Null] \in mSubscriptions
      BY DEF IInv, StoreInv, StoreKnowsWhatRuns
    <3> QED
      BY <1>3, <1>4, <3>1, <3>2
  <2>2. ASSUME NEW o \in Objects
        PROVE  mActive'[o] <=>
                 \E t \in mSubscriptions' : t.object = o /\ owner'[o] = <<t.room, t.address>>
    <3>1. mActive[o] <=> \E t \in mSubscriptions : t.object = o /\ owner[o] = <<t.room, t.address>>
      BY DEF IInv, StoreInv, StoreKnowsWhatRuns
    <3>2. \A t \in mSubscriptions : t.object = o => (t \in mSubscriptions' <=> o \notin objects)
      BY <1>3, <1>5, <1>9, ConstantsAssumption
    <3> QED
      BY <1>3, <1>8, <3>1, <3>2
  <2> QED
    BY <2>1, <2>2 DEF StoreKnowsWhatRuns
<1>13. OneSubscriptionPerPresence'
  BY <1>3 DEF IInv, StoreInv, OneSubscriptionPerPresence
<1> QED
  BY <1>6, <1>7, <1>10, <1>11, <1>12, <1>13 DEF IInv, StoreInv

(* A step that changes neither the store nor who is at work keeps the store's *)
(* invariant.                                                                 *)
LEMMA StoreKept ==
    ASSUME StoreInv, UNCHANGED <<mRunning, mSubscriptions, live, mObservers, mActive, owner>>,
           mChatRooms' \subseteq Rooms, ~mRunning => mChatRooms' = {}
    PROVE  StoreInv'
  BY DEF StoreInv, ServerInv, ObjectsInv, LiveAreHeld, StoreKnowsWhatRuns,
         OneSubscriptionPerPresence, RE!Observing

(* Reports reach the subscriptions and leave the store alone. *)
LEMMA ReportsKeep ==
    ASSUME IInv, CoreReports \/ RegistrarReports
    PROVE  IInv'
<1>1. CASE CoreReports
  <2>1. PartsInv'
    BY <1>1, ExternalKeeps, OwnKeeps DEF IInv, PartsInv, CoreReports
  <2>2. UNCHANGED <<mRunning, mChatRooms, mSubscriptions, live, mObservers, mActive, owner>>
    BY <1>1, ObserversReports DEF CoreReports, serverVars, ownVars
  <2> QED
    BY <2>1, <2>2, StoreKept DEF IInv, StoreInv, ServerInv
<1>2. CASE RegistrarReports
  <2>1. PartsInv'
    BY <1>2, ExternalKeeps, OwnKeeps DEF IInv, PartsInv, RegistrarReports
  <2>2. UNCHANGED <<mRunning, mChatRooms, mSubscriptions, live, mObservers, mActive, owner>>
    BY <1>2 DEF RegistrarReports, serverVars, externalVars, Own!RegistrarNext,
       Own!BindingsChange, Own!RecordRead, Own!AnswerReceived, Own!ErrorReceived
  <2> QED
    BY <2>1, <2>2, StoreKept DEF IInv, StoreInv, ServerInv
<1> QED
  BY <1>1, <1>2

(* Every step of the server, of the core and of the registrar keeps it. *)
LEMMA NextIInv == IInv /\ [Next]_vars => IInv'
<1> SUFFICES ASSUME IInv, [Next]_vars PROVE IInv'
  OBVIOUS
<1>1. ASSUME NEW r \in Rooms, ChatRoomInstantiated(r) \/ ChatRoomDeleted(r) PROVE IInv'
  <2>1. /\ UNCHANGED <<mRunning, mSubscriptions, externalVars, ownVars>>
        /\ mRunning /\ mChatRooms' \subseteq Rooms
    BY <1>1 DEF ChatRoomInstantiated, ChatRoomDeleted, IInv, StoreInv, ServerInv
  <2>2. PartsInv'
    BY <2>1, ExternalKeeps, OwnKeeps DEF IInv, PartsInv
  <2>3. StoreInv'
    BY <2>1, StoreKept DEF IInv, externalVars, ownVars
  <2> QED
    BY <2>2, <2>3 DEF IInv
<1>2. ASSUME NEW r \in Rooms, NEW a \in Addresses, SubscriptionRequested(r, a) PROVE IInv'
  <2>1. mRunning
    BY <1>2 DEF SubscriptionRequested, IInv, StoreInv, ServerInv
  <2> QED
    BY <1>2, <2>1, SubscribeExternalKeeps, SubscribeOwnKeeps DEF SubscriptionRequested
<1>3. ASSUME NEW r \in Rooms, NEW a \in Addresses, UnsubscriptionRequested(r, a) PROVE IInv'
  <2>1. /\ Matching(r, a) \in SUBSET mSubscriptions /\ RemoveSubscriptions(Matching(r, a))
        /\ mRunning' \in BOOLEAN /\ mChatRooms' \subseteq Rooms
        /\ ~mRunning' => mChatRooms' = {} /\ mSubscriptions' = {}
    BY <1>3 DEF UnsubscriptionRequested, Matching, IInv, StoreInv, ServerInv
  <2> QED
    BY <2>1, RemoveKeeps
<1>4. ASSUME ServerStop PROVE IInv'
  <2>1. mSubscriptions' = {} /\ mChatRooms' = {} /\ ~mRunning' /\ mRunning' \in BOOLEAN
    BY <1>4 DEF ServerStop, RemoveSubscriptions
  <2> QED
    BY <1>4, <2>1, RemoveKeeps DEF ServerStop
<1>5. ASSUME CoreReports \/ RegistrarReports PROVE IInv'
  BY <1>5, ReportsKeep
<1>6. ASSUME UNCHANGED vars PROVE IInv'
  <2>1. PartsInv'
    BY <1>6, ExternalKeeps, OwnKeeps DEF IInv, PartsInv, vars
  <2>2. StoreInv'
    BY <1>6, StoreKept DEF IInv, StoreInv, ServerInv, vars, serverVars, externalVars, ownVars
  <2> QED
    BY <2>1, <2>2 DEF IInv
<1> QED
  BY <1>1, <1>2, <1>3, <1>4, <1>5, <1>6 DEF Next

\* The invariant holds in every reachable state.
LEMMA Inductive == Spec => []IInv
  BY InitStore, NextIInv, PTL DEF Spec

-----------------------------------------------------------------------------

(* The store, the clients and the own subscriptions keep their types through   *)
(* every callback of the server (conference-server.cc:306-316,                 *)
(* participant-registration-subscription-handler.cc).                          *)
THEOREM Typing == Spec => []TypeOK
<1>1. IInv => TypeOK
  BY SameTypes DEF IInv, PartsInv, StoreInv, ServerInv, TypeOK, REP!IInv, OwnP!IInv
<1> QED
  BY <1>1, Inductive, PTL

(* A stored subscription is at work and one at work is stored, however the      *)
(* requests and the reports interleave (registration-subscription-store.cc).    *)
THEOREM NothingIsForgotten == Spec => []StoreKnowsWhatRuns
<1>1. IInv => StoreKnowsWhatRuns
  BY DEF IInv, StoreInv
<1> QED
  BY <1>1, Inductive, PTL

(* No chat room has two subscriptions for one participant, however its URIs are *)
(* written (participant-registration-subscription-handler.cc).                  *)
THEOREM OnePerPresence == Spec => []OneSubscriptionPerPresence
<1>1. IInv => OneSubscriptionPerPresence
  BY DEF IInv, StoreInv
<1> QED
  BY <1>1, Inductive, PTL

(* Stopping the server leaves no client, no listener and no open dialog behind, *)
(* whatever is under way (conference-server.cc:306-316): the store knew all     *)
(* that was at work, and what nobody holds is destroyed.                        *)
THEOREM StopLeavesNothing == Spec => []StoppedIsQuiet
<1>1. IInv => StoppedIsQuiet
  <2> SUFFICES ASSUME IInv, ~mRunning
               PROVE  /\ live = {} /\ ~mListening
                      /\ \A e \in Events : evState[e] # "open"
                      /\ listeners = {}
                      /\ \A o \in Objects : ~mActive[o]
    BY DEF StoppedIsQuiet
  <2>1. mSubscriptions = {}
    BY DEF IInv, StoreInv, ServerInv
  <2>2. \A l \in L : ~RE!Observing(l)
    BY <2>1, AddressKinds DEF IInv, StoreInv, StoreKnowsWhatRuns
  <2>3. live = {}
    <3> SUFFICES ASSUME NEW c \in live PROVE FALSE
      OBVIOUS
    <3>1. PICK l \in L : l \in mObservers[c]
      BY ExternalFacts DEF IInv, PartsInv, StoreInv, LiveAreHeld
    <3> QED
      BY <2>2, <3>1 DEF RE!Observing
  <2>4. \A o \in Objects : ~mActive[o]
    BY <2>1 DEF IInv, StoreInv, StoreKnowsWhatRuns
  <2> QED
    BY <2>3, <2>4, ExternalFacts, OwnFacts DEF IInv, PartsInv
<1> QED
  BY <1>1, Inductive, PTL

=============================================================================
