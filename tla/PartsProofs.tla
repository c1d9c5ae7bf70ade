-------------------------------- MODULE PartsProofs --------------------------------
(***************************************************************************)
(* The server and its two kinds of subscription: every step of               *)
(* ParticipantSubscriptions is a step of RegEventClients and one of           *)
(* OwnSubscriptions, or changes nothing of it, so that what is proved of      *)
(* either alone holds in the server.  And what a chat room sees of a          *)
(* participant, from one end to the other.                                    *)
(***************************************************************************)
EXTENDS UpdatesProofs

-----------------------------------------------------------------------------
(* Removals *)

(* Once all that observe are stopped, it is as if every listener were: the    *)
(* others hold no client and were told nothing.                               *)
LEMMA ReleaseOfAll ==
    ASSUME IInv, ViewInv, NEW ls \in SUBSET L, RE!Release(ls),
           \A l \in L : RE!Observing(l) => l \in ls
    PROVE  RE!Release(L)
<1>1. \A c \in Clients : mObservers[c] \subseteq L /\ mObservers[c] \subseteq ls
  <2> SUFFICES ASSUME NEW c \in Clients PROVE mObservers[c] \subseteq L /\ mObservers[c] \subseteq ls
    OBVIOUS
  <2>1. mObservers[c] \subseteq L
    BY ExternalFacts DEF IInv, PartsInv
  <2>2. CASE c \in live
    BY <2>1, <2>2 DEF RE!Observing
  <2>3. CASE c \notin live
    BY <2>3, ExternalFacts DEF IInv, PartsInv
  <2> QED
    BY <2>1, <2>2, <2>3
<1>2. [c \in Clients |-> mObservers[c] \ ls] = [c \in Clients |-> mObservers[c] \ L]
  BY <1>1
<1>3. RE!HeldOnlyBy(ls) = RE!HeldOnlyBy(L)
  BY <1>1, ExternalFacts DEF RE!HeldOnlyBy, IInv, PartsInv
<1>4. \A l \in L \ ls : told[l] = RE!Unknown
  BY DEF ViewInv, ToldInv
<1>5. [l \in L |-> IF l \in ls THEN RE!Unknown ELSE told[l]]
        = [l \in L |-> IF l \in L THEN RE!Unknown ELSE told[l]]
  BY <1>4
<1> QED
  BY <1>2, <1>3, <1>5 DEF RE!Release, L

(* The subscription of a presence is one, external or own: its end stops one  *)
(* listener that observes, or one active object.                              *)
LEMMA OneIsRemoved ==
    ASSUME IInv, NEW r \in Rooms, NEW a \in Addresses
    PROVE  /\ Matching(r, a) \in SUBSET mSubscriptions
           /\ \A l \in ListenersOf(Matching(r, a)) :
                ListenersOf(Matching(r, a)) = {l} /\ RE!Observing(l)
           /\ \A o \in ObjectsOf(Matching(r, a)) :
                ObjectsOf(Matching(r, a)) = {o} /\ mActive[o]
<1>1. Matching(r, a) \in SUBSET mSubscriptions
  BY DEF Matching
<1>2. \A s, t \in Matching(r, a) : s = t
  BY DEF Matching, IInv, StoreInv, OneSubscriptionPerPresence
<1>3. ASSUME NEW l \in ListenersOf(Matching(r, a))
      PROVE  ListenersOf(Matching(r, a)) = {l} /\ RE!Observing(l)
  <2>1. PICK s \in Matching(r, a) : s.address \in External /\ l = <<s.room, s.address>>
    BY DEF ListenersOf
  <2>2. ListenersOf(Matching(r, a)) = {l}
    BY <1>2, <2>1 DEF ListenersOf
  <2>3. s \in mSubscriptions /\ s \in Subscription
    BY <1>1, <2>1 DEF IInv, StoreInv, ServerInv
  <2>4. s.object = Null
    BY <2>1, <2>3, Fields, AddressKinds DEF IInv, StoreInv, ObjectsInv
  <2>5. s = [room |-> s.room, address |-> s.address, object |-> Null] /\ s.room \in Rooms
    BY <2>3, <2>4, Fields
  <2> QED
    BY <2>1, <2>2, <2>3, <2>5 DEF IInv, StoreInv, StoreKnowsWhatRuns
<1>4. ASSUME NEW o \in ObjectsOf(Matching(r, a))
      PROVE  ObjectsOf(Matching(r, a)) = {o} /\ mActive[o]
  <2>1. PICK s \in Matching(r, a) : o = s.object /\ o # Null
    BY DEF ObjectsOf
  <2>2. ObjectsOf(Matching(r, a)) = {o}
    BY <1>2, <2>1 DEF ObjectsOf
  <2> QED
    BY <1>1, <2>1, <2>2 DEF IInv, StoreInv, ObjectsInv
<1> QED
  BY <1>1, <1>3, <1>4

\* All that is at work is stopped with the server.
LEMMA AllAreRemoved ==
    ASSUME IInv
    PROVE  /\ \A l \in L : RE!Observing(l) <=> l \in ListenersOf(mSubscriptions)
           /\ \A o \in Objects : mActive[o] <=> o \in ObjectsOf(mSubscriptions)
<1>1. ASSUME NEW l \in L, RE!Observing(l) PROVE l \in ListenersOf(mSubscriptions)
  <2>1. [room |-> l[1], address |-> l[2], object |-> Null] \in mSubscriptions
    BY <1>1, AddressKinds DEF IInv, StoreInv, StoreKnowsWhatRuns
  <2> QED
    BY <2>1, AddressKinds DEF ListenersOf
<1>2. ASSUME NEW l \in ListenersOf(mSubscriptions) PROVE RE!Observing(l)
  <2>1. PICK s \in mSubscriptions : s.address \in External /\ l = <<s.room, s.address>>
    BY DEF ListenersOf
  <2>2. s.object = Null /\ s \in Subscription
    BY <2>1, AddressKinds DEF IInv, StoreInv, ServerInv, ObjectsInv
  <2>3. s = [room |-> s.room, address |-> s.address, object |-> Null] /\ s.room \in Rooms
    BY <2>2, Fields
  <2> QED
    BY <2>1, <2>3 DEF IInv, StoreInv, StoreKnowsWhatRuns
<1>3. ASSUME NEW o \in Objects PROVE mActive[o] <=> o \in ObjectsOf(mSubscriptions)
  BY ConstantsAssumption DEF ObjectsOf, IInv, StoreInv, StoreKnowsWhatRuns, ObjectsInv
<1> QED
  BY <1>1, <1>2, <1>3

-----------------------------------------------------------------------------
(* The parts *)

(* Every step is one of the clients, or leaves them alone. *)
LEMMA ExternalSimulation ==
    ASSUME IInv, ViewInv, [Next]_vars
    PROVE  [RE!Next]_(RE!vars)
<1>1. UNCHANGED externalVars => UNCHANGED RE!vars
  BY DEF externalVars, RE!vars, RE!clientVars, RE!storeVars, RE!eventVars
<1>2. ASSUME NEW r \in Rooms, NEW a \in Addresses, SubscribeExternal(r, a) PROVE RE!Next
  BY <1>2 DEF SubscribeExternal, RE!Next
<1>3. ASSUME NEW r \in Rooms, NEW a \in Addresses, UnsubscriptionRequested(r, a)
      PROVE  RE!Next \/ UNCHANGED externalVars
  <2>1. CASE UNCHANGED externalVars
    BY <2>1
  <2>2. CASE ListenersOf(Matching(r, a)) # {} /\ RE!Release(ListenersOf(Matching(r, a)))
    <3>1. PICK l \in ListenersOf(Matching(r, a)) : TRUE
      BY <2>2
    <3>2. RE!Stop(l)
      BY <2>2, <3>1, OneIsRemoved DEF RE!Stop
    <3>3. l \in Rooms \X External
      BY <1>3, <3>1, OneIsRemoved, Removed DEF UnsubscriptionRequested, L
    <3> QED
      BY <3>2, <3>3 DEF RE!Next
  <2> QED
    BY <1>3, <2>1, <2>2, OneIsRemoved, Removed DEF UnsubscriptionRequested
<1>4. ASSUME ServerStop PROVE RE!Next \/ UNCHANGED externalVars
  <2>1. CASE UNCHANGED externalVars
    BY <2>1
  <2>2. CASE /\ ListenersOf(mSubscriptions) # {} /\ ListenersOf(mSubscriptions) \in SUBSET L
             /\ RE!Release(ListenersOf(mSubscriptions))
    <3>1. RE!Release(L)
      BY <2>2, AllAreRemoved, ReleaseOfAll
    <3>2. live # {}
      BY <2>2, AllAreRemoved DEF RE!Observing
    <3> QED
      BY <3>1, <3>2 DEF RE!StopAll, RE!Next, L
  <2> QED
    BY <1>4, <2>1, <2>2, Removed DEF ServerStop
<1>5. ASSUME CoreReports PROVE RE!Next
  BY <1>5 DEF CoreReports, RE!Next
<1> QED
  BY <1>1, <1>2, <1>3, <1>4, <1>5 DEF Next, vars, ChatRoomInstantiated, ChatRoomDeleted,
     SubscriptionRequested, SubscribeOwn, RegistrarReports

(* Every step is one of the own subscriptions, or leaves them alone. *)
LEMMA OwnSimulation ==
    ASSUME IInv, [Next]_vars
    PROVE  [Own!Next]_(Own!vars)
<1>1. UNCHANGED ownVars => UNCHANGED Own!vars
  BY DEF ownVars, Own!vars, Own!registrarVars
<1>2. ASSUME NEW r \in Rooms, NEW a \in Addresses, Matching(r, a) = {}, SubscribeOwn(r, a)
      PROVE  Own!Next \/ UNCHANGED ownVars
  <2>1. CASE UNCHANGED ownVars
    BY <2>1
  <2>2. CASE a \in Aors /\ \E o \in Objects : Own!Start(o, <<r, a>>)
    <3>1. \A q \in Objects : mActive[q] => owner[q] # <<r, a>>
      BY <1>2 DEF IInv, StoreInv, StoreKnowsWhatRuns, Matching
    <3>2. <<r, a>> \in Own!Pairs
      BY <2>2 DEF Own!Pairs
    <3> QED
      BY <2>2, <3>1, <3>2 DEF Own!Next
  <2> QED
    BY <1>2, <2>1, <2>2 DEF SubscribeOwn, Aors
<1>3. ASSUME NEW r \in Rooms, NEW a \in Addresses, UnsubscriptionRequested(r, a)
      PROVE  Own!Next \/ UNCHANGED ownVars
  <2>1. CASE UNCHANGED ownVars
    BY <2>1
  <2>2. CASE ObjectsOf(Matching(r, a)) # {} /\ Own!Stop(ObjectsOf(Matching(r, a)))
    <3>1. PICK o \in ObjectsOf(Matching(r, a)) : TRUE
      BY <2>2
    <3>2. mActive[o] /\ Own!Stop({o})
      BY <2>2, <3>1, OneIsRemoved
    <3>3. o \in Objects
      BY <1>3, <3>1, OneIsRemoved, Removed DEF UnsubscriptionRequested
    <3> QED
      BY <3>2, <3>3 DEF Own!Next
  <2> QED
    BY <1>3, <2>1, <2>2, OneIsRemoved, Removed DEF UnsubscriptionRequested
<1>4. ASSUME ServerStop PROVE Own!Next \/ UNCHANGED ownVars
  <2>1. CASE UNCHANGED ownVars
    BY <2>1
  <2>2. CASE /\ ObjectsOf(mSubscriptions) # {} /\ ObjectsOf(mSubscriptions) \in SUBSET Objects
             /\ Own!Stop(ObjectsOf(mSubscriptions))
    <3>1. {o \in ObjectsOf(mSubscriptions) : mActive[o]} = {o \in Objects : mActive[o]}
      BY <2>2, AllAreRemoved
    <3>2. Own!Stop(Objects)
      BY <2>2, <3>1 DEF Own!Stop
    <3>3. \E o \in Objects : mActive[o]
      BY <2>2, AllAreRemoved
    <3> QED
      BY <3>2, <3>3 DEF Own!StopAll, Own!Next
  <2> QED
    BY <1>4, <2>1, <2>2, Removed DEF ServerStop
<1>5. ASSUME RegistrarReports PROVE Own!Next
  BY <1>5 DEF RegistrarReports, Own!Next
<1> QED
  BY <1>1, <1>2, <1>3, <1>4, <1>5 DEF Next, vars, ChatRoomInstantiated, ChatRoomDeleted,
     SubscriptionRequested, SubscribeExternal, CoreReports

(* The server uses its clients and its own subscriptions as their modules      *)
(* specify, whatever the requests and the reports                              *)
(* (participant-registration-subscription-handler.cc:52-104,                    *)
(* registration-subscription.cc:101-187).                                      *)
THEOREM PartsAreImplemented == Spec => PartsAsSpecified
<1>1. Init => RE!Init /\ Own!Init
  BY DEF Init
<1>2. IInv /\ ViewInv /\ [Next]_vars => [RE!Next]_(RE!vars) /\ [Own!Next]_(Own!vars)
  BY ExternalSimulation, OwnSimulation
<1> QED
  BY <1>1, <1>2, ViewInductive, PTL DEF Spec, PartsAsSpecified, RE!Spec, Own!Spec

-----------------------------------------------------------------------------
(* What is proved of the parts alone *)

\* The steps of the clients are those their theorems are about.
LEMMA SameNext == (RE!Next => REP!Next) /\ (UNCHANGED RE!vars => UNCHANGED REP!vars)
<1>1. RE!Next => REP!Next
  BY SameStarts, SameReleases, SameReports
  DEF RE!Next, REP!Next, RE!Stop, REP!Stop, RE!StopAll, REP!StopAll
<1>2. UNCHANGED RE!vars => UNCHANGED REP!vars
  BY DEF RE!vars, RE!clientVars, RE!storeVars, RE!eventVars,
         REP!vars, REP!clientVars, REP!storeVars, REP!eventVars
<1> QED
  BY <1>1, <1>2

\* The specifications of the parts are those their theorems are about.
LEMMA SameSpecs == (RE!Spec => REP!Spec) /\ (Own!Spec => OwnP!Spec)
<1>1. [RE!Next]_(RE!vars) => [REP!Next]_(REP!vars)
  BY SameNext
<1>2. Own!Next => OwnP!Next
  BY SameOwn DEF Own!Next, OwnP!Next, Own!Pairs, OwnP!Pairs, Own!StopAll, OwnP!StopAll
<1>3. UNCHANGED Own!vars => UNCHANGED OwnP!vars
  BY DEF Own!vars, Own!registrarVars, OwnP!vars, OwnP!registrarVars
<1> QED
  BY <1>1, <1>2, <1>3, SameInit, PTL DEF RE!Spec, REP!Spec, Own!Spec, OwnP!Spec

(* A chat room that joins a client whose subscription has ended opens a new    *)
(* one, in the server as alone (client.cc:42-55,137-145).                      *)
THEOREM NewcomersReviveInTheServer == Spec => REP!NewcomersReviveTheClient
<1>1. REP!Spec => REP!NewcomersReviveTheClient
  BY REP!NewcomersRevive, PartsConstants
<1> QED
  BY <1>1, PartsAreImplemented, SameSpecs, PTL DEF PartsAsSpecified

(* No chat room of the server is given an older list of a participant of a     *)
(* local domain than the one it has (registration-subscription.cc:132,156).    *)
THEOREM ListsGetNewerInTheServer == Spec => OwnP!RoomsNeverGoBack
<1>1. OwnP!Spec => OwnP!RoomsNeverGoBack
  BY OwnP!ListsGetNewer, PartsConstants
<1> QED
  BY <1>1, PartsAreImplemented, SameSpecs, PTL DEF PartsAsSpecified

-----------------------------------------------------------------------------
(* What a chat room sees of a participant *)

\* The registrar has had a record of everyone, empty or not, from the start.
VersionsInv == \A a \in Aors : bindings[a].version \in Nat \ {0}

\* The invariant of what the observers of a client were told
KnownInv == OnlyKnownRefreshed => REP!ViewInv

SeenInv == VersionsInv /\ KnownInv

\* The filter of the chat rooms is that of the own subscriptions.
LEMMA SameFilter == \A r, devices : Filter!Compatible(r, devices) = OwnP!Compatible(r, devices)
  BY DEF Filter!Compatible, Filter!IsContactCompatible, Filter!MaskFromSpecs,
         OwnP!Compatible, OwnP!IsContactCompatible, OwnP!MaskFromSpecs

\* It holds when the server starts.
LEMMA InitSeen == Init => SeenInv
<1> SUFFICES ASSUME Init PROVE SeenInv
  OBVIOUS
<1>1. VersionsInv
  BY DEF Init, Own!Init, VersionsInv
<1>2. KnownInv
  BY SameInit, REP!InitViewInv, PartsConstants DEF Init, KnownInv
<1> QED
  BY <1>1, <1>2 DEF SeenInv

(* Records only get newer, and the clients keep their promise. *)
LEMMA NextSeen ==
    ASSUME IInv, ViewInv, SeenInv, [Next]_vars
    PROVE  SeenInv'
<1>1. VersionsInv'
  <2>1. CASE UNCHANGED bindings
    BY <2>1 DEF SeenInv, VersionsInv
  <2>2. CASE \E a \in Aors, devices \in SUBSET Devices, uid \in Devices \cup {Null} :
               Own!BindingsChange(a, devices, uid)
    <3>1. PICK a \in Aors, devices \in SUBSET Devices :
            bindings' = [bindings EXCEPT ![a] = [devices |-> devices, version |-> @.version + 1]]
      BY <2>2 DEF Own!BindingsChange
    <3>2. bindings \in [Aors -> [devices : SUBSET Devices, version : Nat]]
      BY DEF IInv, PartsInv, OwnP!IInv, OwnP!TypeOK, OwnP!Record
    <3>3. \A b \in Aors : bindings'[b].version \in {bindings[b].version, bindings[b].version + 1}
      BY <3>1, <3>2
    <3> QED
      BY <3>2, <3>3 DEF SeenInv, VersionsInv
  <2> QED
    BY <2>1, <2>2, OwnSimulation
    DEF Own!Next, Own!vars, Own!registrarVars, Own!Start, Own!Stop, Own!StopAll,
        Own!RegistrarNext, Own!RecordRead, Own!AnswerReceived, Own!ErrorReceived
<1>2. KnownInv'
  <2>1. [REP!Next]_(REP!vars)
    BY SameNext, ExternalSimulation
  <2> QED
    BY <2>1, REP!NextViewInv, PartsConstants DEF SeenInv, KnownInv, IInv, PartsInv
<1> QED
  BY <1>1, <1>2 DEF SeenInv

(* From the registrar's record, or from the NOTIFY of the participant's domain, *)
(* to the list of the chat room: nothing is lost, mixed with another participant *)
(* or left over from an earlier subscription                                     *)
(* (registration-subscription.cc:131-147,189-198, client.cc:44-48,118-122).      *)
THEOREM ChatRoomsSeeWhatIsKnown == Spec => []ViewsAreCurrent
<1>1. ASSUME IInv, ViewInv, SeenInv, Sees, NEW s \in mSubscriptions
      PROVE  ExternalViews(s.room, KeyOf[s.address]) \cup OwnViews(s.room, KeyOf[s.address]) = Given(s)
  <2>1. <<s.room, KeyOf[s.address]>> \in Pairs
    BY <1>1, StoredPairs
  <2> QED
    BY <1>1, <2>1 DEF Sees, View
<1>2. ASSUME IInv, ViewInv, SeenInv, NEW s \in mSubscriptions,
             s.object # Null, pending[s.object] = <<>>, ~missed[s.object]
      PROVE  Given(s) = {Filter!Compatible(s.room, bindings[s.address].devices)}
  <2> DEFINE o == s.object
             p == <<s.room, s.address>>
  <2>1. o \in Objects /\ mActive[o] /\ owner[o] = p /\ s.address \in Aors /\ s.address \notin External
    <3>1. s \in Subscription
      BY <1>2 DEF IInv, StoreInv, ServerInv
    <3> QED
      BY <1>2, <3>1, Fields, AddressKinds DEF IInv, StoreInv, ObjectsInv
  <2>2. roomDevices[p] = [bindings[s.address] EXCEPT !.devices = OwnP!Compatible(s.room, @)]
    BY <1>2, <2>1 DEF IInv, PartsInv, OwnP!IInv, OwnP!AnswersInv, OwnP!UpToDate, OwnP!Current
  <2>3. bindings[s.address] \in [devices : SUBSET Devices, version : Nat]
    BY <2>1, <1>2 DEF IInv, PartsInv, OwnP!IInv, OwnP!TypeOK, OwnP!Record
  <2>4. /\ roomDevices[p].devices = OwnP!Compatible(s.room, bindings[s.address].devices)
        /\ roomDevices[p].version = bindings[s.address].version
    BY <2>2, <2>3
  <2>5. roomDevices[p] # Own!NotTold
    BY <1>2, <2>1, <2>4 DEF SeenInv, VersionsInv, Own!NotTold
  <2> QED
    BY <2>1, <2>4, <2>5, SameFilter DEF Given
<1>3. ASSUME IInv, ViewInv, SeenInv, OnlyKnownRefreshed, NEW s \in mSubscriptions, NEW c \in live,
             <<s.room, s.address>> \in mObservers[c], mSubscribeEvent[c] \in heard
      PROVE  Given(s) = {Filter!Compatible(s.room, mParticipantDevices[c])}
  <2>1. <<s.room, s.address>> \in L /\ s.address \in External
    BY <1>3, ExternalFacts, AddressKinds DEF IInv, PartsInv
  <2>2. told[<<s.room, s.address>>] = mParticipantDevices[c]
    BY <1>3 DEF SeenInv, KnownInv, REP!ViewInv, REP!ObserversKnowTheDevices
  <2>3. told[<<s.room, s.address>>] # RE!Unknown
    BY <1>3, <2>2, ExternalFacts, PartsConstants DEF IInv, PartsInv, RE!Unknown
  <2> QED
    BY <2>1, <2>2, <2>3 DEF Given
<1>4. IInv /\ ViewInv /\ SeenInv /\ Sees => ViewsAreCurrent
  BY <1>1, <1>2, <1>3 DEF ViewsAreCurrent
<1>5. IInv /\ ViewInv /\ SeenInv /\ [Next]_vars => SeenInv'
  BY NextSeen
<1> QED
  BY <1>4, <1>5, InitSeen, GivenToPairs, ViewInductive, PTL DEF Spec

\* A chat room has what its client knows, if its capabilities let it through.
GivenWhatIsKnown ==
    \A r \in Rooms, a \in External : \A c \in live : <<r, a>> \in mObservers[c] =>
        \A d \in Filter!Compatible(r, mParticipantDevices[c]) :
            \E list \in ExternalViews(r, KeyOf[a]) : d \in list

\* It follows from what the observers of the client were told.
LEMMA KnownIsGiven == OnlyKnownRefreshed /\ IInv /\ SeenInv => GivenWhatIsKnown
<1> SUFFICES ASSUME OnlyKnownRefreshed, IInv, SeenInv, NEW r \in Rooms, NEW a \in External,
                    NEW c \in live, <<r, a>> \in mObservers[c],
                    NEW d \in Filter!Compatible(r, mParticipantDevices[c])
             PROVE  \E list \in ExternalViews(r, KeyOf[a]) : d \in list
  BY DEF GivenWhatIsKnown
<1>1. REP!ToldWhatIsKnown
  BY REP!KnownIsTold, PartsConstants DEF SeenInv, KnownInv, IInv, PartsInv
<1>2. d \in mParticipantDevices[c]
  BY DEF Filter!Compatible
<1>3. told[<<r, a>>] # RE!Unknown /\ d \in told[<<r, a>>]
  BY <1>1, <1>2 DEF REP!ToldWhatIsKnown, REP!Unknown, RE!Unknown
<1>4. d \in Filter!Compatible(r, told[<<r, a>>])
  BY <1>3 DEF Filter!Compatible
<1>5. Filter!Compatible(r, told[<<r, a>>]) \in ExternalViews(r, KeyOf[a])
  BY <1>3 DEF ExternalViews
<1> QED
  BY <1>4, <1>5

(* A chat room that hears of a refresh has the device in its list, and had it   *)
(* before if the client it shares knew the device: however it came to observe   *)
(* this client, and whatever other chat rooms hear of                           *)
(* (registration-subscription.cc:189-203, client.cc:44-48,107-122).             *)
THEOREM RefreshesFollowTheList == Spec => RefreshesAreOfGivenDevices
<1>1. ASSUME IInv, ViewInv, NEW r \in Rooms, NEW a \in External, NEW d \in Refreshed(r, a)
      PROVE  \E s \in mSubscriptions : s.room = r /\ s.address = a
  <2>1. d \in Devices /\ <<<<r, a>>, d>> \in refreshes /\ <<r, a>> \in L
    BY DEF Refreshed, Filter!Compatible, L
  <2>2. RE!Observing(<<r, a>>)
    BY <1>1, <2>1 DEF ViewInv, RefreshInv, RE!Observing
  <2> QED
    BY <1>1, <2>2 DEF IInv, StoreInv, StoreKnowsWhatRuns
<1>2. ASSUME IInv, ViewInv, GivenWhatIsKnown,
             NEW r \in Rooms, NEW a \in External, NEW d \in Refreshed(r, a)
      PROVE  \E list \in ExternalViews(r, KeyOf[a]) : d \in list
  <2>1. d \in Devices /\ <<<<r, a>>, d>> \in refreshes /\ <<r, a>> \in L
    BY DEF Refreshed, Filter!Compatible, L
  <2>2. PICK c \in live : <<r, a>> \in mObservers[c] /\ d \in mParticipantDevices[c]
    BY <1>2, <2>1 DEF ViewInv, RefreshInv
  <2>3. d \in Filter!Compatible(r, mParticipantDevices[c])
    BY <2>2 DEF Refreshed, Filter!Compatible
  <2> QED
    BY <1>2, <2>2, <2>3 DEF GivenWhatIsKnown
<1>3. ASSUME GivenWhatIsKnown, NEW r \in Rooms, NEW a \in External, NEW d \in Refreshed(r, a)',
             NEW c \in live, <<r, a>> \in mObservers[c], d \in mParticipantDevices[c]
      PROVE  \E list \in ExternalViews(r, KeyOf[a]) : d \in list
  <2>1. d \in Filter!Compatible(r, mParticipantDevices[c])
    BY <1>3 DEF Refreshed, Filter!Compatible
  <2> QED
    BY <1>3, <2>1 DEF GivenWhatIsKnown
<1> DEFINE Followed == \A r \in Rooms, a \in External : \A d \in Refreshed(r, a) :
                          \E s \in mSubscriptions : s.room = r /\ s.address = a
           Listed == OnlyKnownRefreshed =>
                       \A r \in Rooms, a \in External : \A d \in Refreshed(r, a) :
                          \E list \in ExternalViews(r, KeyOf[a]) : d \in list
           Known == OnlyKnownRefreshed => GivenWhatIsKnown
<1>4. IInv /\ ViewInv => Followed
  BY <1>1
<1>5. IInv /\ ViewInv /\ SeenInv => Known /\ Listed
  BY <1>2, KnownIsGiven
<1>6. IInv /\ ViewInv /\ SeenInv /\ [Next]_vars => SeenInv'
  BY NextSeen
<1>7. Followed' /\ Known /\ Listed' =>
        [\A r \in Rooms, a \in External : \A d \in Refreshed(r, a)' :
          /\ \E s \in mSubscriptions' : s.room = r /\ s.address = a
          /\ OnlyKnownRefreshed =>
                /\ \E list \in ExternalViews(r, KeyOf[a])' : d \in list
                /\ \A c \in live : <<r, a>> \in mObservers[c] /\ d \in mParticipantDevices[c] =>
                      \E list \in ExternalViews(r, KeyOf[a]) : d \in list]_vars
  BY <1>3
<1> HIDE DEF Followed, Listed, Known
<1> QED
  BY <1>4, <1>5, <1>6, <1>7, InitSeen, ViewInductive, PTL DEF Spec, RefreshesAreOfGivenDevices

=============================================================================
