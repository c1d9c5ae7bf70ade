------------------------------ MODULE UpdatesProofs ------------------------------
(***************************************************************************)
(* What the chat rooms are given, for any chat rooms, addresses, devices and *)
(* slots: ParticipantSubscriptions implements RoomUpdates.                    *)
(*                                                                            *)
(* The pairs followed are those of the store, of which each has one stored    *)
(* subscription: what the pair was given is what this subscription gave.      *)
(***************************************************************************)
EXTENDS ParticipantSubscriptionsProofs

Pairs == Rooms \X Keys
Joined == {<<s.room, KeyOf[s.address]>> : s \in mSubscriptions}
View == [p \in Pairs |-> ExternalViews(p[1], p[2]) \cup OwnViews(p[1], p[2])]
Views == {{}} \cup {{list} : list \in SUBSET Devices}

\* What a stored subscription gave its chat room
Given(s) ==
    IF s.address \in External
    THEN IF told[<<s.room, s.address>>] = RE!Unknown THEN {}
         ELSE {Filter!Compatible(s.room, told[<<s.room, s.address>>])}
    ELSE IF s.address \notin Aors \/ roomDevices[<<s.room, s.address>>] = Own!NotTold THEN {}
         ELSE {roomDevices[<<s.room, s.address>>].devices}

-----------------------------------------------------------------------------
(* The invariant of what was given *)

\* The observers of a client are after its address.
AddressInv == \A c \in live : \A l \in mObservers[c] : l[2] = mTo[c]

\* Only a subscription at work has given anything.
ToldInv == \A l \in L : told[l] # RE!Unknown => RE!Observing(l)
OwnGiven ==
    \A p \in Rooms \X Aors :
        roomDevices[p] # Own!NotTold => \E o \in Objects : mActive[o] /\ owner[o] = p

\* A refresh is of a device its client knows.
RefreshInv ==
    \A l \in L, d \in Devices : <<l, d>> \in refreshes =>
        \E c \in live : l \in mObservers[c] /\ d \in mParticipantDevices[c]

ViewInv == AddressInv /\ ToldInv /\ OwnGiven /\ RefreshInv

(* Nothing is given before the first subscription. *)
LEMMA InitView == Init => ViewInv
  BY DEF Init, RE!Init, Own!Init, Own!Pairs, ViewInv, AddressInv, ToldInv, OwnGiven, RefreshInv, L

(* What the external part does keeps its side of the invariant.               *)
LEMMA ExternalStartView ==
    ASSUME IInv, ViewInv, NEW r \in Rooms, NEW a \in External, RE!Start(<<r, a>>, a)
    PROVE  AddressInv' /\ RefreshInv' /\ ToldInv'
<1> DEFINE k == <<r, a>>
<1>1. k \in L /\ k[2] = a
  BY DEF L
<1>2. PICK c \in live' :
              /\ mObservers' = [mObservers EXCEPT ![c] = @ \cup {k}]
              /\ live' \subseteq Clients /\ live' = live \cup {c}
              /\ mTo'[c] = a /\ \A d \in live \ {c} : mTo'[d] = mTo[d]
              /\ c \in live => mTo[c] = a
              /\ told' \in {told, [told EXCEPT ![k] = mParticipantDevices[c]]}
              /\ refreshes' = {}
  BY <1>1, StartObserves DEF IInv, PartsInv
<1>3. /\ mObservers'[c] = mObservers[c] \cup {k} /\ \A d \in live' \ {c} : mObservers'[d] = mObservers[d]
      /\ c \notin live => mObservers[c] = {}
  BY <1>2, ExternalFacts DEF IInv, PartsInv
<1>4. \A l \in L : RE!Observing(l)' <=> RE!Observing(l) \/ l = k
  BY <1>1, ObserversStart DEF IInv, PartsInv
<1>5. \A l \in L : l # k => told'[l] = told[l]
  BY <1>2, ExternalFacts DEF IInv, PartsInv
<1> HIDE DEF k
<1>6. AddressInv'
  <2> SUFFICES ASSUME NEW d \in live', NEW l \in mObservers'[d] PROVE l[2] = mTo'[d]
    BY DEF AddressInv
  <2>1. CASE d = c
    BY <1>1, <1>2, <1>3, <2>1 DEF ViewInv, AddressInv
  <2>2. CASE d # c
    BY <1>2, <1>3, <2>2 DEF ViewInv, AddressInv
  <2> QED
    BY <2>1, <2>2
<1> QED
  BY <1>2, <1>4, <1>5, <1>6 DEF ViewInv, ToldInv, RefreshInv

(* Those released have given nothing any more. *)
LEMMA ReleaseView ==
    ASSUME IInv, ViewInv, NEW ls \in SUBSET L, RE!Release(ls)
    PROVE  AddressInv' /\ RefreshInv' /\ ToldInv'
<1>1. /\ \A k \in L : RE!Observing(k)' <=> RE!Observing(k) /\ k \notin ls
      /\ mObservers' = [c \in Clients |-> mObservers[c] \ ls]
      /\ live' = {c \in live : ~(mObservers[c] \subseteq ls)}
      /\ \A c \in live' : mTo'[c] = mTo[c]
      /\ told' = [l \in L |-> IF l \in ls THEN RE!Unknown ELSE told[l]]
      /\ refreshes' = {}
  BY ObserversRelease DEF IInv, PartsInv
<1>2. AddressInv'
  BY <1>1, ExternalFacts DEF IInv, PartsInv, ViewInv, AddressInv
<1> QED
  BY <1>1, <1>2 DEF ViewInv, ToldInv, RefreshInv

\* A report of the core is for the observers of one client.
ReportsTo(c) ==
    \A l \in L : l \notin mObservers[c] => told'[l] = told[l]

(* A report gives something to the observers of a client at most. *)
LEMMA ReportsView ==
    ASSUME IInv, ViewInv, CoreReports
    PROVE  /\ AddressInv' /\ RefreshInv'
           /\ ToldInv'
           /\ told' = told \/ \E c \in live : ReportsTo(c)
<1>1. /\ UNCHANGED <<live, mObservers, mTo, mListening>>
      /\ \A k \in L : RE!Observing(k)' <=> RE!Observing(k)
  BY ObserversReports
<1>2. AddressInv'
  BY <1>1 DEF ViewInv, AddressInv
<1>3. CASE told' = told /\ refreshes' = {}
  BY <1>1, <1>2, <1>3 DEF ViewInv, ToldInv, RefreshInv
<1>4. CASE \E e \in Events, doc \in RE!Documents : RE!NotifyReceived(e, doc)
  <2>1. PICK e \in Events, doc \in RE!Documents : RE!NotifyReceived(e, doc)
    BY <1>4
  <2>2. PICK c \in Clients : /\ RE!DispatchedTo(e, c) /\ RE!Sendable(e, doc)
                             /\ RE!OnNotifyReceived(c, doc)
    BY <2>1 DEF RE!NotifyReceived
  <2>3. c \in live
    BY <2>2, ConstantsAssumption, ExternalFacts DEF RE!DispatchedTo, IInv, PartsInv
  <2>4. told' = told \/ \E devices : RE!Tell(c, devices)
    BY <2>2 DEF RE!OnNotifyReceived
  <2>5. ReportsTo(c)
    BY <2>4, ExternalFacts DEF RE!Tell, ReportsTo, L, IInv, PartsInv
  <2>6. RefreshInv'
    <3>1. CASE doc.state = "terminated"
      BY <2>2, <3>1 DEF RE!OnNotifyReceived, RefreshInv
    <3>2. CASE doc.state = "active"
      <4>1. /\ refreshes' = mObservers[c] \X doc.refreshed /\ doc.refreshed \subseteq doc.contacts
            /\ mParticipantDevices' = [mParticipantDevices EXCEPT ![c] = doc.contacts]
        BY <2>2, <3>2 DEF RE!OnNotifyReceived, RE!Sendable
      <4>2. mParticipantDevices'[c] = doc.contacts
        BY <4>1, <2>3, ExternalFacts DEF IInv, PartsInv
      <4> QED
        BY <1>1, <2>3, <4>1, <4>2 DEF RefreshInv
    <3> QED
      BY <2>2, <3>1, <3>2 DEF RE!OnNotifyReceived
  <2>7. \A l \in L : l \in mObservers[c] => RE!Observing(l)'
    BY <1>1, <2>3 DEF RE!Observing
  <2>8. ToldInv'
    BY <1>1, <2>5, <2>7 DEF ReportsTo, ViewInv, ToldInv
  <2> QED
    BY <1>2, <2>3, <2>5, <2>6, <2>8
<1>5. CASE \/ \E e \in Events : RE!SubscriptionEnded(e)
           \/ \E e \in Events : RE!SubscriptionClosed(e)
  <2>1. told' = told /\ refreshes' = {}
    BY <1>5 DEF RE!SubscriptionEnded, RE!SubscriptionClosed
  <2> QED
    BY <1>3, <2>1
<1> QED
  BY <1>4, <1>5 DEF CoreReports

-----------------------------------------------------------------------------
(* The own subscriptions *)

(* A started object has given nothing yet. *)
LEMMA OwnStartView ==
    ASSUME OwnP!IInv, OwnGiven, NEW o \in Objects, NEW p, Own!Start(o, p)
    PROVE  OwnGiven' /\ roomDevices' = roomDevices
<1>1. /\ ~mActive[o] /\ roomDevices' = roomDevices
      /\ mActive' = [mActive EXCEPT ![o] = TRUE] /\ owner' = [owner EXCEPT ![o] = p]
  BY DEF Own!Start, Own!Free
<1>2. \A q \in Objects : mActive[q] => mActive'[q] /\ owner'[q] = owner[q]
  BY <1>1, OwnFacts
<1> QED
  BY <1>1, <1>2 DEF OwnGiven

(* What the stopped objects gave is forgotten, and only that. *)
LEMMA OwnStopView ==
    ASSUME OwnP!IInv, OwnGiven, NEW objects \in SUBSET Objects, Own!Stop(objects)
    PROVE  /\ OwnGiven'
           /\ \A p \in Rooms \X Aors :
                (\A o \in objects : mActive[o] => owner[o] # p) => roomDevices'[p] = roomDevices[p]
<1>1. /\ mActive' = [o \in Objects |-> mActive[o] /\ o \notin {q \in objects : mActive[q]}]
      /\ roomDevices' = [p \in Rooms \X Aors |->
                           IF p \in {owner[o] : o \in {q \in objects : mActive[q]}}
                           THEN Own!NotTold ELSE roomDevices[p]]
      /\ owner' = owner
  BY DEF Own!Stop, Own!Pairs
<1>2. ASSUME NEW p \in Rooms \X Aors, roomDevices'[p] # Own!NotTold
      PROVE  \E o \in Objects : mActive'[o] /\ owner'[o] = p
  <2>1. roomDevices[p] # Own!NotTold /\ \A o \in objects : mActive[o] => owner[o] # p
    BY <1>1, <1>2
  <2>2. PICK o \in Objects : mActive[o] /\ owner[o] = p
    BY <2>1 DEF OwnGiven
  <2> QED
    BY <1>1, <2>1, <2>2
<1>3. OwnGiven'
  BY <1>2 DEF OwnGiven
<1> QED
  BY <1>1, <1>3

(* An answer is given to the chat room of one active object at most. *)
LEMMA RegistrarView ==
    ASSUME OwnP!IInv, OwnGiven, Own!RegistrarNext
    PROVE  /\ OwnGiven'
           /\ \/ roomDevices' = roomDevices
              \/ \E o \in Objects : /\ mActive[o]
                                   /\ \A p \in Rooms \X Aors :
                                        p # owner[o] => roomDevices'[p] = roomDevices[p]
<1>1. UNCHANGED <<mActive, owner>>
  BY DEF Own!RegistrarNext, Own!BindingsChange, Own!RecordRead, Own!AnswerReceived, Own!ErrorReceived
<1>2. CASE roomDevices' = roomDevices
  BY <1>1, <1>2 DEF OwnGiven
<1>3. ASSUME NEW o \in Objects, mActive[o], NEW record, Own!ProcessRecord(o, record)
      PROVE  /\ OwnGiven'
             /\ \A p \in Rooms \X Aors : p # owner[o] => roomDevices'[p] = roomDevices[p]
  <2>1. \A p \in Rooms \X Aors : p # owner[o] => roomDevices'[p] = roomDevices[p]
    BY <1>3, OwnFacts DEF Own!ProcessRecord
  <2> QED
    BY <1>1, <1>3, <2>1 DEF OwnGiven
<1>4. \/ roomDevices' = roomDevices
      \/ \E o \in Objects : mActive[o] /\ \E record : Own!ProcessRecord(o, record)
  BY DEF Own!RegistrarNext, Own!BindingsChange, Own!RecordRead, Own!AnswerReceived, Own!ErrorReceived
<1> QED
  BY <1>2, <1>3, <1>4

-----------------------------------------------------------------------------
(* Every step keeps the invariant of what was given. *)

\* What was given stays that of subscriptions at work, through every step.
LEMMA NextView ==
    ASSUME IInv, ViewInv, [Next]_vars
    PROVE  ViewInv'
<1>0. ToldInv /\ OwnGiven /\ OwnP!IInv
  BY DEF ViewInv, IInv, PartsInv
<1>q. AddressInv' /\ RefreshInv' /\ ToldInv' /\ OwnGiven' => ViewInv'
  BY DEF ViewInv
<1>e. UNCHANGED externalVars => AddressInv' /\ RefreshInv' /\ ToldInv'
  BY DEF ViewInv, AddressInv, RefreshInv, ToldInv, RE!Observing, externalVars
<1>o. UNCHANGED ownVars => OwnGiven'
  BY <1>0 DEF OwnGiven, ownVars
<1>1. ASSUME NEW r \in Rooms, NEW a \in Addresses, SubscribeExternal(r, a) PROVE ViewInv'
  BY <1>1, <1>o, <1>q, ExternalStartView DEF SubscribeExternal
<1>2. ASSUME NEW r \in Rooms, NEW a \in Addresses, SubscribeOwn(r, a) PROVE ViewInv'
  <2>1. UNCHANGED ownVars \/ \E o \in Objects : Own!Start(o, <<r, a>>)
    BY <1>2 DEF SubscribeOwn
  <2>2. OwnGiven'
    BY <1>0, <1>o, <2>1, OwnStartView
  <2> QED
    BY <1>2, <1>e, <1>q, <2>2 DEF SubscribeOwn
<1>3. ASSUME NEW subs \in SUBSET mSubscriptions, RemoveSubscriptions(subs) PROVE ViewInv'
  <2>1. AddressInv' /\ RefreshInv' /\ ToldInv'
    BY <1>3, <1>e, Removed, ReleaseView
  <2>2. OwnGiven'
    BY <1>0, <1>3, <1>o, Removed, OwnStopView
  <2> QED
    BY <1>q, <2>1, <2>2
<1>4. CASE CoreReports
  BY <1>4, <1>o, <1>q, ReportsView DEF CoreReports
<1>5. CASE RegistrarReports
  <2>1. OwnGiven'
    BY <1>0, <1>5, RegistrarView DEF RegistrarReports
  <2> QED
    BY <1>5, <1>e, <1>q, <2>1 DEF RegistrarReports
<1>6. CASE UNCHANGED <<externalVars, ownVars>>
  BY <1>6, <1>e, <1>o, <1>q
<1>7. \A r \in Rooms, a \in Addresses : Matching(r, a) \in SUBSET mSubscriptions
  BY DEF Matching
<1> QED
  BY <1>1, <1>2, <1>3, <1>4, <1>5, <1>6, <1>7 DEF Next, vars, ChatRoomInstantiated, ChatRoomDeleted,
     SubscriptionRequested, UnsubscriptionRequested, ServerStop

\* Both invariants hold in every reachable state.
LEMMA ViewInductive == Spec => [](IInv /\ ViewInv)
<1>1. IInv /\ ViewInv /\ [Next]_vars => ViewInv'
  BY NextView
<1> QED
  BY <1>1, InitStore, InitView, NextIInv, PTL DEF Spec

-----------------------------------------------------------------------------
(* What a pair was given *)

Sees ==
    /\ View \in [Pairs -> Views]
    /\ \A s \in mSubscriptions : View[<<s.room, KeyOf[s.address]>>] = Given(s)
    /\ \A p \in Pairs \ Joined : View[p] = {}

\* A stored subscription is of one kind, and its pair is followed.
LEMMA StoredPairs ==
    ASSUME IInv
    PROVE  /\ \A s \in mSubscriptions :
                /\ <<s.room, KeyOf[s.address]>> \in Joined /\ s.room \in Rooms /\ s.address \in Addresses
                /\ s.address \in External \/ (s.address \in LocalAddresses /\ s.address \notin External)
           /\ Joined \subseteq Pairs
<1>1. \A s \in mSubscriptions : s.room \in Rooms /\ s.address \in Addresses /\ KeyOf[s.address] \in Keys
  BY Fields, AddressesAssumption DEF IInv, StoreInv, ServerInv
<1>2. \A s \in mSubscriptions : s.address \in External \/ (s.address \in LocalAddresses /\ s.address \notin External)
  BY <1>1, AddressKinds
<1>3. \A s \in mSubscriptions : <<s.room, KeyOf[s.address]>> \in Joined
  BY DEF Joined
<1>4. Joined \subseteq Pairs
  BY <1>1 DEF Joined, Pairs
<1> QED
  BY <1>1, <1>2, <1>3, <1>4

(* A pair was given what its one subscription gave, and nothing without one. *)
LEMMA GivenToPairs == IInv /\ ViewInv => Sees
<1> SUFFICES ASSUME IInv, ViewInv PROVE Sees
  OBVIOUS
<1>1. ASSUME NEW r \in Rooms, NEW a \in External, told[<<r, a>>] # RE!Unknown
      PROVE  [room |-> r, address |-> a, object |-> Null] \in mSubscriptions
  BY <1>1, AddressKinds DEF ViewInv, ToldInv, IInv, StoreInv, StoreKnowsWhatRuns
<1>2. ASSUME NEW r \in Rooms, NEW a \in Aors, roomDevices[<<r, a>>] # Own!NotTold
      PROVE  \E s \in mSubscriptions : s.room = r /\ s.address = a
  BY <1>2 DEF ViewInv, OwnGiven, IInv, StoreInv, StoreKnowsWhatRuns
<1>3. ASSUME NEW s \in mSubscriptions
      PROVE  /\ ExternalViews(s.room, KeyOf[s.address]) \cup OwnViews(s.room, KeyOf[s.address]) = Given(s)
             /\ Given(s) \in Views
  <2> DEFINE r == s.room
             a == s.address
  <2>0. r \in Rooms /\ a \in Addresses
    BY StoredPairs
  <2>1. ASSUME NEW t \in mSubscriptions, t.room = r, KeyOf[t.address] = KeyOf[a] PROVE t.address = a
    BY <2>1 DEF IInv, StoreInv, OneSubscriptionPerPresence
  <2>2. \A b \in External : KeyOf[b] = KeyOf[a] /\ told[<<r, b>>] # RE!Unknown => b = a
    BY <1>1, <2>0, <2>1
  <2>3. \A b \in Aors : KeyOf[b] = KeyOf[a] /\ roomDevices[<<r, b>>] # Own!NotTold => b = a
    BY <1>2, <2>0, <2>1
  <2>4. CASE a \in External
    <3>1. OwnViews(r, KeyOf[a]) = {}
      BY <2>3, <2>4, AddressKinds DEF OwnViews
    <3>2. ExternalViews(r, KeyOf[a]) = IF told[<<r, a>>] = RE!Unknown THEN {}
                                       ELSE {Filter!Compatible(r, told[<<r, a>>])}
      BY <2>2, <2>4 DEF ExternalViews
    <3>3. told[<<r, a>>] # RE!Unknown => Filter!Compatible(r, told[<<r, a>>]) \in SUBSET Devices
      BY <2>0, <2>4, AddressKinds, ExternalFacts DEF Filter!Compatible, IInv, PartsInv
    <3> QED
      BY <2>4, <3>1, <3>2, <3>3 DEF Given, Views
  <2>5. CASE a \in LocalAddresses /\ a \notin External
    <3>1. ExternalViews(r, KeyOf[a]) = {}
      BY <2>2, <2>5 DEF ExternalViews
    <3>2. OwnViews(r, KeyOf[a]) = IF a \notin Aors \/ roomDevices[<<r, a>>] = Own!NotTold THEN {}
                                  ELSE {roomDevices[<<r, a>>].devices}
      BY <2>3, <2>5 DEF OwnViews
    <3>3. a \in Aors => roomDevices[<<r, a>>].devices \in SUBSET Devices
      BY <2>0, <2>5, OwnFacts DEF IInv, PartsInv
    <3> QED
      BY <2>5, <3>1, <3>2, <3>3 DEF Given, Views
  <2> QED
    BY <2>4, <2>5, StoredPairs
<1>4. \A s \in mSubscriptions : View[<<s.room, KeyOf[s.address]>>] = Given(s)
  <2> SUFFICES ASSUME NEW s \in mSubscriptions PROVE View[<<s.room, KeyOf[s.address]>>] = Given(s)
    OBVIOUS
  <2>1. <<s.room, KeyOf[s.address]>> \in Pairs
    BY StoredPairs
  <2> QED
    BY <1>3, <2>1 DEF View
<1>5. ASSUME NEW p \in Pairs \ Joined PROVE View[p] = {}
  <2>1. p = <<p[1], p[2]>> /\ p[1] \in Rooms
    BY DEF Pairs
  <2>2. \A s \in mSubscriptions : s.room = p[1] => KeyOf[s.address] # p[2]
    BY <1>5, <2>1 DEF Joined
  <2>3. ExternalViews(p[1], p[2]) = {}
    BY <1>1, <2>1, <2>2 DEF ExternalViews
  <2>4. \A b \in Aors : KeyOf[b] = p[2] => roomDevices[<<p[1], b>>] = Own!NotTold
    BY <1>2, <2>1, <2>2
  <2>5. OwnViews(p[1], p[2]) = {}
    BY <2>4 DEF OwnViews
  <2> QED
    BY <2>3, <2>5 DEF View
<1>6. View \in [Pairs -> Views]
  <2> SUFFICES ASSUME NEW p \in Pairs PROVE View[p] \in Views
    BY DEF View
  <2>1. CASE p \in Joined
    BY <1>3, <1>4, <2>1 DEF Joined
  <2> QED
    BY <1>5, <2>1 DEF Views
<1> QED
  BY <1>4, <1>5, <1>6 DEF Sees

\* What a subscription gave does not change when it gives nothing.
GaveNothing(s) ==
    /\ s.address \in External => told'[<<s.room, s.address>>] = told[<<s.room, s.address>>]
    /\ s.address \in Aors =>
         roomDevices'[<<s.room, s.address>>] = roomDevices[<<s.room, s.address>>]

(* The view of a pair changes only with its subscription, or when this gives. *)
LEMMA ViewKept ==
    ASSUME IInv, Sees, Sees', NEW p \in Pairs,
           \A s : <<s.room, KeyOf[s.address]>> = p =>
                (s \in mSubscriptions' <=> s \in mSubscriptions),
           \A s \in mSubscriptions : <<s.room, KeyOf[s.address]>> = p => GaveNothing(s)
    PROVE  View'[p] = View[p]
<1>1. CASE p \in Joined
  <2>1. PICK s \in mSubscriptions : <<s.room, KeyOf[s.address]>> = p
    BY <1>1 DEF Joined
  <2>2. s \in mSubscriptions' /\ GaveNothing(s)
    BY <2>1
  <2>3. Given(s)' = Given(s)
    BY <2>2, StoredPairs DEF Given, GaveNothing
  <2> QED
    BY <2>1, <2>2, <2>3 DEF Sees
<1>2. CASE p \notin Joined
  <2>1. p \notin Joined'
    BY <1>2 DEF Joined
  <2> QED
    BY <1>2, <2>1 DEF Sees
<1> QED
  BY <1>1, <1>2

-----------------------------------------------------------------------------
(* The steps of RoomUpdates *)

OnlyViewsOf(ps) ==
    /\ View' \in [Pairs -> Views]
    /\ \A p \in Pairs \ ps : View'[p] = View[p]

\* The steps of RoomUpdates, said of the store and of the views.
LEMMA UpdatesSteps ==
    /\ Updates!Init <=> mRunning = TRUE /\ Joined = {} /\ View = [p \in Pairs |-> {}]
    /\ \A p : Updates!Join(p) <=>
         /\ mRunning /\ p \notin Joined /\ Joined' = Joined \cup {p}
         /\ OnlyViewsOf({p}) /\ mRunning' = mRunning
    /\ \A p : Updates!Leave(p) <=>
         /\ p \in Joined /\ Joined' = Joined \ {p}
         /\ View' = [View EXCEPT ![p] = {}] /\ mRunning' = mRunning
    /\ \A q : Updates!Update(q) <=>
         /\ OnlyViewsOf({p \in Joined : p[2] = q})
         /\ mRunning' = mRunning /\ Joined' = Joined
    /\ Updates!Close <=>
         /\ mRunning /\ mRunning' = FALSE /\ Joined' = {} /\ View' = [p \in Pairs |-> {}]
    /\ mRunning' = mRunning /\ Joined' = Joined /\ View' = View => UNCHANGED Updates!vars
  BY DEF Updates!Init, Updates!Join, Updates!Leave, Updates!Update, Updates!Close, Updates!vars,
         Updates!OnlyViewsOf, Updates!Pairs, Updates!Views, Updates!NotTold,
         OnlyViewsOf, Pairs, Joined, View, Views

(* A request of a chat room is a pair that joins. *)
LEMMA JoinStep ==
    ASSUME IInv, Sees, Sees', NEW r \in Rooms, NEW a \in Addresses, mRunning, Matching(r, a) = {},
           SubscribeExternal(r, a) \/ SubscribeOwn(r, a), mRunning' = mRunning
    PROVE  Updates!Join(<<r, KeyOf[a]>>)
<1> DEFINE p == <<r, KeyOf[a]>>
<1>1. PICK o : mSubscriptions' = mSubscriptions \cup {[room |-> r, address |-> a, object |-> o]}
  BY DEF SubscribeExternal, SubscribeOwn, AddSubscription
<1> DEFINE s == [room |-> r, address |-> a, object |-> o]
<1>2. mSubscriptions' = mSubscriptions \cup {s} /\ s.room = r /\ s.address = a
  BY <1>1
<1> HIDE DEF s
<1>3. p \notin Joined /\ Joined' = Joined \cup {p}
  BY <1>2 DEF Joined, Matching
<1>4. ASSUME NEW t \in mSubscriptions PROVE GaveNothing(t)
  <2>1. <<t.room, t.address>> # <<r, a>> /\ t.room \in Rooms
    BY StoredPairs DEF Matching
  <2>2. CASE SubscribeExternal(r, a)
    <3>1. /\ a \in External /\ <<r, a>> \in L /\ RE!Start(<<r, a>>, a) /\ UNCHANGED ownVars
      BY <2>2, AddressKinds DEF SubscribeExternal
    <3>2. PICK c \in live' : told' \in {told, [told EXCEPT ![<<r, a>>] = mParticipantDevices[c]]}
      BY <3>1, StartObserves DEF IInv, PartsInv
    <3>3. \A l \in L : l # <<r, a>> => told'[l] = told[l]
      BY <3>2, ExternalFacts DEF IInv, PartsInv
    <3>4. t.address \in External => <<t.room, t.address>> \in L
      BY <2>1, AddressKinds
    <3> QED
      BY <2>1, <3>1, <3>3, <3>4 DEF GaveNothing, ownVars
  <2>3. CASE SubscribeOwn(r, a)
    <3>1. told' = told /\ roomDevices' = roomDevices
      BY <2>3 DEF SubscribeOwn, externalVars, ownVars, Own!Start
    <3> QED
      BY <3>1 DEF GaveNothing
  <2> QED
    BY <2>2, <2>3
<1>5. ASSUME NEW q \in Pairs, q # p PROVE View'[q] = View[q]
  <2>1. \A t : <<t.room, KeyOf[t.address]>> = q => (t \in mSubscriptions' <=> t \in mSubscriptions)
    BY <1>2, <1>5
  <2> QED
    BY <1>4, <2>1, ViewKept
<1>6. OnlyViewsOf({p})
  BY <1>5 DEF OnlyViewsOf, Sees
<1> QED
  BY <1>3, <1>6, UpdatesSteps

(* The subscriptions that stay in the store give nothing when others leave. *)
LEMMA OthersGiveNothing ==
    ASSUME IInv, ViewInv, NEW subs \in SUBSET mSubscriptions, RemoveSubscriptions(subs),
           NEW s \in mSubscriptions \ subs
    PROVE  GaveNothing(s)
<1>1. ASSUME NEW t \in subs PROVE <<t.room, t.address>> # <<s.room, s.address>>
  BY DEF IInv, StoreInv, OneSubscriptionPerPresence
<1>2. /\ ListenersOf(subs) \in SUBSET L /\ ObjectsOf(subs) \in SUBSET Objects
      /\ RE!Release(ListenersOf(subs)) \/ (ListenersOf(subs) = {} /\ UNCHANGED externalVars)
      /\ Own!Stop(ObjectsOf(subs)) \/ UNCHANGED ownVars
  BY Removed
<1>3. ASSUME s.address \in External PROVE told'[<<s.room, s.address>>] = told[<<s.room, s.address>>]
  <2>1. <<s.room, s.address>> \notin ListenersOf(subs)
    BY <1>1 DEF ListenersOf
  <2>2. <<s.room, s.address>> \in L
    BY <1>3, StoredPairs, AddressKinds
  <2>3. told' = [l \in L |-> IF l \in ListenersOf(subs) THEN RE!Unknown ELSE told[l]]
    BY <1>2, ObserversRemoved
  <2> QED
    BY <2>1, <2>2, <2>3
<1>4. ASSUME s.address \in Aors
      PROVE  roomDevices'[<<s.room, s.address>>] = roomDevices[<<s.room, s.address>>]
  <2>1. \A o \in ObjectsOf(subs) : owner[o] # <<s.room, s.address>>
    BY <1>1 DEF IInv, StoreInv, ObjectsInv, ObjectsOf
  <2>2. <<s.room, s.address>> \in Rooms \X Aors
    BY <1>4, StoredPairs
  <2> QED
    BY <1>2, <2>1, <2>2, OwnStopView DEF IInv, PartsInv, ViewInv, ownVars
<1> QED
  BY <1>3, <1>4 DEF GaveNothing

(* The end of a presence is a pair that leaves. *)
LEMMA LeaveStep ==
    ASSUME IInv, ViewInv, Sees, Sees', NEW r \in Rooms, NEW a \in Addresses, Matching(r, a) # {},
           RemoveSubscriptions(Matching(r, a)), mRunning' = mRunning
    PROVE  Updates!Leave(<<r, KeyOf[a]>>)
<1> DEFINE p == <<r, KeyOf[a]>>
<1>1. /\ mSubscriptions' = mSubscriptions \ Matching(r, a) /\ Matching(r, a) \in SUBSET mSubscriptions
      /\ \A s \in mSubscriptions : s \in Matching(r, a) <=> <<s.room, KeyOf[s.address]>> = p
  BY DEF RemoveSubscriptions, Matching
<1>2. p \in Joined /\ Joined' = Joined \ {p} /\ p \in Pairs
  BY <1>1, StoredPairs DEF Joined
<1>3. ASSUME NEW q \in Pairs, q # p PROVE View'[q] = View[q]
  <2>1. \A s : <<s.room, KeyOf[s.address]>> = q => (s \in mSubscriptions' <=> s \in mSubscriptions)
    BY <1>1, <1>3
  <2>2. \A s \in mSubscriptions : <<s.room, KeyOf[s.address]>> = q => GaveNothing(s)
    BY <1>1, <1>3, OthersGiveNothing
  <2> QED
    BY <2>1, <2>2, ViewKept
<1>4. View'[p] = {}
  BY <1>2 DEF Sees
<1> HIDE DEF p
<1>5. View' = [View EXCEPT ![p] = {}]
  BY <1>2, <1>3, <1>4 DEF Sees
<1> QED
  BY <1>2, <1>5, UpdatesSteps DEF p

(* The stop of the server is the close. *)
LEMMA CloseStep ==
    ASSUME Sees', ServerStop
    PROVE  Updates!Close
<1>1. mRunning /\ mRunning' = FALSE /\ mSubscriptions' = {}
  BY DEF ServerStop, RemoveSubscriptions
<1>2. Joined' = {}
  BY <1>1 DEF Joined
<1>3. View' = [p \in Pairs |-> {}]
  BY <1>2 DEF Sees
<1> QED
  BY <1>1, <1>2, <1>3, UpdatesSteps

(* A report is an update about one participant, or changes no view. *)
LEMMA UpdateStep ==
    ASSUME IInv, ViewInv, Sees, Sees', CoreReports \/ RegistrarReports
    PROVE  (\E q \in Keys : Updates!Update(q)) \/ UNCHANGED Updates!vars
<1>1. UNCHANGED <<mRunning, mSubscriptions>> /\ Joined' = Joined
  BY DEF CoreReports, RegistrarReports, serverVars, Joined
<1>2. ASSUME NEW a \in Addresses,
             \A s \in mSubscriptions : s.address # a => GaveNothing(s)
      PROVE  Updates!Update(KeyOf[a])
  <2>1. ASSUME NEW p \in Pairs, p \notin {j \in Joined : j[2] = KeyOf[a]} PROVE View'[p] = View[p]
    <3>1. \A s \in mSubscriptions : <<s.room, KeyOf[s.address]>> = p => GaveNothing(s)
      BY <1>2, <2>1, StoredPairs
    <3> QED
      BY <1>1, <3>1, ViewKept
  <2>2. OnlyViewsOf({j \in Joined : j[2] = KeyOf[a]})
    BY <2>1 DEF OnlyViewsOf, Sees
  <2> QED
    BY <1>1, <2>2, UpdatesSteps
<1>3. ASSUME told' = told, roomDevices' = roomDevices PROVE UNCHANGED Updates!vars
  <2>1. \A p \in Pairs : View'[p] = View[p]
    BY <1>1, <1>3, ViewKept DEF GaveNothing
  <2>2. View' = View
    BY <2>1 DEF Sees
  <2> QED
    BY <1>1, <2>2, UpdatesSteps
<1>4. ASSUME CoreReports PROVE (\E q \in Keys : Updates!Update(q)) \/ UNCHANGED Updates!vars
  <2>1. roomDevices' = roomDevices
    BY <1>4 DEF CoreReports, ownVars
  <2>2. CASE \E c \in live : ReportsTo(c)
    <3>1. PICK c \in live : ReportsTo(c)
      BY <2>2
    <3>2. CASE mObservers[c] = {}
      BY <3>2 DEF IInv, StoreInv, LiveAreHeld
    <3>3. CASE mObservers[c] # {}
      <4>1. PICK k \in L : k \in mObservers[c]
        BY <3>3, ExternalFacts DEF IInv, PartsInv
      <4>2. k[2] \in External /\ k[2] \in Addresses /\ KeyOf[k[2]] \in Keys
        BY <4>1, AddressKinds, AddressesAssumption
      <4>3. ASSUME NEW s \in mSubscriptions, s.address # k[2] PROVE GaveNothing(s)
        <5>1. s.address \in External => <<s.room, s.address>> \in L
          BY StoredPairs, AddressKinds
        <5>2. s.address \in External => <<s.room, s.address>> \notin mObservers[c]
          BY <3>1, <4>1, <4>3 DEF ViewInv, AddressInv
        <5> QED
          BY <2>1, <3>1, <5>1, <5>2 DEF GaveNothing, ReportsTo
      <4> QED
        BY <1>2, <4>2, <4>3
    <3> QED
      BY <3>2, <3>3
  <2> QED
    BY <1>3, <1>4, <2>1, <2>2, ReportsView
<1>5. ASSUME RegistrarReports PROVE (\E q \in Keys : Updates!Update(q)) \/ UNCHANGED Updates!vars
  <2>1. told' = told
    BY <1>5 DEF RegistrarReports, externalVars
  <2>2. \/ roomDevices' = roomDevices
        \/ \E o \in Objects : /\ mActive[o]
                             /\ \A p \in Rooms \X Aors :
                                  p # owner[o] => roomDevices'[p] = roomDevices[p]
    BY <1>5, RegistrarView DEF RegistrarReports, IInv, PartsInv, ViewInv
  <2>3. ASSUME NEW o \in Objects, mActive[o],
               \A p \in Rooms \X Aors : p # owner[o] => roomDevices'[p] = roomDevices[p]
        PROVE  \E q \in Keys : Updates!Update(q)
    <3>1. owner[o] \in Rooms \X Aors
      BY <2>3, OwnFacts DEF IInv, PartsInv
    <3>2. owner[o][2] \in Addresses /\ KeyOf[owner[o][2]] \in Keys
      BY <3>1, AddressKinds, AddressesAssumption
    <3>3. ASSUME NEW s \in mSubscriptions, s.address # owner[o][2] PROVE GaveNothing(s)
      <4>1. s.address \in Aors => <<s.room, s.address>> \in Rooms \X Aors
        BY StoredPairs
      <4>2. <<s.room, s.address>> # owner[o]
        BY <3>3
      <4> QED
        BY <2>1, <2>3, <4>1, <4>2 DEF GaveNothing
    <3> QED
      BY <1>2, <3>2, <3>3
  <2> QED
    BY <1>3, <2>1, <2>2, <2>3
<1> QED
  BY <1>4, <1>5

(* Every step is a step of RoomUpdates, or changes nothing of it. *)
LEMMA Simulation ==
    ASSUME IInv, ViewInv, Sees, Sees', [Next]_vars
    PROVE  [Updates!Next]_(Updates!vars)
<1>1. ASSUME UNCHANGED <<mRunning, mSubscriptions, externalVars, ownVars>> PROVE UNCHANGED Updates!vars
  <2>1. Joined' = Joined /\ told' = told /\ roomDevices' = roomDevices
    BY <1>1 DEF Joined, externalVars, ownVars
  <2>2. \A p \in Pairs : View'[p] = View[p]
    BY <1>1, <2>1, ViewKept DEF GaveNothing
  <2>3. View' = View
    BY <2>2 DEF Sees
  <2> QED
    BY <1>1, <2>1, <2>3, UpdatesSteps
<1>2. ASSUME NEW r \in Rooms, ChatRoomInstantiated(r) \/ ChatRoomDeleted(r) PROVE UNCHANGED Updates!vars
  BY <1>1, <1>2 DEF ChatRoomInstantiated, ChatRoomDeleted
<1>k. \A r \in Rooms, a \in Addresses : <<r, KeyOf[a]>> \in Updates!Pairs
  BY AddressesAssumption DEF Updates!Pairs
<1>3. ASSUME NEW r \in Rooms, NEW a \in Addresses, SubscriptionRequested(r, a) PROVE Updates!Next
  <2>1. mRunning
    BY <1>3 DEF SubscriptionRequested, IInv, StoreInv, ServerInv
  <2>2. Updates!Join(<<r, KeyOf[a]>>)
    BY <1>3, <2>1, JoinStep DEF SubscriptionRequested
  <2> QED
    BY <1>k, <2>2 DEF Updates!Next
<1>4. ASSUME NEW r \in Rooms, NEW a \in Addresses, UnsubscriptionRequested(r, a) PROVE Updates!Next
  <2>1. Updates!Leave(<<r, KeyOf[a]>>)
    BY <1>4, LeaveStep DEF UnsubscriptionRequested
  <2> QED
    BY <1>k, <2>1 DEF Updates!Next
<1>5. ASSUME ServerStop PROVE Updates!Next
  BY <1>5, CloseStep DEF Updates!Next
<1>6. ASSUME CoreReports \/ RegistrarReports PROVE Updates!Next \/ UNCHANGED Updates!vars
  BY <1>6, UpdateStep DEF Updates!Next
<1>7. ASSUME UNCHANGED vars PROVE UNCHANGED Updates!vars
  BY <1>1, <1>7 DEF vars, serverVars
<1> QED
  BY <1>2, <1>3, <1>4, <1>5, <1>6, <1>7 DEF Next

(* Chat rooms are updated as conference-server-tester.cc:355-363 specifies, for *)
(* any number of them: the server implements RoomUpdates.                       *)
THEOREM UpdatesAreImplemented == Spec => UpdatesImplemented
<1>1. Init => Updates!Init
  <2> SUFFICES ASSUME Init PROVE Updates!Init
    OBVIOUS
  <2>1. Sees
    BY InitStore, InitView, GivenToPairs
  <2>2. mRunning = TRUE /\ Joined = {}
    BY DEF Init, Joined
  <2>3. View = [p \in Pairs |-> {}]
    BY <2>1, <2>2 DEF Sees
  <2> QED
    BY <2>2, <2>3, UpdatesSteps
<1>2. IInv' /\ ViewInv' => Sees'
  BY GivenToPairs, PTL
<1>3. IInv /\ ViewInv /\ [Next]_vars /\ IInv' /\ ViewInv' => [Updates!Next]_(Updates!vars)
  BY <1>2, GivenToPairs, Simulation
<1> QED
  BY <1>1, <1>3, ViewInductive, PTL DEF Spec, UpdatesImplemented, Updates!Spec
=============================================================================
