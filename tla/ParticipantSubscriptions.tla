------------------------ MODULE ParticipantSubscriptions ------------------------
(***************************************************************************)
(* ParticipantRegistrationSubscriptionHandler and its store, driven by the    *)
(* callbacks of the conference server, over the two kinds of subscription:    *)
(* External for the participants of other domains (RegEventClients) and Own   *)
(* for those of the local domains (OwnSubscriptions).                         *)
(*                                                                            *)
(* The listeners of RegEventClients are the external subscriptions, one for   *)
(* a chat room and an address; the objects of OwnSubscriptions are the own    *)
(* ones.  The chat rooms and the requests about their participants come from  *)
(* the Linphone core.                                                         *)
(***************************************************************************)
EXTENDS Naturals, FiniteSets, Sequences

CONSTANTS
    Rooms,           \* chat rooms
    Addresses,       \* the participants' URIs
    LocalAddresses,  \* those of the local domains (mLocalDomains)
    InvalidAors,     \* the local ones that are not valid SIP URIs
    Keys,            \* user@domain, the keys of the store
    KeyOf,           \* URI -> key
    Devices, mCheckCapabilities, CapabilitiesOf, SpecsOf,
    Clients, Events, OnlyKnownRefreshed,
    Objects, MaxVersion,
    Null

ASSUME AddressesAssumption ==
    /\ InvalidAors \subseteq LocalAddresses
    /\ LocalAddresses \subseteq Addresses
    /\ KeyOf \in [Addresses -> Keys]
    \* the domain of a URI is part of its key
    /\ \A a, b \in Addresses : KeyOf[a] = KeyOf[b] =>
           (a \in LocalAddresses <=> b \in LocalAddresses)

ASSUME ConstantsAssumption ==
    /\ IsFiniteSet(Clients)
    /\ Null \notin Clients \cup Events \cup Addresses \cup Devices \cup Objects
    /\ MaxVersion \in Nat

VARIABLES
    mRunning,        \* the server has not been stopped
    mChatRooms,      \* the chat rooms the server listens to
    mSubscriptions,  \* the store: chat room, address, object of an own subscription
    live, mTo, mSubscribeEvent, mParticipantDevices, mObservers, mClients,
    mUseCount, mListening, evState, evData, told, refreshes, heard,
    bindings, listeners, pending, owner, mActive, missed, roomDevices, pings

External == Addresses \ LocalAddresses
Aors == LocalAddresses \ InvalidAors

RE  == INSTANCE RegEventClients WITH Addresses <- External, Listeners <- Rooms \X External
Own == INSTANCE OwnSubscriptions

serverVars == <<mRunning, mChatRooms, mSubscriptions>>
externalVars == <<live, mTo, mSubscribeEvent, mParticipantDevices, mObservers, mClients,
                  mUseCount, mListening, evState, evData, told, refreshes, heard>>
ownVars == <<bindings, listeners, pending, owner, mActive, missed, roomDevices, pings>>
vars == <<serverVars, externalVars, ownVars>>

Subscription == [room : Rooms, address : Addresses, object : Objects \cup {Null}]

TypeOK ==
    /\ mRunning \in BOOLEAN
    /\ mChatRooms \subseteq Rooms
    /\ mSubscriptions \subseteq Subscription
    /\ RE!TypeOK
    /\ Own!TypeOK

Init ==
    /\ mRunning = TRUE
    /\ mChatRooms = {}
    /\ mSubscriptions = {}
    /\ RE!Init
    /\ Own!Init

-----------------------------------------------------------------------------
(* ConferenceServer::onChatRoomStateChanged *)

ChatRoomInstantiated(r) ==
    /\ mRunning
    /\ r \notin mChatRooms
    /\ mChatRooms' = mChatRooms \cup {r}
    /\ UNCHANGED <<mRunning, mSubscriptions, externalVars, ownVars>>

ChatRoomDeleted(r) ==
    /\ mRunning
    /\ r \in mChatRooms
    /\ mChatRooms' = mChatRooms \ {r}
    /\ UNCHANGED <<mRunning, mSubscriptions, externalVars, ownVars>>

-----------------------------------------------------------------------------
(* RegistrationSubscriptionStore *)

\* mutant: the store compares whole addresses
MatchingAddress(r, a) == {s \in mSubscriptions : s.room = r /\ s.address = a}

\* The subscriptions findSubscription and removeSubscription look for
Matching(r, a) ==
    {s \in mSubscriptions : s.room = r /\ KeyOf[s.address] = KeyOf[a]}

AddSubscription(r, a, o) ==
    mSubscriptions' = mSubscriptions \cup {[room |-> r, address |-> a, object |-> o]}

\* mutant: the subscriptions are erased without being stopped
EraseSubscriptions(subs) ==
    /\ mSubscriptions' = mSubscriptions \ subs
    /\ UNCHANGED <<externalVars, ownVars>>

\* The external and the own subscriptions of a set are stopped, if it has any.
StopExternal(subs) ==
    LET ls == {<<s.room, s.address>> : s \in {t \in subs : t.address \in External}}
    IN \/ ls # {} /\ RE!Release(ls)
       \/ ls = {} /\ UNCHANGED externalVars

StopOwn(subs) ==
    LET objects == {s.object : s \in subs} \ {Null}
    IN \/ objects # {} /\ Own!Stop(objects)
       \/ objects = {} /\ UNCHANGED ownVars

\* Each subscription of a set is stopped and leaves the store.
RemoveSubscriptions(subs) ==
    /\ StopExternal(subs)
    /\ StopOwn(subs)
    /\ mSubscriptions' = mSubscriptions \ subs

-----------------------------------------------------------------------------
(* The requests about participants, passed on by the conference server *)

SubscribeExternal(r, a) ==
    /\ a \in External
    /\ RE!Start(<<r, a>>, a)
    /\ AddSubscription(r, a, Null)
    /\ UNCHANGED ownVars

\* An own subscription with an invalid AOR is stored and never starts.
SubscribeOwn(r, a) ==
    /\ a \in LocalAddresses
    /\ \/ /\ a \in InvalidAors
          /\ AddSubscription(r, a, Null)
          /\ UNCHANGED ownVars
       \/ /\ a \notin InvalidAors
          /\ \E o \in Objects : Own!Start(o, <<r, a>>) /\ AddSubscription(r, a, o)
    /\ UNCHANGED externalVars

\* mutant: the store is not consulted
SubscriptionRepeated(r, a) ==
    /\ r \in mChatRooms
    /\ SubscribeExternal(r, a) \/ SubscribeOwn(r, a)
    /\ UNCHANGED <<mRunning, mChatRooms>>

SubscriptionRequested(r, a) ==
    /\ r \in mChatRooms
    /\ Matching(r, a) = {}
    /\ SubscribeExternal(r, a) \/ SubscribeOwn(r, a)
    /\ UNCHANGED <<mRunning, mChatRooms>>

UnsubscriptionRequested(r, a) ==
    /\ r \in mChatRooms
    /\ Matching(r, a) # {}
    /\ RemoveSubscriptions(Matching(r, a))
    /\ UNCHANGED <<mRunning, mChatRooms>>

\* mutant: the subscriptions are left to the end of the process
StopWithoutUnsubscribing ==
    /\ mRunning
    /\ mRunning' = FALSE
    /\ mChatRooms' = {}
    /\ UNCHANGED <<mSubscriptions, externalVars, ownVars>>

\* ConferenceServer::_stop
ServerStop ==
    /\ mRunning
    /\ mRunning' = FALSE
    /\ mChatRooms' = {}
    /\ RemoveSubscriptions(mSubscriptions)

-----------------------------------------------------------------------------
(* What the core and the registrar report, whenever they do *)

CoreReports ==
    /\ \/ \E e \in Events, doc \in RE!Documents : RE!NotifyReceived(e, doc)
       \/ \E e \in Events : RE!SubscriptionEnded(e)
       \/ \E e \in Events : RE!SubscriptionClosed(e)
    /\ UNCHANGED <<serverVars, ownVars>>

RegistrarReports == Own!RegistrarNext /\ UNCHANGED <<serverVars, externalVars>>

Next ==
    \/ \E r \in Rooms : ChatRoomInstantiated(r) \/ ChatRoomDeleted(r)
    \/ \E r \in Rooms, a \in Addresses : SubscriptionRequested(r, a)
    \/ \E r \in Rooms, a \in Addresses : UnsubscriptionRequested(r, a)
    \/ ServerStop
    \/ CoreReports
    \/ RegistrarReports

Spec == Init /\ [][Next]_vars

-----------------------------------------------------------------------------
(* What a chat room was given for a participant, after the capability filter  *)
(* of ExternalRegistrationSubscription::onNotifyReceived.                     *)

Filter == INSTANCE Capabilities

ExternalViews(r, k) ==
    {Filter!Compatible(r, told[<<r, a>>]) :
        a \in {b \in External : KeyOf[b] = k /\ told[<<r, b>>] # RE!Unknown}}

OwnViews(r, k) ==
    {roomDevices[<<r, a>>].devices :
        a \in {b \in Aors : KeyOf[b] = k /\ roomDevices[<<r, b>>] # Own!NotTold}}

\* mutant: the refreshes are reported without the filter
RefreshedUnfiltered(r, a) == {d \in Devices : <<<<r, a>>, d>> \in refreshes}

\* ExternalRegistrationSubscription::onRefreshed
Refreshed(r, a) == Filter!Compatible(r, {d \in Devices : <<<<r, a>>, d>> \in refreshes})

Updates == INSTANCE RoomUpdates WITH
    Participants <- Keys,
    Lists <- SUBSET Devices,
    serving <- mRunning,
    joined <- {<<s.room, KeyOf[s.address]>> : s \in mSubscriptions},
    view <- [p \in Rooms \X Keys |-> ExternalViews(p[1], p[2]) \cup OwnViews(p[1], p[2])]

(* Chat rooms are updated as conference-server-tester.cc:355-363 specifies:   *)
(* only while the participant is present, one participant at a time, afresh   *)
(* after a rejoin, and not at all once the server has stopped.                *)
UpdatesImplemented == Updates!Spec

(* The server drives the clients and the own subscriptions as their modules say  *)
(* they are driven: it starts a listener that observes nothing, stops one that   *)
(* observes, and never has two own subscriptions for a chat room and participant *)
(* (participant-registration-subscription-handler.cc).                           *)
PartsAsSpecified == RE!Spec /\ Own!Spec

(* Every subscription that is at work is in the store, where an unsubscribe   *)
(* or the stop of the server finds it, and every stored one is at work.       *)
StoreKnowsWhatRuns ==
    /\ \A r \in Rooms, a \in External :
         RE!Observing(<<r, a>>) <=> [room |-> r, address |-> a, object |-> Null] \in mSubscriptions
    /\ \A o \in Objects : mActive[o] <=>
         \E s \in mSubscriptions : s.object = o /\ owner[o] = <<s.room, s.address>>

(* A chat room has one subscription for a participant, although the client of *)
(* an external one is found by its whole URI and the store by user@domain.    *)
OneSubscriptionPerPresence ==
    \A s, t \in mSubscriptions :
        s.room = t.room /\ KeyOf[s.address] = KeyOf[t.address] => s = t

(* What a chat room was given last is what its capabilities let through of what  *)
(* is known: of the registrar's record once a subscription of a local domain     *)
(* waits for no answer and got no error last, and of the list all the chat rooms *)
(* share once a NOTIFY came, whichever of its URIs the participant is followed   *)
(* by (registration-subscription.cc:131-147,189-198, client.cc:44-48,118-122).   *)
ViewsAreCurrent ==
    \A s \in mSubscriptions :
        LET views == ExternalViews(s.room, KeyOf[s.address]) \cup OwnViews(s.room, KeyOf[s.address])
        IN /\ s.object # Null /\ pending[s.object] = <<>> /\ ~missed[s.object] =>
                views = {Filter!Compatible(s.room, bindings[s.address].devices)}
           /\ OnlyKnownRefreshed =>
                \A c \in live : <<s.room, s.address>> \in mObservers[c] /\ mSubscribeEvent[c] \in heard =>
                    views = {Filter!Compatible(s.room, mParticipantDevices[c])}

(* The refresh of a device is reported only to a chat room that follows the   *)
(* participant and whose list has the device: the list it had, if the client   *)
(* they share with other chat rooms knew the device, or else the one the same  *)
(* NOTIFY ends with.  A client reports each refresh to all its observers: none *)
(* hears of a device that its capabilities keep out of its list                *)
(* (registration-subscription.cc:189-203, client.cc:107-122).                  *)
RefreshesAreOfGivenDevices ==
    [][\A r \in Rooms, a \in External : \A d \in Refreshed(r, a)' :
          /\ \E s \in mSubscriptions' : s.room = r /\ s.address = a
          /\ OnlyKnownRefreshed =>
                /\ \E list \in ExternalViews(r, KeyOf[a])' : d \in list
                /\ \A c \in live : <<r, a>> \in mObservers[c] /\ d \in mParticipantDevices[c] =>
                      \E list \in ExternalViews(r, KeyOf[a]) : d \in list]_vars

(* A stopped server leaves no client, no listener and no open subscription    *)
(* behind, whatever was under way (conference-server.cc:306-316).             *)
StoppedIsQuiet ==
    ~mRunning =>
        /\ live = {} /\ ~mListening
        /\ \A e \in Events : evState[e] # "open"
        /\ listeners = {}
        /\ \A o \in Objects : ~mActive[o]

=============================================================================
