---------------------------- MODULE RegEventClients ----------------------------
(***************************************************************************)
(* The clients by which the conference server follows the registrations of  *)
(* the participants of other domains (src/src/registration-events).  A      *)
(* client subscribes to the "reg" event package of one address and passes    *)
(* what the NOTIFY requests say to its observers; the observers are the      *)
(* external registration subscriptions of the chat rooms, and a client lives *)
(* as long as one of them holds it.                                          *)
(*                                                                           *)
(* Clients and Events are slots: a destroyed client and an ended event free  *)
(* theirs for a later one.  The events belong to the Linphone core, which    *)
(* reports to the client factory, and the factory finds the client through   *)
(* the data attached to the event (a plain reference: nothing keeps the      *)
(* client alive for it).  All the code runs in one thread, so a handler is   *)
(* one action; what interleaves is the order in which the core reports.      *)
(***************************************************************************)
EXTENDS Naturals, FiniteSets

CONSTANTS
    Clients,     \* slots for registration_event::Client objects
    Events,      \* slots for the core's subscription events (SIP dialogs)
    Addresses,   \* the URIs the clients are keyed by
    Listeners,   \* the external registration subscriptions that may observe
    Devices,     \* the participant devices with a "+org.linphone.specs" parameter
    Null,        \* a null pointer, an expired weak pointer, an unset datum
    OnlyKnownRefreshed  \* TRUE: a NOTIFY that marks every contact refreshed
                        \* lists the devices the client already has

ASSUME ClientsFinite == IsFiniteSet(Clients)
ASSUME NullIsNothing == Null \notin Clients \cup Events \cup Addresses \cup Devices

\* What a listener that was told nothing yet has been told.
Unknown == {Null}

VARIABLES
    live,                 \* the client slots that hold an object
    mTo,                  \* Client: the address it subscribes to
    mSubscribeEvent,      \* Client: its current event
    mParticipantDevices,  \* Client: the devices of the last NOTIFY
    mObservers,           \* Client (Observable): its observers
    mClients,             \* clients store: address -> client, weakly held
    mUseCount,            \* ClientFactory: the number of registered clients
    mListening,           \* whether the core reports to the factory
    evState,              \* core: "free", "open", or "closing" once terminated here
    evData,               \* core: the client attached to the event
    told,                 \* the last device list given to a listener
    refreshes,            \* the (listener, device) refreshes the last step reported,
                          \* before any list it gave
    heard                 \* history: the events with a NOTIFY for their address

clientVars == <<live, mTo, mSubscribeEvent, mParticipantDevices, mObservers>>
storeVars  == <<mClients, mUseCount, mListening>>
eventVars  == <<evState, evData, heard>>
vars == <<clientVars, storeVars, eventVars, told, refreshes>>

(* What the <registration> element of a NOTIFY body for the address says; a   *)
(* body without one changes nothing.  The contacts without specs are dropped  *)
(* by the parser loop and are left out of contacts.                           *)
Documents == [state : {"active", "terminated"},
              contacts : SUBSET Devices, refreshed : SUBSET Devices]

TypeOK ==
    /\ live \subseteq Clients
    /\ mTo \in [Clients -> Addresses \cup {Null}]
    /\ mSubscribeEvent \in [Clients -> Events \cup {Null}]
    /\ mParticipantDevices \in [Clients -> SUBSET Devices]
    /\ mObservers \in [Clients -> SUBSET Listeners]
    /\ mClients \in [Addresses -> Clients \cup {Null}]
    /\ mUseCount \in Nat
    /\ mListening \in BOOLEAN
    /\ evState \in [Events -> {"free", "open", "closing"}]
    /\ evData \in [Events -> Clients \cup {Null}]
    /\ told \in [Listeners -> (SUBSET Devices) \cup {Unknown}]
    /\ refreshes \subseteq Listeners \X Devices
    /\ heard \subseteq Events

Init ==
    /\ live = {}
    /\ mTo = [c \in Clients |-> Null]
    /\ mSubscribeEvent = [c \in Clients |-> Null]
    /\ mParticipantDevices = [c \in Clients |-> {}]
    /\ mObservers = [c \in Clients |-> {}]
    /\ mClients = [a \in Addresses |-> Null]
    /\ mUseCount = 0
    /\ mListening = FALSE
    /\ evState = [e \in Events |-> "free"]
    /\ evData = [e \in Events |-> Null]
    /\ told = [l \in Listeners |-> Unknown]
    /\ refreshes = {}
    /\ heard = {}

-----------------------------------------------------------------------------
(* ExternalRegistrationSubscription::start, with the acquisition that comes  *)
(* before it.                                                                *)

Observing(l) == \E c \in live : l \in mObservers[c]

\* mutant: only the first client is counted
RegisterFirstOnly ==
    /\ mUseCount' = IF mUseCount = 0 THEN 1 ELSE mUseCount
    /\ mListening' = TRUE

\* ClientFactory::registerClient
RegisterClient ==
    /\ mUseCount' = mUseCount + 1
    /\ mListening' = (mListening \/ mUseCount = 0)

\* mutant: the store is not consulted
AcquireNewClient(a, c) ==
    /\ c \notin live
    /\ live' = live \cup {c}
    /\ mTo' = [mTo EXCEPT ![c] = a]
    /\ mClients' = [mClients EXCEPT ![a] = c]
    /\ RegisterClient

\* A live client of the address is shared; otherwise one is constructed and
\* replaces the expired entry of the store.
AcquireClient(a, c) ==
    \/ /\ c = mClients[a]
       /\ UNCHANGED <<live, mTo, storeVars>>
    \/ /\ mClients[a] = Null
       /\ c \notin live
       /\ live' = live \cup {c}
       /\ mTo' = [mTo EXCEPT ![c] = a]
       /\ mClients' = [mClients EXCEPT ![a] = c]
       /\ RegisterClient

\* mutant: only a client without observers opens an event
SubscribeFirstOnly(c, l) ==
    \/ /\ mSubscribeEvent[c] # Null \/ mObservers[c] # {}
       /\ told' = [told EXCEPT ![l] = mParticipantDevices[c]]
       /\ UNCHANGED <<mSubscribeEvent, evState, evData>>
    \/ /\ mSubscribeEvent[c] = Null /\ mObservers[c] = {}
       /\ \E e \in Events :
            /\ evState[e] = "free"
            /\ mSubscribeEvent' = [mSubscribeEvent EXCEPT ![c] = e]
            /\ evState' = [evState EXCEPT ![e] = "open"]
            /\ evData' = [evData EXCEPT ![e] = c]
       /\ UNCHANGED told

\* Client::subscribe: the first listener opens the event, the others are given
\* the devices the client has at that moment.
Subscribe(c, l) ==
    \/ /\ mSubscribeEvent[c] # Null
       /\ told' = [told EXCEPT ![l] = mParticipantDevices[c]]
       /\ UNCHANGED <<mSubscribeEvent, evState, evData>>
    \/ /\ mSubscribeEvent[c] = Null
       /\ \E e \in Events :
            /\ evState[e] = "free"
            /\ mSubscribeEvent' = [mSubscribeEvent EXCEPT ![c] = e]
            /\ evState' = [evState EXCEPT ![e] = "open"]
            /\ evData' = [evData EXCEPT ![e] = c]
       /\ UNCHANGED told

Start(l, a) ==
    /\ ~Observing(l)
    /\ \E c \in Clients :
         /\ AcquireClient(a, c)
         /\ mObservers' = [mObservers EXCEPT ![c] = @ \cup {l}]
         /\ Subscribe(c, l)
    /\ refreshes' = {}
    /\ UNCHANGED <<mParticipantDevices, heard>>

-----------------------------------------------------------------------------
(* ExternalRegistrationSubscription::stop, then the release of the client by *)
(* the subscription the store erases.                                        *)

\* The clients that only the listeners of ls hold.
HeldOnlyBy(ls) == {c \in live : mObservers[c] \subseteq ls}

\* mutant: the factory leaves the core's listeners with any client
UnregisterAndLeave(dead) ==
    /\ mUseCount' = mUseCount - Cardinality(dead)
    /\ mListening' = (mListening /\ dead = {})

\* ClientFactory::unregisterClient, once for each destroyed client
UnregisterClients(dead) ==
    /\ mUseCount' = mUseCount - Cardinality(dead)
    /\ mListening' = (mListening /\ mUseCount' # 0)

\* mutant: the event keeps its data
UnsubscribeKeepingData(dead) ==
    LET closed == {e \in Events : \E c \in dead : mSubscribeEvent[c] = e}
    IN /\ evState' = [e \in Events |-> IF e \in closed THEN "closing" ELSE evState[e]]
       /\ heard' = heard \ closed
       /\ UNCHANGED evData

\* mutant: the event is not terminated
UnsubscribeWithoutTerminate(dead) ==
    LET closed == {e \in Events : \E c \in dead : mSubscribeEvent[c] = e}
    IN /\ evData' = [e \in Events |-> IF e \in closed THEN Null ELSE evData[e]]
       /\ heard' = heard \ closed
       /\ UNCHANGED evState

\* Client::unsubscribe: the event loses its data before it is terminated
Unsubscribe(dead) ==
    LET closed == {e \in Events : \E c \in dead : mSubscribeEvent[c] = e}
    IN /\ evData' = [e \in Events |-> IF e \in closed THEN Null ELSE evData[e]]
       /\ evState' = [e \in Events |-> IF e \in closed THEN "closing" ELSE evState[e]]
       /\ heard' = heard \ closed

\* Client::~Client, and the weak pointers of the store that expire with it
Destroy(dead) ==
    /\ live' = live \ dead
    /\ mTo' = [c \in Clients |-> IF c \in dead THEN Null ELSE mTo[c]]
    /\ mSubscribeEvent' =
         [c \in Clients |-> IF c \in dead THEN Null ELSE mSubscribeEvent[c]]
    /\ mParticipantDevices' =
         [c \in Clients |-> IF c \in dead THEN {} ELSE mParticipantDevices[c]]
    /\ mClients' = [a \in Addresses |-> IF mClients[a] \in dead THEN Null ELSE mClients[a]]
    /\ UnregisterClients(dead)
    /\ Unsubscribe(dead)

\* The listeners of ls stop observing; the clients nobody holds are destroyed.
Release(ls) ==
    /\ mObservers' = [c \in Clients |-> mObservers[c] \ ls]
    /\ Destroy(HeldOnlyBy(ls))
    /\ told' = [l \in Listeners |-> IF l \in ls THEN Unknown ELSE told[l]]
    /\ refreshes' = {}

Stop(l) == Observing(l) /\ Release({l})

\* The handler's unsubscribeAll, when the server stops
StopAll == live # {} /\ Release(Listeners)

-----------------------------------------------------------------------------
(* What the core reports to the factory, which passes it to the client found *)
(* in the event's data.  Without a listener or without data nothing happens. *)

DispatchedTo(e, c) == mListening /\ evData[e] = c

\* mutant: one refreshed contact is enough not to give the list
ReportedIfNoneRefreshed(doc) == doc.refreshed = {}

\* Whether the listeners are given the list of a document of an active address
Reported(doc) == doc.refreshed # doc.contacts

Tell(c, devices) ==
    told' = [l \in Listeners |-> IF l \in mObservers[c] THEN devices ELSE told[l]]

\* mutant: the devices are kept when the registration is terminated
OnNotifyKeepingDevices(c, doc) ==
    \/ /\ doc.state = "terminated"
       /\ Tell(c, {})
       /\ refreshes' = {}
       /\ UNCHANGED mParticipantDevices
    \/ /\ doc.state = "active"
       /\ refreshes' = mObservers[c] \X doc.refreshed
       /\ IF Reported(doc) THEN Tell(c, doc.contacts) ELSE UNCHANGED told
       /\ mParticipantDevices' = [mParticipantDevices EXCEPT ![c] = doc.contacts]

\* Client::onNotifyReceived: the refreshed contacts are reported one by one while
\* the document is read (line 109), and the whole list after them (line 119).  The
\* handler is one step: its refreshes meet the lists the observers had before it.
OnNotifyReceived(c, doc) ==
    \/ /\ doc.state = "terminated"
       /\ Tell(c, {})
       /\ refreshes' = {}
       /\ mParticipantDevices' = [mParticipantDevices EXCEPT ![c] = {}]
    \/ /\ doc.state = "active"
       /\ refreshes' = mObservers[c] \X doc.refreshed
       /\ IF Reported(doc) THEN Tell(c, doc.contacts) ELSE UNCHANGED told
       /\ mParticipantDevices' = [mParticipantDevices EXCEPT ![c] = doc.contacts]

\* The documents the subscribed server may send on an event: the refreshed
\* contacts are among the contacts.
Sendable(e, doc) ==
    /\ doc.refreshed \subseteq doc.contacts
    /\ doc.state # "active" => doc.contacts = {}
    /\ OnlyKnownRefreshed /\ doc.state = "active" =>
         \/ doc.refreshed # doc.contacts
         \/ e \in heard /\ doc.contacts = mParticipantDevices[evData[e]]

NotifyReceived(e, doc) ==
    /\ evState[e] # "free"
    /\ \E c \in Clients :
         /\ DispatchedTo(e, c)
         /\ Sendable(e, doc)
         /\ OnNotifyReceived(c, doc)
    /\ heard' = heard \cup {e}
    /\ UNCHANGED <<live, mTo, mSubscribeEvent, mObservers, storeVars, evState, evData>>

\* Client::onSubscriptionStateChanged to Terminated or Error.  The client acts on
\* its current event, whichever event was reported.
OnSubscriptionEnded(c) ==
    /\ evData' = [evData EXCEPT ![mSubscribeEvent[c]] = Null]
    /\ mSubscribeEvent' = [mSubscribeEvent EXCEPT ![c] = Null]
    /\ mParticipantDevices' = [mParticipantDevices EXCEPT ![c] = {}]

\* The remote end, a failure or the expiry of the refresh ends an event.
SubscriptionEnded(e) ==
    /\ evState[e] # "free"
    /\ \E c \in Clients : DispatchedTo(e, c) /\ OnSubscriptionEnded(c)
    /\ evState' = [evState EXCEPT ![e] = "free"]
    /\ heard' = heard \ {e}
    /\ refreshes' = {}
    /\ UNCHANGED <<live, mTo, mObservers, storeVars, told>>

\* The end of an event whose client is gone is reported to nobody.
SubscriptionClosed(e) ==
    /\ evState[e] # "free"
    /\ \A c \in Clients : ~DispatchedTo(e, c)
    /\ evState' = [evState EXCEPT ![e] = "free"]
    /\ heard' = heard \ {e}
    /\ refreshes' = {}
    /\ UNCHANGED <<clientVars, storeVars, evData, told>>

Next ==
    \/ \E l \in Listeners, a \in Addresses : Start(l, a)
    \/ \E l \in Listeners : Stop(l)
    \/ StopAll
    \/ \E e \in Events, doc \in Documents : NotifyReceived(e, doc)
    \/ \E e \in Events : SubscriptionEnded(e)
    \/ \E e \in Events : SubscriptionClosed(e)

Spec == Init /\ [][Next]_vars

-----------------------------------------------------------------------------
(* The data of an event is a reference the core keeps after the client is     *)
(* gone: whenever an event has data, the client is alive and the event is     *)
(* the one the client holds, so no report reaches a destroyed client nor a    *)
(* client that has moved on to another event (client.cc:57-73,139-141).       *)
EventDataIsCurrent ==
    \A e \in Events : evData[e] # Null =>
        /\ evData[e] \in live
        /\ mSubscribeEvent[evData[e]] = e
        /\ evState[e] = "open"

(* A subscription the server has not terminated belongs to a living client:   *)
(* none is left open, refreshed for ever by the core, when the last chat room *)
(* is gone (conference-server-tester.cc:361-362).                             *)
OpenSubscriptionsAreOwned ==
    \A e \in Events : evState[e] = "open" =>
        \E c \in live : mSubscribeEvent[c] = e /\ evData[e] = c

(* At most one client, hence one external subscription, for an address        *)
(* however the chat rooms come and go, and it is the one the store finds      *)
(* (conference-server-tester.cc:356-357).                                     *)
OneClientPerAddress ==
    \A c \in live : mTo[c] \in Addresses /\ mClients[mTo[c]] = c

(* The factory counts the living clients, and listens to the core exactly     *)
(* while there is one: a count that drifts would leave clients deaf, or keep  *)
(* the factory in the core's listeners (client-factory.cc:61-73).             *)
FactoryListensForClients ==
    /\ mUseCount = Cardinality(live)
    /\ mListening <=> live # {}

(* A client whose subscription failed or ended does not retry: its observers   *)
(* wait.  But whoever joins it later revives it: a client that gains an        *)
(* observer has an open event that leads back to it, so the next NOTIFY        *)
(* reaches the old observers too (client.cc:42-55,137-145).                    *)
NewcomersReviveTheClient ==
    [][\A c \in Clients : ~(mObservers'[c] \subseteq mObservers[c]) =>
          \E e \in Events : /\ mSubscribeEvent'[c] = e
                            /\ evState'[e] = "open"
                            /\ evData'[e] = c]_vars

(* Once a NOTIFY for the address came on a client's subscription, every       *)
(* observer was told of exactly the devices the client knows, whether it      *)
(* joined before or after (client.cc:44-48,118-122).                          *)
ObserversKnowTheDevices ==
    \A c \in live : mSubscribeEvent[c] \in heard =>
        \A l \in mObservers[c] : told[l] = mParticipantDevices[c]

(* A listener that hears of the refresh of a device has been given a list with *)
(* this device, however late it joined, when the client already had the device: *)
(* what the client knows is never news to one of its observers.  A device that  *)
(* is new to the client is reported before the list it comes with, and that     *)
(* list follows in the same NOTIFY (client.cc:44-48,107-122).                   *)
RefreshesAreOfToldDevices ==
    [][\A l \in Listeners, d \in Devices : <<l, d>> \in refreshes' =>
          /\ told'[l] # Unknown /\ d \in told'[l]
          /\ \A c \in live : l \in mObservers[c] /\ d \in mParticipantDevices[c] =>
                told[l] # Unknown /\ d \in told[l]]_vars

=============================================================================
