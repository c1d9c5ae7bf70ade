# Flexisip conference server: a TLA+ development

This directory models the conference server of this repository: the logic of
`src/src` (2886 lines), not the libraries it stands on (the Linphone SDK, the
registrar database and the configuration of Flexisip, sofia-sip), which appear
as what the code may expect of them. Paths below are relative to `src/src`
unless they start with `tester/` or `scripts/`.

## 1. The system

| part | state | operations | talks to |
|---|---|---|---|
| `ConferenceServer` (`conference/conference-server.cc`) | `mUuid` and the uuid file, `mAddressesBound`, `mConfServerUris`, `mLocalDomains`, `mChatRooms`, the accounts of the core | `_init`, `_run`, `_stop`, `onRegistrarDbWritable`, chat room callbacks, `bindAddresses` | registrar (bind, clear, state), core (chat rooms, accounts), handler |
| `ParticipantRegistrationSubscriptionHandler` and its store (`conference/participant-registration-subscription-handler.cc`) | `mSubscriptions`, a multimap user@domain -> subscription | `subscribe`, `unsubscribe`, `unsubscribeAll` | the two kinds of subscription |
| `OwnRegistrationSubscription` (`conference/registration-subscription.cc`) | `mActive`, `mParticipantAor` | `start`, `stop`, `onRecordFound`, `onContactRegistered`, `onError` | registrar (fetch, subscribe), chat room |
| `ExternalRegistrationSubscription` (same file) | the client it holds | `start`, `stop`, `onNotifyReceived`, `onRefreshed` | client, chat room |
| client store (`conference/registration-subscription-factory.cc`) | `mClients`, URI -> weak pointer | `acquireClient` | clients |
| `registration_event::Client` and `ClientFactory` (`registration-events`) | `mSubscribeEvent`, `mParticipantDevices`, observers; `mUseCount` | `subscribe`, `unsubscribe`, destruction, `onNotifyReceived`, `onSubscriptionStateChanged` | core (SUBSCRIBE dialogs and their user data) |
| start of `ConferenceServer` (`_init`, `enableSelectedCodecs`, `loadFactoryUris`) | `mMediaConfig`, `mConfServerUris`, `mLocalDomains`, `mRegEventClientFactory`, the core | one check per setting, the loops of the codecs, URIs and accounts, the start of the core | core, handler |
| `main` (`main/flexisip-conference.cc`, `main.cc`) | `run`, `root`, the FD limit, the pid file | options, configuration file, signals, main loop, stop, exit status | supervisor, console |
| configuration items | none | a table | configuration |

A chat room asks, through the core, for the registrations of a participant. The
handler starts an own subscription (registrar) for a participant of the local
domains and an external one (SIP subscription to the "reg" event package)
otherwise, and both give the chat room the devices compatible with its
capabilities. At start the server binds its factory, focus and chat room
addresses in the registrar, under an instance named by a uuid that it keeps on
disk. All of it runs in the thread of the main loop: a handler is not
interrupted, but what the core, the registrar, the connection and the
supervisor report comes in any order, late, or not at all. This is where the
hard behaviour is:

- events and answers that arrive after the object they were meant for stopped,
  was destroyed or was replaced;
- observers that join before the first NOTIFY, between two, or after a failure;
- the windows between a fetch and a subscription, and between adding a listener
  and testing a state;
- weak and plain references (client store, user data of the events), a use count;
- a crash at any point of the start, with a file and the registrar surviving;
- an exception half-way through the bindings, or in a callback of the main loop;
- the order of the checks of the start against the moment the core starts, from
  which its chat rooms make requests;
- a signal between two steps of `main`.

What makes each part correct is stated by the properties of section 3.

## 2. Modules

Every action is one handler or one uninterrupted sequence of the code; a
definition keeps the name of the code it models when there is one.

| module | models | how it corresponds |
|---|---|---|
| `RegEventClients` | clients, client factory, client store | Clients, events and listeners are slots that are freed and used again. `Start` is the acquisition, `addObserver` and `subscribe`; `Release` is `removeObserver` and what the last release does: `~Client`, the weak pointers, the factory's count, the end of the event. `NotifyReceived`, `SubscriptionEnded` and `SubscriptionClosed` are the reports of the core, dispatched by `evData`, the user data of the event. A NOTIFY is the set of its usable contacts, those marked refreshed, and active or terminated. The whole of its handling is one step: the refreshes it reports (line 109) come before the list (119), which the properties about refreshes take into account. |
| `Capabilities` | the filter | A mask is the set of its capabilities. |
| `OwnSubscriptions` | own subscriptions and the registrar's answers | `pending` is the queue of answers each object waits for: a request is read (`RecordRead`) some time after it was made, and answered (`AnswerReceived`) or failed (`ErrorReceived`) later. The devices of a record are its contacts with a public GRUU. Records have versions, so that going back is visible. |
| `ParticipantSubscriptions` | handler, store, chat room callbacks, `_stop`, composing the two modules above | A listener of `RegEventClients` is a pair of a chat room and an address; an object of `OwnSubscriptions` is referred to by its entry of the store. The parts are the specifications of the two modules, refined as such (`PartsAsSpecified`). |
| `RoomUpdates` | nothing of the code: the specification written at `tester/tests/conference/conference-server-tester.cc:355-363` | The refinement maps `joined` to the store's pairs and `view` to what a chat room was last given, after the filter. |
| `ServerBindings` | `_init` from `readUuid` on, `bindAddresses`, `onRegistrarDbWritable`, `FocusListener` | `_init` is cut where an exit would leave something behind: `ReadUuid`, `StartCore`, `WriteUuid`, `CloseUuidFile`, `Listen`. The file may not open to be read (832), nor to be written (850), and may stay empty after the write (855-856); `lost` has the uuids this happened to. A write leaves the whole uuid or nothing. `requests` are the requests under way for an address, `bad` the addresses that cannot be bound. `BindAddresses` is the three loops in their order: the first bad address throws, after any of the others of its loop (`LoopOf`) and all those of the loops `Before`, and `FocusNotRecorded` is the exception of a callback. The process is then `"failing"`, and ends. |
| `StartupConfiguration` | `_init`, with `enableSelectedCodecs`, `loadFactoryUris`, `getChatRoomsHandlingSet` | One action is one check, or one turn of a loop; a setting is chosen by the action that reads it. `pc` ends as `"loaded"`, `"rejected"` (a `BadConfiguration`), `"failed"` (another exception) or `"crashed"`. After the start of the core, `CheckUuid` and `BindAddresses` only say how the uuid and the bindings may end it; what these do is in `ServerBindings`. `SubscriptionRequested` is what a chat room loaded by the core may do from `StartCore` on. |
| `ServerProcess` | `flexisip_conference::main`, `dump_config`, `increaseFDLimit`, `makePidFile`, `flexisip_stop`, `main` | One step is a stretch of `main` between two points where a signal or an exception makes a difference. |
| `MC*` | | Constants and symmetry for TLC. |
| `RegEventClientsProofs`, `OwnSubscriptionsProofs`, `ParticipantSubscriptionsProofs`, `ServerBindingsProofs`, `StartupConfigurationProofs`, `ServerProcessProofs` | | Theorems about the module they are named after, and their proofs. |
| `UpdatesProofs` | | Extends `ParticipantSubscriptionsProofs`: the refinement of `RoomUpdates`. |
| `PartsProofs` | | Extends `UpdatesProofs`: the composition refines the specifications of its two parts, and what a chat room sees of a participant. |

External parts. The core reports an event once per change and dispatches it by
the user data the client attached; the end of an event may be reported after
the client is gone. The registrar keeps a subscription object until it
has answered it, answers the requests of an object in order, and subscribes at
once. The connection to the registrar comes and goes; requests about one address
are executed in order, and any of them may fail. The core keeps a uuid it
was given and chooses a new one otherwise. What is known of them is only how the
code uses them.

The definitions commented `mutant:` are not part of any specification. They are
plausible bugs, one per property, and with any of them in place of the definition
that follows, TLC finds the property violated.

## 3. Runs

| run | question | bounds | distinct states |
|---|---|---|---|
| `reg_event_clients` | the structure of clients, events, store and count; a newcomer after a failure; what the observers know | 2 clients, 3 events, 2 addresses, 3 listeners, 2 devices, `OnlyKnownRefreshed` | 1 406 up to symmetry |
| `own_subscriptions` | what chat rooms are given by the registrar, and that they catch up | 2 objects, 2 rooms, 1 participant, 2 devices, 1 change | 43 632 |
| `external_participants` | the composition, its refinement of `RoomUpdates`, what the chat rooms see and hear of after the filter | 2 rooms of different capabilities, 3 URIs of 2 external participants, 1 invalid local participant, 2 devices of different capabilities, 2 clients, 2 events, `OnlyKnownRefreshed` | 179 971 up to symmetry |
| `local_participants` | both kinds together: the store, the stop, what the chat rooms see, the refinement of `RoomUpdates` and of the two parts | 2 rooms, 1 external participant with 1 client and 1 event, 1 local participant with 2 own subscriptions and 1 change, 1 device, `OnlyKnownRefreshed` | 447 442 up to symmetry |
| `server_bindings` | identity and bindings across crashes, file errors and exceptions; foci become reachable | 1 factory, 2 foci, 1 chat room of an earlier server, 2 uuids; one focus and the chat room may be bad | 445 752 |
| `startup_configuration` | the start, whatever the configuration | 3 codecs, 3 payload types, 2 URIs a list, 3 domains, an `int` of 3 bits | 2 175 344 |
| `server_process` | options, limits, signals, exits and restarts | 2 starts, limits up to 3 | 9 469 |

`OnlyKnownRefreshed` is the assumption that a NOTIFY whose contacts are all refreshed
repeats the list the client has: the peer's side of a refresh, which `client.cc:118-121` relies on.
What is false without it is the first disagreement below. The properties that do not
speak of the devices known (the structure of clients, events, store and count, the
pairs of the store, the refinement of `RoomUpdates`) are proved without it.

Why the bounds are enough. Two clients and three events let a client be
destroyed and its slot used again while the event of its predecessor is still
closing and another client has its own; three listeners let two share a client
while a third holds another. Two objects let a stopped subscription still wait
for answers while its replacement is active. Three URIs give two for one
user@domain, and a second participant; the two rooms share a client with a device
that one of them excludes, and two devices let a NOTIFY mix one that is refreshed with one
that is new; a local participant with an invalid address has subscriptions
that never start beside theirs. Over both kinds, one external and one local participant
are enough, as each kind has its own state and the store and the stop are all they share;
the two own subscriptions are those of two rooms, or one and its replacement while the
answers to the first are under way, and one client and one event let the participant be
left and joined again after the event has closed. One change of the record after the first is one that falls
before, between and after the fetch, the publication and their readings. A bad
focus leaves a loop before it and a good focus beside it, a bad chat room two
loops. Three payload types let a codec be offered at two rates beside another, and
three domains are one local by its factory, one by the setting too, one by neither.
Two starts are a process and its successor. Two uuids are the first one and the one
that a restart which does not know it, or cannot read it, chooses. The slots never block the code: they
only bound how many objects exist together.

Fairness. `own_subscriptions`: the registrar reads the record for every
request and every answer comes (weak fairness of `RecordRead` and
`AnswerReceived`; errors may take the place of answers, and the property then
says no more). `server_bindings`: a registrar that stays connected executes the requests for the foci;
neither the connection, nor the success of requests, nor the absence of crashes is assumed. `server_process`: the process is given time to
run; neither signals nor failures are assumed. The other runs assume nothing.

Deadlock is checked except where the system really stops: a stopped server with
nothing under way, a start that is done, was refused or failed, a process that has
used its starts.

### Disagreements found

Each is the only property of a run that TLC finds violated (`Violates*.cfg`).

| run | what happens |
|---|---|
| `refreshed_list_dropped` | `client.cc:118`: an active NOTIFY is given to the listeners only if `refreshed < participantDevices.size()`. A list without usable contacts, or with nothing but refreshed ones although it is new, replaces the client's list and is given to nobody. |
| `supported_codec_rejected` | `conference-server.cc:279-282`: "OPUS" is matched, enabled, and rejected as unsupported. |
| `empty_codec_list` | `conference-server.cc:624` says that `supported-audio-codecs` "cannot be empty", and nothing refuses an empty list: every audio codec is disabled and the server starts. With the `sfu` engine, line 162 reads the front of the empty list. |
| `no_rtp_timeout_disabled` | `conference-server.cc:131-135`: a `no-rtp-timeout` of less than a second passes the check ("duration must be strictly positive") and becomes 0 in the core, a parameter that "cannot be disabled" (714-715). |
| `stop_signal_lost` | `flexisip-conference.cc:690`: a signal between the test of `run` and the loop is lost, and those after it are ignored. It supposes, as the test itself does, that a quit requested before the loop runs has no effect on it; with a loop that remembers it (`EarlyQuitIsKept`), `server_process` shows that every signal ends the process. |

`reg_event_clients` shows that the first is the only way for observers and client
to disagree: under `OnlyKnownRefreshed`, which forbids just those documents,
`ObserversKnowTheDevices` holds, and is proved; `ViewsAreCurrent` carries it to the
chat rooms, through the filter of each (`external_participants`, `local_participants`).

Plain to see in the code, and so left to no run:

- a subscription that ended or failed is not made again while its observers stay
  (`client.cc:137-144`, "TODO: retry later"); `NewcomersReviveTheClient` says what a
  newcomer does for them;
- a listener that joins before the first NOTIFY is told that there is no device
  (`client.cc:44-48`);
- a NOTIFY reports the refreshes it has before the list (`client.cc:109,119`): a listener may
  hear of a device that is new to the client, marked refreshed beside one that is not,
  before the list that has it. `RefreshesAreOfToldDevices` and `RefreshesAreOfGivenDevices` say
  what remains: the list comes in the same NOTIFY, and a device the client knew was told before;
- a document's contacts are devices whatever their state (`client.cc:95-117`);
- clients are keyed by URI and subscriptions by user@domain, so a participant named
  by two URIs has two external subscriptions, where
  `tester/tests/conference/conference-server-tester.cc:356-357` speaks of one;
- more focus URIs than factory URIs pass, although the numbers "must match"
  (`conference-server.cc:328-339`), and no factory URI at all is only logged (325),
  although they "must be configured" (790);
- a factory URI that is not valid is a null pointer at line 227, before the message of
  line 432 (`AddAccount`);
- two refusals come after the core has started, with its database migrated and its chat
  rooms loaded: of a uuid the core did not keep (268) and of a factory URI that is not
  valid (432, if line 227 lets it come so far); `RejectedBeforeTheStart` says that there is no other;
- a uuid that cannot be read back or written is lost, and its instance stays bound
  (832, 850, 855); `BoundUuidIsPersisted` says that nothing else leaves one bound;
- `no-rtp-timeout` becomes any `int` beyond the largest one (`ToInt`); an `encryption` that is
  not known is ignored (174-178);
- a hard limit of descriptors is never used by a process that may not raise it
  further: both limits are set together or not at all (`flexisip-conference.cc:212`);
- `--transports` is parsed and not used (376), the first configuration of the logs
  takes `--disable-stdout` for `--syslog` (457), `--show-experimental` is accepted with
  the options that list (513-544), and the pid file stays when the process ends.

## 4. Proofs

Every safety property and action property of the passing runs is proved, for every value of
the constants that the named `ASSUME`s of the modules allow, and so is the
refinement of `RoomUpdates` and of the parts of the composition. Each proof module has an inductive invariant
(`IInv`), a lemma for each action or kind of step that it is kept, and the
theorems that follow.

`RegEventClientsProofs` (any finite set of clients, any events, addresses, listeners
and devices: `ClientsFinite`, `NullIsNothing`):
`Typing`, `EventsReachTheirClient`, `SubscriptionsHaveOwners`, `AddressesAreShared`,
`FactoryCounts`, `NewcomersRevive`, and, assuming `OnlyKnownRefreshed`, `ViewsAgree` and
`RefreshesFollowViews`.
None of the properties is inductive. `EventDataIsCurrent` needs to know that the
event of a client leads back to it (`EventsLeadToTheirClient`: otherwise ending an
event would leave another client's data in place), and that a free slot is
clean (`FreeSlotsAreClean`: otherwise a new client in it would start with an old
event). `OneClientPerAddress` needs the converse, `StoreFindsLiveClients`: an entry
never shadows a client that lives. The destruction of a set of clients at once
(`ReleaseStep`) rests on the cardinality of a difference. For `ViewsAgree`, `ViewInv`
adds that a listener observes one client and that a free event was not notified, and, for
`RefreshesFollowViews`, that a client that knows a device has been notified (`KnownDevicesCame`):
its observers were then told of the device, at once or when they joined.
`StartRevives` shows the action property of the only action that adds an observer.

`OwnSubscriptionsProofs` (any objects, rooms, participants, devices and number of
changes; the proofs cite no assumption): `Typing`, `NoChangeIsMissed`,
`PingsFollowTheList`, `ListsGetNewer`. The invariant is about the answers an active
object waits for: those already read are in the order of their records and
between what the chat room has and what the registrar has (`InOrder`), and the last
of them, or the chat room if there is none, is current unless an error came
(`UpToDate`). It holds because started objects are exactly those subscribed
(`ObjectsInv`), so that each change adds an answer still to be read. The
steps it is shown for (`Step`) let several objects stop at once, as the composition does.

`ParticipantSubscriptionsProofs` (`AddressesAssumption`, `ConstantsAssumption`):
`Typing`, `NothingIsForgotten`, `OnePerPresence`, `StopLeavesNothing`. The two proof
modules above are instantiated as the specifications are (`REP`, `OwnP`); the `Same*`
lemmas say that both instances speak of the same definitions, and `ExternalKeeps` and
`OwnKeeps` that every step of the composition keeps the invariants of the parts.
The store adds that a stored subscription's object works for its pair (`ObjectsInv`)
and that every client is held (`LiveAreHeld`). A stop then leaves nothing
because the store is empty, the store knows all that is at work, and a client
nobody holds is destroyed.

`UpdatesProofs` (same assumptions): `UpdatesAreImplemented`, which is `Spec => Updates!Spec`. `ViewInv` adds that only
a subscription at work has given anything, that a client's observers are after
its address, and that refreshed devices are among those the client knows. The key
is `GivenToPairs`: the views a pair of a chat room and a participant has under any URI
are what the one stored subscription of the pair gave. `UpdatesSteps` restates the steps
of `RoomUpdates` over the store; `JoinStep`, `LeaveStep`, `CloseStep` and `UpdateStep` map
a request, an unsubscribe, the stop and a report to them, and all else stutters.

`PartsProofs` (same assumptions): `PartsAreImplemented`, which is `Spec => RE!Spec /\ Own!Spec`.
A step of the server takes the clients and the own subscriptions through one of
their own steps, or leaves them as they are (`ExternalSimulation`, `OwnSimulation`). The
point is in the guards, which the parts state of their users and the server must keep: a
listener that starts observes nothing and one that stops observes, a pair has one
own subscription at a time, and the stop ends all of them at once although the store
only names those it has (`OneIsRemoved`, `AllAreRemoved`, `ReleaseOfAll`). They follow from the
invariants of the store. What was proved of the parts alone then holds in the server:
`NewcomersReviveInTheServer` and `ListsGetNewerInTheServer` take over the action properties,
which the invariants could not give. `ChatRoomsSeeWhatIsKnown` (`ViewsAreCurrent`) is the whole way
from the registrar's record, or a NOTIFY, to a chat room: `SeenInv` adds the promise of the
clients (`REP!ViewInv`) and that every participant has a record, and the rest is in the
invariants of the parts and in `GivenToPairs`. `RefreshesFollowTheList` says of each step that
reports a refresh what the chat room has after it and had before it: a device the shared client
knows is in what the chat room was given (`KnownIsGiven`), however it came to observe this
client.

`ServerBindingsProofs` (`GruusAssumption`, `NoneIsNoKey`,
`LegacyIsNoUuid`, `DisjointTargets`): `Typing`, `RestartsKeepTheInstance`,
`WritableServersAreBound`, `NoAddressIsLeftOut`, `ExecutedRequestsBind`,
`ContactsAreRouted`, `BoundOnce`, `TheFileIsKept`. `UuidInv` says where the uuid is at each step of the
start, `Pending` which requests can be under way for an address, and `Done` what those
executed have left: a factory's clear must come before its bind for the
legacy instance to be gone. `DisjointTargets` (no focus URI is another pair's
factory URI) is what makes the requests of one address those of one loop. That an executed
focus request also left the contact address (`SettledAddressesAreBound`) is the safety core
of `FociGetTheirGruu`: only that the requests are executed is left to fairness.
`TheFileIsKept` is the reason behind `BoundUuidIsPersisted`: the file is only written by a
start that has no uuid, so that a uuid in it is only replaced when it could not be
read, or when an earlier start could not write this very uuid (`Read`).

`StartupConfigurationProofs` (`BoundsAreNat`, `DomainsAssumption`, `TimeoutsAssumption`):
`Typing`, `StartsAsConfigured`, `RejectedInTime`, `ServerIsReady`, and, for codecs configured in
lower case (`~AnyCase`), `RejectionsAreForUnsupportedCodecs`; without this assumption the
run `supported_codec_rejected` refutes it. The invariant says what each check leaves for
those after it, and what the turns of each loop have done so far.

`ServerProcessProofs` (`BoundsAreNat`): `Typing`, `PlainStartsOnly`, `SuccessIsAStop`. Where `main` is says which options it went through (`EffectsInv`) and
whether somebody asked it to stop (`StopInv`). With `AskedInv` (the flag is reset at the first
signal), `SignalsAreLostOnlyBeforeTheLoop` says that the window that `stop_signal_lost` exhibits is
the only one, whatever the loop remembers. `MainHasNoLoopOfItsOwn` says that each step of `main` is to a later place, so that a
process which goes on reaches the loop, or its end.

Only model-checked: the liveness properties `RoomsCatchUp`, `FociGetTheirGruu` and
`AskedProcessEnds` (fairness and ENABLED are out of the prover's reach). Of each, what is
true without fairness is proved: `NoChangeIsMissed`, `ExecutedRequestsBind` and
`SignalsAreLostOnlyBeforeTheLoop` with `MainHasNoLoopOfItsOwn`. No module
has a RECURSIVE operator.

## 5. Not modelled, and why

- The configuration items, a table, and the settings `_init` copies into the core
  unchecked (ports, NAT, periods, user agent): no state of the server depends on them.
- What the dumps and listings print, the logs, SNMP, the watchdog timer and the
  initialisations of the libraries: `ServerProcess` has the steps at which they happen,
  where these can fail or return.
- What a failing `ensureDirectoryCreated` leaves on disk: it is a step that may end the
  start.
- `_run` (`mCore->iterate()`): it is what lets the core report.
- Re-entrance: whether `setParticipantDevices` calls the server back before it
  returns is not visible in this repository; handlers are atomic.
- The exceptions inside a handler of the client factory, which are logged.
- The growth of the map of clients, a documented choice
  (`registration-subscription-factory.hh:61-65`).

## 6. Plan

Order of the work, the most important behaviour first. Done: `RegEventClients` and
its proofs; `Capabilities` and `OwnSubscriptions`; `RoomUpdates` and
`ParticipantSubscriptions`, which composes them; `ServerBindings` with the exceptions of
its loops and callbacks; `StartupConfiguration` over the whole of the start;
`ServerProcess` over the whole of `main`; then the proofs of the safety properties of
all of them, and of the refinement of `RoomUpdates`; then the refinement of the parts by
the composition, what a chat room sees from one end to the other, and the safety core of
the liveness properties.

Next, extending the model:
1. a registrar that subscribes some time after it was asked, to see what the order
   of `OwnRegistrationSubscription::start` guarantees;
2. liveness of the composition: a chat room whose participant stays catches up.
