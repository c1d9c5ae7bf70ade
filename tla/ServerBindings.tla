----------------------------- MODULE ServerBindings -----------------------------
(***************************************************************************)
(* The identity of a conference server and what it binds in the registrar    *)
(* (ConferenceServer::_init and bindAddresses): the uuid kept in the state    *)
(* directory, the factory and focus URIs, and the chat rooms of the database. *)
(*                                                                            *)
(* The process may exit at any point, by a crash or by an exception of the    *)
(* start (core, state directory) or of an address that cannot be bound, and   *)
(* is started again; the uuid file and the registrar survive it.  The registrar  *)
(* is reached over a connection that comes and goes, and executes the         *)
(* requests about one address in the order they were made.                    *)
(***************************************************************************)
EXTENDS Naturals, Sequences

CONSTANTS
    Factories,       \* conference factory URIs
    Foci,            \* conference focus URIs, those that are factory URIs excepted
    ChatRooms,       \* the chat rooms of the database that are not focus URIs
    GruuOf,          \* chat room -> the "gr" of its address, or None
    Grs, Uuids,      \* the possible values of "gr" and of the uuid
    None,            \* no uuid, no gr
    Legacy,          \* the key of a binding of a 2.2 server
    TextEnabled,     \* the text media type is supported
    MayBeBad         \* the targets whose URI may be one that cannot be bound

Targets == Factories \cup Foci \cup ChatRooms
InstanceKeys == Uuids \cup Grs \cup {Legacy}

ASSUME GruusAssumption == GruuOf \in [ChatRooms -> Grs \cup {None}]
ASSUME MayBeBadAssumption == MayBeBad \subseteq Targets
ASSUME NoneIsNoKey == None \notin InstanceKeys
ASSUME LegacyIsNoUuid == Legacy \notin Uuids
\* No focus URI is the factory URI of another pair.
ASSUME DisjointTargets ==
    /\ Factories \cap Foci = {}
    /\ ChatRooms \cap (Factories \cup Foci) = {}

VARIABLES
    pc,               \* how far the process is: down, starting, started, writing,
                      \* ready, running; failing when it unwinds for an exception
    bad,              \* the targets whose URI cannot be bound
    uuidFile,         \* the contents of the uuid file, None when empty or missing
    used,             \* the uuids chosen by the core so far: they are unique
    mUuid,            \* ConferenceServer
    coreUuid,         \* "misc/uuid" of the core's configuration
    mAddressesBound,  \* ConferenceServer
    contactAddress,   \* account of a focus: the instance its contact address
                      \* names, None while it is the identity address
    writable,         \* RegistrarDb: connected to a database that can be written
    bindings,         \* RegistrarDb: the instances bound to an address
    requests,         \* RegistrarDb: the requests under way for an address
    requested,        \* history: the addresses this process made requests for
    failed,           \* history: the addresses a request of this process failed for
    lost              \* history: the uuids that could not be written or read back

processVars == <<mUuid, coreUuid, mAddressesBound, contactAddress>>
requestVars == <<requests, requested>>
vars == <<pc, bad, uuidFile, used, processVars, writable, bindings, requestVars, failed, lost>>

Clear == [op |-> "clear", key |-> None]
Bind(key) == [op |-> "bind", key |-> key]

TypeOK ==
    /\ pc \in {"down", "starting", "started", "writing", "ready", "running", "failing"}
    /\ bad \subseteq MayBeBad
    /\ uuidFile \in Uuids \cup {None}
    /\ used \subseteq Uuids
    /\ mUuid \in Uuids \cup {None}
    /\ coreUuid \in Uuids \cup {None}
    /\ mAddressesBound \in BOOLEAN
    /\ contactAddress \in [Foci -> Uuids \cup {None}]
    /\ writable \in BOOLEAN
    /\ bindings \in [Targets -> SUBSET InstanceKeys]
    /\ requests \in [Targets -> Seq([op : {"clear", "bind"}, key : InstanceKeys \cup {None}])]
    /\ requested \subseteq Targets
    /\ failed \subseteq Targets
    /\ lost \subseteq Uuids

\* A 2.2 server may have left a binding of the factories.
Init ==
    /\ pc = "down"
    /\ bad \in SUBSET MayBeBad
    /\ uuidFile = None
    /\ used = {}
    /\ mUuid = None
    /\ coreUuid = None
    /\ mAddressesBound = FALSE
    /\ contactAddress = [f \in Foci |-> None]
    /\ writable \in BOOLEAN
    /\ bindings = [t \in Targets |-> IF t \in Factories THEN {Legacy} ELSE {}]
    /\ requests = [t \in Targets |-> <<>>]
    /\ requested = {}
    /\ failed = {}
    /\ lost = {}

-----------------------------------------------------------------------------
(* ConferenceServer::bindAddresses *)

\* bindChatRoom: a chat room whose address has a "gr" keeps that instance.
ChatRoomKey(r) == IF GruuOf[r] = None THEN mUuid ELSE GruuOf[r]

\* mutant: the factories are cleared after they are bound
ClearAfterBind ==
    [t \in Targets |->
        IF t \in Factories THEN <<Bind(mUuid), Clear>>
        ELSE IF t \in Foci THEN <<Bind(mUuid)>>
        ELSE IF TextEnabled THEN <<Bind(ChatRoomKey(t))>> ELSE <<>>]

\* bindFactoryUris, bindFocusUris and the chat rooms
NewRequests ==
    [t \in Targets |->
        IF t \in Factories THEN <<Clear, Bind(mUuid)>>
        ELSE IF t \in Foci THEN <<Bind(mUuid)>>
        ELSE IF TextEnabled THEN <<Bind(ChatRoomKey(t))>> ELSE <<>>]

\* What the server is to bind, in the order of the three loops
Wanted == Factories \cup Foci \cup (IF TextEnabled THEN ChatRooms ELSE {})
Before(t) == IF t \in Factories THEN {} ELSE IF t \in Foci THEN Factories
                                              ELSE Factories \cup Foci
LoopOf(t) == IF t \in Factories THEN Factories ELSE IF t \in Foci THEN Foci ELSE ChatRooms

MakeRequests(targets) ==
    /\ requests' = [t \in Targets |->
                      IF t \in targets THEN requests[t] \o NewRequests[t] ELSE requests[t]]
    /\ requested' = requested \cup targets

\* mutant: the addresses are bound whenever the registrar becomes writable
BindAddressesAgain(where) ==
    /\ Wanted \cap bad = {}
    /\ MakeRequests(Wanted)
    /\ mAddressesBound' = TRUE
    /\ pc' = where

\* mutant: an address that cannot be bound ends the loops, and nothing else
BindAddressesQuietly(where) ==
    /\ IF mAddressesBound THEN UNCHANGED <<mAddressesBound, requestVars>>
       ELSE \E targets \in {Wanted} \cup {Before(b) : b \in Wanted \cap bad} :
              /\ targets \cap bad = {}
              /\ MakeRequests(targets)
              /\ mAddressesBound' = TRUE
    /\ pc' = where

\* bindAddresses, called by the process at where.  The first address that cannot
\* be bound throws: the requests before it are made, and the process is to end.
BindAddresses(where) ==
    \/ /\ mAddressesBound
       /\ pc' = where
       /\ UNCHANGED <<mAddressesBound, requestVars>>
    \/ /\ ~mAddressesBound
       /\ Wanted \cap bad = {}
       /\ MakeRequests(Wanted)
       /\ mAddressesBound' = TRUE
       /\ pc' = where
    \/ /\ ~mAddressesBound
       /\ \E b \in Wanted \cap bad, others \in SUBSET Targets :
            /\ Before(b) \cap bad = {}
            /\ others \subseteq LoopOf(b) \ bad
            /\ MakeRequests(Before(b) \cup others)
       /\ pc' = "failing"
       /\ UNCHANGED mAddressesBound

-----------------------------------------------------------------------------
(* ConferenceServer::_init, cut where an exit would leave something behind *)

\* mutant: the uuid file is not read
ReadNoUuid ==
    /\ pc = "down"
    /\ pc' = "starting"
    /\ mUuid' = None
    /\ coreUuid' = None
    /\ UNCHANGED <<bad, uuidFile, used, mAddressesBound, contactAddress, writable,
                   bindings, requestVars, failed, lost>>

\* readUuid: a file that does not open counts as one that is not there.
ReadUuid ==
    /\ pc = "down"
    /\ pc' = "starting"
    /\ \/ mUuid' = uuidFile /\ UNCHANGED lost
       \/ uuidFile # None /\ mUuid' = None /\ lost' = lost \cup {uuidFile}
    /\ coreUuid' = mUuid'
    /\ UNCHANGED <<bad, uuidFile, used, mAddressesBound, contactAddress, writable,
                   bindings, requestVars, failed>>

\* The core keeps the uuid it was given and chooses one at random otherwise.
StartCore ==
    /\ pc = "starting"
    /\ pc' = "started"
    /\ \/ /\ coreUuid # None
          /\ UNCHANGED <<coreUuid, used>>
       \/ /\ coreUuid = None
          /\ \E u \in Uuids \ used : coreUuid' = u /\ used' = used \cup {u}
    /\ UNCHANGED <<bad, uuidFile, mUuid, mAddressesBound, contactAddress, writable,
                   bindings, requestVars, failed, lost>>

\* writeUuid up to the opening of the file, which empties it; that it does not
\* open is logged and nothing else
WriteUuid ==
    /\ pc = "started"
    /\ \/ /\ mUuid # None
          /\ pc' = "ready"
          /\ UNCHANGED <<uuidFile, mUuid, lost>>
       \/ /\ mUuid = None
          /\ mUuid' = coreUuid
          /\ uuidFile' = None
          /\ pc' = "writing"
          /\ UNCHANGED lost
       \/ /\ mUuid = None
          /\ mUuid' = coreUuid
          /\ pc' = "ready"
          /\ lost' = lost \cup {coreUuid}
          /\ UNCHANGED uuidFile
    /\ UNCHANGED <<bad, used, coreUuid, mAddressesBound, contactAddress, writable,
                   bindings, requestVars, failed>>

\* The rest of writeUuid: whether the uuid is written, whole, or the file stays
\* empty is not looked at.
CloseUuidFile ==
    /\ pc = "writing"
    /\ pc' = "ready"
    /\ \/ uuidFile' = mUuid /\ UNCHANGED lost
       \/ UNCHANGED uuidFile /\ lost' = lost \cup {mUuid}
    /\ UNCHANGED <<bad, used, processVars, writable, bindings, requestVars, failed>>

\* The server listens to the state of the registrar, then binds if it can.
Listen ==
    /\ pc = "ready"
    /\ IF writable THEN BindAddresses("running")
                   ELSE pc' = "running" /\ UNCHANGED <<mAddressesBound, requestVars>>
    /\ UNCHANGED <<bad, uuidFile, used, mUuid, coreUuid, contactAddress, writable, bindings, failed, lost>>

\* A crash, an exception of the start, or a stop: the requests not yet executed
\* are lost, and the files and the registrar keep what they have.
Exit ==
    /\ pc # "down"
    /\ pc' = "down"
    /\ mUuid' = None
    /\ coreUuid' = None
    /\ mAddressesBound' = FALSE
    /\ contactAddress' = [f \in Foci |-> None]
    /\ requests' = [t \in Targets |-> <<>>]
    /\ requested' = {}
    /\ failed' = {}
    /\ UNCHANGED <<bad, uuidFile, used, writable, bindings, lost>>

-----------------------------------------------------------------------------
(* The registrar *)

\* mutant: the server does not react to the registrar becoming writable
WritableChangesUnseen ==
    /\ writable' = ~writable
    /\ UNCHANGED <<pc, bad, uuidFile, used, processVars, bindings, requestVars, failed, lost>>

\* ConferenceServer::onRegistrarDbWritable, once the server listens
WritableChanges ==
    /\ writable' = ~writable
    /\ IF writable' /\ pc = "running"
       THEN BindAddresses("running")
       ELSE UNCHANGED <<pc, mAddressesBound, requestVars>>
    /\ UNCHANGED <<bad, uuidFile, used, mUuid, coreUuid, contactAddress, bindings, failed, lost>>

\* mutant: every account takes the contact address of any focus bound
OnRecordFoundForAll(t, key) == contactAddress' = [f \in Foci |-> key]

\* mutant: the contact address stays the identity address
OnRecordIgnored(t, key) == UNCHANGED contactAddress

\* mutant: the account takes the instance of a 2.2 server
OnRecordFoundLegacy(t, key) ==
    contactAddress' = [f \in Foci |-> IF f = t THEN Legacy ELSE contactAddress[f]]

\* FocusListener::onRecordFound: an account whose instance is in the record takes
\* its public GRUU for contact address.  The other listeners do nothing.
OnRecordFound(t, key) ==
    contactAddress' = [f \in Foci |-> IF f = t THEN key ELSE contactAddress[f]]

\* A bind adds the instance, or refreshes it.  A clear removes the binding of a
\* 2.2 server, and may remove them all.  A process that unwinds hears of neither.
RequestDone(t) ==
    /\ writable
    /\ requests[t] # <<>>
    /\ requests' = [requests EXCEPT ![t] = Tail(@)]
    /\ LET request == Head(requests[t])
       IN \/ /\ request.op = "bind"
             /\ bindings' = [bindings EXCEPT ![t] = @ \cup {request.key}]
             /\ IF pc = "failing" THEN UNCHANGED contactAddress ELSE OnRecordFound(t, request.key)
          \/ /\ request.op = "clear"
             /\ \E kept \in {{}, bindings[t] \ {Legacy}} :
                  bindings' = [bindings EXCEPT ![t] = kept]
             /\ UNCHANGED contactAddress
    /\ UNCHANGED <<pc, bad, uuidFile, used, mUuid, coreUuid, mAddressesBound, writable,
                   requested, failed, lost>>

\* FocusListener::onRecordFound with a record that has no contact, not that of the
\* instance, or no public GRUU for it: an exception, in a callback of the loop
FocusNotRecorded(t) ==
    /\ pc = "running"
    /\ writable
    /\ t \in Foci
    /\ requests[t] # <<>>
    /\ requests' = [requests EXCEPT ![t] = Tail(@)]
    /\ bindings' \in {bindings, [bindings EXCEPT ![t] = @ \cup {mUuid}]}
    /\ pc' = "failing"
    /\ UNCHANGED <<bad, uuidFile, used, processVars, writable, requested, failed, lost>>

\* A request fails, for want of a connection or not: onError and onInvalid do nothing.
RequestFails(t) ==
    /\ requests[t] # <<>>
    /\ requests' = [requests EXCEPT ![t] = Tail(@)]
    /\ failed' = failed \cup {t}
    /\ UNCHANGED <<pc, bad, uuidFile, used, processVars, writable, bindings, requested, lost>>

Next ==
    \/ ReadUuid \/ StartCore \/ WriteUuid \/ CloseUuidFile \/ Listen
    \/ Exit
    \/ WritableChanges
    \/ \E t \in Targets : RequestDone(t) \/ FocusNotRecorded(t) \/ RequestFails(t)

Spec == Init /\ [][Next]_vars

\* A registrar that stays connected executes its requests for the foci.
FairSpec == Spec /\ \A f \in Foci : WF_vars(RequestDone(f))

-----------------------------------------------------------------------------
(* The server binds no instance that a restart would forget: wherever the     *)
(* process exits, the uuids bound to a focus are the one in the file and      *)
(* those a file operation failed for, which is logged at most.  Otherwise     *)
(* every restart leaves one more instance bound, for ever, to the focus URIs  *)
(* (conference-server.cc:118-119,266-271,827-857).                            *)
BoundUuidIsPersisted ==
    \A f \in Foci : bindings[f] \subseteq {uuidFile} \cup lost

(* A running server that sees a writable registrar has bound its addresses,   *)
(* whether the registrar was ready at the start or later (271 and 342-344).   *)
WritableMeansBound == pc = "running" /\ writable => mAddressesBound

(* A server that runs has made the requests for all its addresses or for      *)
(* none: one that cannot be bound ends it, wherever it comes in the loops,    *)
(* and is never left out in silence (373-395,430-432,512).                    *)
RunningIsAllOrNothing == pc = "running" => requested \in {{}, Wanted}

(* However often the registrar is lost and found again, a process makes its   *)
(* requests for an address once: a second clear would take the factory from   *)
(* the clients that use it (374,394,427).                                     *)
RequestedOnce ==
    [][\A t \in Targets : Len(requests'[t]) > Len(requests[t]) => t \notin requested]_vars

(* Once its requests are executed, a running server's factories lead to it    *)
(* and no longer to a 2.2 server, its chat rooms to their own instance, and   *)
(* its foci are reachable at their public GRUU: a server whose registrar has  *)
(* answered it never runs with an account that kept its identity address      *)
(* (387-391,426-429,441-453,496-497).                                         *)
SettledAddressesAreBound ==
    pc = "running" /\ mAddressesBound =>
        \A t \in Targets : requests[t] = <<>> /\ t \notin failed =>
            /\ t \in Factories => mUuid \in bindings[t] /\ Legacy \notin bindings[t]
            /\ t \in Foci => mUuid \in bindings[t] /\ contactAddress[t] = mUuid
            /\ t \in ChatRooms /\ TextEnabled => ChatRoomKey(t) \in bindings[t]

(* The contact address of a focus account names this server's instance, and   *)
(* only once the registrar routes that instance (218-221,441-453).            *)
ContactAddressIsBound ==
    \A f \in Foci : contactAddress[f] # None =>
        contactAddress[f] = mUuid /\ mUuid \in bindings[f]

(* A server that stays up with a writable registrar ends with every focus     *)
(* reachable at its public GRUU, but for those a request failed for: nothing  *)
(* binds these again (373-374,454).                                           *)
FociGetTheirGruu ==
    \A f \in Foci :
        (pc = "running" /\ writable) ~>
            (pc # "running" \/ ~writable \/ f \in failed \/ contactAddress[f] = mUuid)

=============================================================================
