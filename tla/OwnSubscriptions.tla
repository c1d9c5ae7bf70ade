---------------------------- MODULE OwnSubscriptions ----------------------------
(***************************************************************************)
(* The registration subscriptions of participants of the local domains       *)
(* (OwnRegistrationSubscription): an object fetches the participant's record *)
(* from the registrar database, listens for its registrations, and gives its *)
(* chat room the compatible devices.                                         *)
(*                                                                           *)
(* The registrar answers later, in the order it was asked, and an answer     *)
(* may find its object stopped: the registrar holds the object until it has  *)
(* answered, so a slot of Objects is free once the object is stopped and     *)
(* waits for nothing.  The registrar itself is external: its record of a     *)
(* participant changes in any way, up to MaxVersion times in all.            *)
(***************************************************************************)
EXTENDS Capabilities, Naturals, Sequences

CONSTANTS
    Objects,     \* slots for OwnRegistrationSubscription objects
    Aors,        \* the participants of the local domains
    Null,        \* an empty uid, a record not yet read
    MaxVersion   \* bound on the changes of the registrar's records

ASSUME NullIsNoDevice == Null \notin Devices
ASSUME MaxVersionIsNat == MaxVersion \in Nat

VARIABLES
    bindings,     \* registrar: the record of each participant
    listeners,    \* registrar: the objects subscribed to their participant
    pending,      \* registrar: the answers each object still has to get
    owner,        \* the chat room and the participant of each object
    mActive,      \* whether each object is started
    missed,       \* history: the last answer to the object was an error
    roomDevices,  \* what each chat room was last given for each participant
    pings         \* the registrations reported to chat rooms by the last step

registrarVars == <<bindings, listeners, pending>>
vars == <<registrarVars, owner, mActive, missed, roomDevices, pings>>

Pairs == Rooms \X Aors
Record == [devices : SUBSET Devices, version : Nat]

\* Answers to a fetch and to a publication without uid are processed alike.
Asked(uid) == [uid |-> uid, record |-> Null]

\* The list of a chat room that has not been given one since the object started
NotTold == [devices |-> {}, version |-> 0]

TypeOK ==
    /\ bindings \in [Aors -> Record]
    /\ listeners \subseteq Objects
    /\ pending \in [Objects -> Seq([uid : Devices \cup {Null}, record : Record \cup {Null}])]
    /\ owner \in [Objects -> Pairs \cup {Null}]
    /\ mActive \in [Objects -> BOOLEAN]
    /\ missed \in [Objects -> BOOLEAN]
    /\ roomDevices \in [Pairs -> Record]
    /\ pings \subseteq Pairs \X Devices

Init ==
    /\ bindings \in [Aors -> [devices : SUBSET Devices, version : {1}]]
    /\ listeners = {}
    /\ pending = [o \in Objects |-> <<>>]
    /\ owner = [o \in Objects |-> Null]
    /\ mActive = [o \in Objects |-> FALSE]
    /\ missed = [o \in Objects |-> FALSE]
    /\ roomDevices = [p \in Pairs |-> NotTold]
    /\ pings = {}

-----------------------------------------------------------------------------
Free(o) == ~mActive[o] /\ pending[o] = <<>> /\ o \notin listeners

\* mutant: the object does not subscribe to later registrations
StartWithFetchOnly(o, p) ==
    /\ Free(o)
    /\ owner' = [owner EXCEPT ![o] = p]
    /\ mActive' = [mActive EXCEPT ![o] = TRUE]
    /\ pending' = [pending EXCEPT ![o] = Append(@, Asked(Null))]
    /\ missed' = [missed EXCEPT ![o] = FALSE]
    /\ pings' = {}
    /\ UNCHANGED <<bindings, listeners, roomDevices>>

\* OwnRegistrationSubscription::start: the fetch goes before the subscription
Start(o, p) ==
    /\ Free(o)
    /\ owner' = [owner EXCEPT ![o] = p]
    /\ mActive' = [mActive EXCEPT ![o] = TRUE]
    /\ pending' = [pending EXCEPT ![o] = Append(@, Asked(Null))]
    /\ listeners' = listeners \cup {o}
    /\ missed' = [missed EXCEPT ![o] = FALSE]
    /\ pings' = {}
    /\ UNCHANGED <<bindings, roomDevices>>

\* OwnRegistrationSubscription::stop of the objects of a set, those not active
\* excepted.  Answers under way stay under way.
Stop(objects) ==
    LET stopped == {o \in objects : mActive[o]}
        rooms == {owner[o] : o \in stopped}
    IN /\ mActive' = [o \in Objects |-> mActive[o] /\ o \notin stopped]
       /\ listeners' = listeners \ stopped
       /\ roomDevices' = [p \in Pairs |-> IF p \in rooms THEN NotTold ELSE roomDevices[p]]
       /\ pings' = {}
       /\ UNCHANGED <<bindings, pending, owner, missed>>

\* The handler's unsubscribeAll, when the server stops
StopAll == (\E o \in Objects : mActive[o]) /\ Stop(Objects)

-----------------------------------------------------------------------------
\* mutant: a null record is ignored
ProcessRecordIfAny(o, record) ==
    /\ roomDevices' = IF record.devices = {} THEN roomDevices
                      ELSE [roomDevices EXCEPT ![owner[o]] =
                              [record EXCEPT !.devices = Compatible(owner[o][1], @)]]
    /\ missed' = [missed EXCEPT ![o] = FALSE]

\* OwnRegistrationSubscription::processRecord.  The devices of a record are its
\* contacts with a public GRUU: the others are skipped, here and by
\* onContactRegistered.  A null record has no devices.
ProcessRecord(o, record) ==
    /\ roomDevices' = [roomDevices EXCEPT ![owner[o]] =
                         [record EXCEPT !.devices = Compatible(owner[o][1], @)]]
    /\ missed' = [missed EXCEPT ![o] = FALSE]

\* mutant: the empty uid is not tested, nor the contact looked for
ReportedBlindly(o, answer) == {<<owner[o], answer.uid>>}

\* mutant: the capabilities are not checked
ReportedWhenFound(o, answer) ==
    {<<owner[o], d>> : d \in answer.record.devices \cap {answer.uid}}

\* The registrations onContactRegistered reports after the list: that of the uid,
\* if it is still in the record and compatible.
Reported(o, answer) ==
    {<<owner[o], d>> : d \in Compatible(owner[o][1], answer.record.devices \cap {answer.uid})}

\* mutant: without the mActive guards
AnswerAlwaysProcessed(o) ==
    LET answer == Head(pending[o])
    IN /\ pending[o] # <<>>
       /\ answer.record # Null
       /\ pending' = [pending EXCEPT ![o] = Tail(@)]
       /\ ProcessRecord(o, answer.record)
       /\ pings' = Reported(o, answer)
       /\ UNCHANGED <<bindings, listeners, owner, mActive>>

\* onRecordFound, or onContactRegistered when the answer has a uid
AnswerReceived(o) ==
    LET answer == Head(pending[o])
    IN /\ pending[o] # <<>>
       /\ answer.record # Null
       /\ pending' = [pending EXCEPT ![o] = Tail(@)]
       /\ \/ /\ mActive[o]
             /\ ProcessRecord(o, answer.record)
             /\ pings' = Reported(o, answer)
          \/ /\ ~mActive[o]
             /\ pings' = {}
             /\ UNCHANGED <<roomDevices, missed>>
       /\ UNCHANGED <<bindings, listeners, owner, mActive>>

\* onError and onInvalid do nothing
ErrorReceived(o) ==
    /\ pending[o] # <<>>
    /\ pending' = [pending EXCEPT ![o] = Tail(@)]
    /\ missed' = [missed EXCEPT ![o] = TRUE]
    /\ pings' = {}
    /\ UNCHANGED <<bindings, listeners, owner, mActive, roomDevices>>

-----------------------------------------------------------------------------
(* The registrar database. *)

\* A record changes, and the change is published to those who listen: with the
\* uid of the device that registered, or with none.
BindingsChange(a, devices, uid) ==
    /\ bindings[a].version <= MaxVersion
    /\ uid \in devices \cup {Null}
    /\ bindings' = [bindings EXCEPT ![a] = [devices |-> devices, version |-> @.version + 1]]
    /\ pending' = [o \in Objects |->
                     IF o \in listeners /\ owner[o][2] = a
                     THEN Append(pending[o], Asked(uid)) ELSE pending[o]]
    /\ pings' = {}
    /\ UNCHANGED <<listeners, owner, mActive, missed, roomDevices>>

\* The record is read, once for each answer, some time after it was asked for.
RecordRead(o) ==
    /\ \E i \in DOMAIN pending[o] :
         /\ pending[o][i].record = Null
         /\ \A j \in 1..(i - 1) : pending[o][j].record # Null
         /\ pending' = [pending EXCEPT ![o][i].record = bindings[owner[o][2]]]
    /\ pings' = {}
    /\ UNCHANGED <<bindings, listeners, owner, mActive, missed, roomDevices>>

\* The steps nobody asks for: those of the registrar and of its answers
RegistrarNext ==
    \/ \E a \in Aors, devices \in SUBSET Devices, uid \in Devices \cup {Null} :
         BindingsChange(a, devices, uid)
    \/ \E o \in Objects : RecordRead(o)
    \/ \E o \in Objects : AnswerReceived(o)
    \/ \E o \in Objects : ErrorReceived(o)

\* The store has one subscription at most for a chat room and a participant.
Next ==
    \/ \E o \in Objects, p \in Pairs :
         (\A q \in Objects : mActive[q] => owner[q] # p) /\ Start(o, p)
    \/ \E o \in Objects : mActive[o] /\ Stop({o})
    \/ StopAll
    \/ RegistrarNext

\* The registrar reads the record for every request and every answer comes.
Fairness == \A o \in Objects : WF_vars(RecordRead(o)) /\ WF_vars(AnswerReceived(o))

Spec == Init /\ [][Next]_vars
FairSpec == Spec /\ Fairness

-----------------------------------------------------------------------------
Current(o) ==
    LET record == bindings[owner[o][2]]
    IN roomDevices[owner[o]] = [record EXCEPT !.devices = Compatible(owner[o][1], @)]

(* When an active subscription waits for no answer and got no error last, its *)
(* chat room has exactly the compatible devices of the participant's record:  *)
(* no change is lost between the fetch and the subscription, nor after        *)
(* (registration-subscription.cc:101-111,131-168).                            *)
QuietRoomsAreCurrent ==
    \A o \in Objects : mActive[o] /\ pending[o] = <<>> /\ ~missed[o] => Current(o)

(* A registration is reported to a chat room only for a device it was just    *)
(* given, by a subscription that is active: never for one it must not see     *)
(* (registration-subscription.cc:155-168).                                    *)
PingsAreForGivenDevices ==
    \A p \in Pairs, d \in Devices : <<p, d>> \in pings =>
        /\ d \in roomDevices[p].devices
        /\ \E o \in Objects : mActive[o] /\ owner[o] = p

(* A chat room is never given an older record than the one it has, although   *)
(* the answers to a stopped subscription still arrive while another one is    *)
(* active for the same participant (the mActive guards, 132 and 156).         *)
RoomsNeverGoBack ==
    [][\A p \in Pairs :
         roomDevices'[p] # roomDevices[p] =>
            \/ /\ roomDevices'[p].version >= roomDevices[p].version
               /\ \E o \in Objects : mActive[o] /\ owner[o] = p
            \/ roomDevices'[p] = NotTold]_vars

(* An active subscription catches up with the record, unless the registrar    *)
(* fails to answer (nothing retries: onError does nothing).                   *)
RoomsCatchUp ==
    \A o \in Objects : mActive[o] ~> ~mActive[o] \/ missed[o] \/ Current(o)

=============================================================================
