-------------------------- MODULE ServerBindingsProofs --------------------------
(***************************************************************************)
(* Theorems about ServerBindings, for any URIs, chat rooms and uuids.        *)
(*                                                                           *)
(* The invariant says where the uuid is at each step of the start, which     *)
(* requests can be under way for an address, and what those already executed *)
(* have left in the registrar.                                               *)
(***************************************************************************)
EXTENDS ServerBindings, SequenceTheorems, TLAPS

\* The process has not listened to the registrar yet, or is no longer there.
Quiet == {"down", "starting", "started", "writing", "ready"}

\* The start has the uuid of the file, or none when the file is empty or lost.
Read == mUuid = uuidFile \/ (mUuid = None /\ uuidFile \in lost)

\* Where the uuid is: what is bound is in the file, or lost, before it can be bound.
UuidInv ==
    /\ pc = "starting" => Read /\ coreUuid = mUuid
    /\ pc = "started" => Read /\ coreUuid \in Uuids
    /\ pc = "writing" => uuidFile = None /\ mUuid \in Uuids
    /\ pc \in {"ready", "running", "failing"} => mUuid \in Uuids /\ mUuid \in {uuidFile} \cup lost
    /\ BoundUuidIsPersisted

QuietInv ==
    pc \in Quiet =>
        /\ ~mAddressesBound /\ requested = {} /\ failed = {}
        /\ \A f \in Foci : contactAddress[f] = None

\* The requests of an address are those of bindAddresses, or what remains of them.
Pending(t) ==
    /\ t \in Factories => requests[t] \in {<<Clear, Bind(mUuid)>>, <<Bind(mUuid)>>, <<>>}
    /\ t \in Foci => requests[t] \in {<<Bind(mUuid)>>, <<>>}
    /\ t \in ChatRooms => requests[t] \in {<<Bind(ChatRoomKey(t))>>, <<>>}
    /\ t \notin requested => requests[t] = <<>>

RequestsInv ==
    /\ mAddressesBound => requested = Wanted
    /\ ~mAddressesBound /\ pc # "failing" => requested = {}
    /\ \A t \in Targets : Pending(t)
    /\ WritableMeansBound

\* What the requests executed so far, when none failed, have done.
Done(t) ==
    /\ t \in Factories =>
         /\ requests[t] \in {<<Bind(mUuid)>>, <<>>} => Legacy \notin bindings[t]
         /\ requests[t] = <<>> => mUuid \in bindings[t]
    /\ t \in Foci => (requests[t] = <<>> => mUuid \in bindings[t] /\ contactAddress[t] = mUuid)
    /\ t \in ChatRooms => (requests[t] = <<>> => ChatRoomKey(t) \in bindings[t])

DoneInv == pc = "running" => \A t \in requested \ failed : Done(t)

IInv == TypeOK /\ UuidInv /\ QuietInv /\ RequestsInv /\ DoneInv /\ ContactAddressIsBound

-----------------------------------------------------------------------------
(* Requests *)

Request == [op : {"clear", "bind"}, key : InstanceKeys \cup {None}]

LEMMA RequestsDiffer ==
    ASSUME NEW a, NEW b
    PROVE  /\ <<Clear, Bind(a)>> # <<>> /\ <<Clear, Bind(a)>> # <<Bind(b)>>
           /\ <<Bind(a)>> # <<>>
           /\ Head(<<Clear, Bind(a)>>) = Clear /\ Tail(<<Clear, Bind(a)>>) = <<Bind(a)>>
           /\ Head(<<Bind(a)>>) = Bind(a) /\ Tail(<<Bind(a)>>) = <<>>
           /\ Clear.op = "clear" /\ Bind(a).op = "bind" /\ Bind(a).key = a
  BY DEF Clear, Bind

\* What bindAddresses asks for is well formed when the server has its uuid.
LEMMA NewRequestsType ==
    ASSUME mUuid \in Uuids
    PROVE  \A t \in Targets : NewRequests[t] \in Seq(Request)
<1> SUFFICES ASSUME NEW t \in Targets PROVE NewRequests[t] \in Seq(Request)
  OBVIOUS
<1>1. Clear \in Request /\ Bind(mUuid) \in Request
  BY DEF Clear, Bind, Request, InstanceKeys
<1>2. t \in ChatRooms => Bind(ChatRoomKey(t)) \in Request
  BY GruusAssumption DEF Bind, Request, InstanceKeys, ChatRoomKey
<1>3. t \in Factories \/ t \in Foci \/ t \in ChatRooms
  BY DEF Targets
<1> QED
  BY <1>1, <1>2, <1>3 DEF NewRequests

\* bindAddresses starts from no request.
LEMMA FreshRequests ==
    ASSUME TypeOK, mUuid \in Uuids, NEW targets \in SUBSET Targets, MakeRequests(targets),
           \A t \in Targets : requests[t] = <<>>
    PROVE  /\ \A t \in targets : requests'[t] = NewRequests[t]
           /\ \A t \in Targets \ targets : requests'[t] = <<>>
           /\ requests' \in [Targets -> Seq(Request)]
<1>1. \A t \in Targets : <<>> \o NewRequests[t] = NewRequests[t]
  BY NewRequestsType, ConcatEmptySeq
<1>2. requests' = [t \in Targets |-> IF t \in targets THEN requests[t] \o NewRequests[t]
                                     ELSE requests[t]]
  BY DEF MakeRequests
<1>3. /\ \A t \in targets : requests'[t] = NewRequests[t]
      /\ \A t \in Targets \ targets : requests'[t] = <<>>
  BY <1>1, <1>2
<1>4. requests' \in [Targets -> Seq(Request)]
  <2>1. \A t \in Targets : requests'[t] \in Seq(Request)
    BY <1>3, NewRequestsType, EmptySeq
  <2> QED
    BY <1>2, <2>1
<1> QED
  BY <1>3, <1>4

\* What bindAddresses asks for, by kind of address
LEMMA NewRequestsAre ==
    ASSUME NEW t \in Targets
    PROVE  /\ t \in Factories => NewRequests[t] = <<Clear, Bind(mUuid)>>
           /\ t \in Foci => NewRequests[t] = <<Bind(mUuid)>>
           /\ t \in ChatRooms => NewRequests[t] \in {<<Bind(ChatRoomKey(t))>>, <<>>}
           /\ t \in ChatRooms /\ t \in Wanted => NewRequests[t] = <<Bind(ChatRoomKey(t))>>
<1>1. NewRequests[t] = IF t \in Factories THEN <<Clear, Bind(mUuid)>>
                       ELSE IF t \in Foci THEN <<Bind(mUuid)>>
                       ELSE IF TextEnabled THEN <<Bind(ChatRoomKey(t))>> ELSE <<>>
  BY DEF NewRequests
<1> QED
  BY <1>1, DisjointTargets DEF Wanted

\* The three ways bindAddresses can go
NothingLeftToBind ==
    mAddressesBound /\ pc' = "running" /\ UNCHANGED <<mAddressesBound, requestVars>>
Asked ==
    /\ ~mAddressesBound /\ requested = {} /\ requested' \subseteq Targets
    /\ \A t \in requested' : requests'[t] = NewRequests[t]
    /\ \A t \in Targets \ requested' : requests'[t] = <<>>
    /\ requests' \in [Targets -> Seq(Request)]
AllAsked == Asked /\ mAddressesBound' = TRUE /\ requested' = Wanted /\ pc' = "running"
SomeAsked == Asked /\ ~mAddressesBound' /\ mAddressesBound' \in BOOLEAN /\ pc' = "failing"

LEMMA BindingEnds ==
    ASSUME TypeOK, UuidInv, RequestsInv, pc \in {"ready", "running"}, BindAddresses("running")
    PROVE  NothingLeftToBind \/ AllAsked \/ SomeAsked
<1>1. mUuid \in Uuids
  BY DEF UuidInv
<1>2. Wanted \subseteq Targets
  BY DEF Wanted, Targets
<1>3. CASE mAddressesBound
  BY <1>3 DEF BindAddresses, NothingLeftToBind
<1>4. CASE ~mAddressesBound
  <2>1. requested = {} /\ \A t \in Targets : requests[t] = <<>>
    BY <1>4 DEF RequestsInv, Pending
  <2>2. ASSUME NEW targets \in SUBSET Targets, MakeRequests(targets)
        PROVE  Asked /\ requested' = targets
    <3>1. requested' = targets
      BY <2>1, <2>2 DEF MakeRequests
    <3> QED
      BY <1>1, <1>4, <2>1, <2>2, <3>1, FreshRequests DEF Asked
  <2>3. CASE Wanted \cap bad = {} /\ MakeRequests(Wanted) /\ mAddressesBound' = TRUE /\ pc' = "running"
    BY <1>2, <2>2, <2>3 DEF AllAsked
  <2>4. ASSUME NEW b \in Wanted \cap bad, NEW others \in SUBSET Targets,
               MakeRequests(Before(b) \cup others), pc' = "failing", UNCHANGED mAddressesBound
        PROVE  SomeAsked
    <3>1. Before(b) \cup others \in SUBSET Targets
      BY DEF Before, Targets
    <3> QED
      BY <1>4, <2>2, <2>4, <3>1 DEF SomeAsked, TypeOK
  <2> QED
    BY <1>4, <2>3, <2>4 DEF BindAddresses
<1> QED
  BY <1>3, <1>4

\* The request at the head of those under way, and what remains after it
LEMMA Executing ==
    ASSUME IInv, NEW t \in Targets, requests[t] # <<>>
    PROVE  /\ pc \in {"running", "failing"} /\ mUuid \in Uuids /\ t \in requested
           /\ \/ /\ t \in Factories /\ requests[t] = <<Clear, Bind(mUuid)>>
                 /\ Head(requests[t]) = Clear /\ Tail(requests[t]) = <<Bind(mUuid)>>
              \/ /\ t \in Factories \cup Foci /\ requests[t] = <<Bind(mUuid)>>
                 /\ Head(requests[t]) = Bind(mUuid) /\ Tail(requests[t]) = <<>>
              \/ /\ t \in ChatRooms /\ requests[t] = <<Bind(ChatRoomKey(t))>>
                 /\ Head(requests[t]) = Bind(ChatRoomKey(t)) /\ Tail(requests[t]) = <<>>
           /\ Head(requests[t]) \in Request /\ Tail(requests[t]) \in Seq(Request)
           /\ Len(Tail(requests[t])) < Len(requests[t])
<1>1. t \in requested
  BY DEF IInv, RequestsInv, Pending
<1>2. pc \in {"running", "failing"}
  BY <1>1 DEF IInv, QuietInv, TypeOK, Quiet
<1>3. mUuid \in Uuids
  BY <1>2 DEF IInv, UuidInv
<1>4. Pending(t) /\ (t \in Factories \/ t \in Foci \/ t \in ChatRooms)
  BY DEF IInv, RequestsInv, Targets
<1>5. requests[t] \in Seq(Request)
  BY DEF IInv, TypeOK, Request
<1>6. /\ Head(requests[t]) \in Request /\ Tail(requests[t]) \in Seq(Request)
      /\ Len(Tail(requests[t])) = Len(requests[t]) - 1 /\ Len(requests[t]) \in Nat
  BY <1>5, HeadTailProperties, LenProperties
<1>7. CASE t \in Factories
  <2>1. requests[t] \in {<<Clear, Bind(mUuid)>>, <<Bind(mUuid)>>}
    BY <1>4, <1>7 DEF Pending
  <2>2. CASE requests[t] = <<Clear, Bind(mUuid)>>
    BY <1>1, <1>2, <1>3, <1>6, <1>7, <2>2, RequestsDiffer
  <2>3. CASE requests[t] = <<Bind(mUuid)>>
    BY <1>1, <1>2, <1>3, <1>6, <1>7, <2>3, RequestsDiffer
  <2> QED
    BY <2>1, <2>2, <2>3
<1>8. CASE t \in Foci
  <2>1. requests[t] = <<Bind(mUuid)>>
    BY <1>4, <1>8 DEF Pending
  <2> QED
    BY <1>1, <1>2, <1>3, <1>6, <1>8, <2>1, RequestsDiffer
<1>9. CASE t \in ChatRooms
  <2>1. requests[t] = <<Bind(ChatRoomKey(t))>>
    BY <1>4, <1>9 DEF Pending
  <2> QED
    BY <1>1, <1>2, <1>3, <1>6, <1>9, <2>1, RequestsDiffer
<1> QED
  BY <1>4, <1>7, <1>8, <1>9

\* What a bind binds
LEMMA ExecutedKey ==
    ASSUME IInv, NEW t \in Targets, requests[t] # <<>>, Head(requests[t]).op = "bind"
    PROVE  /\ Head(requests[t]).key \in InstanceKeys
           /\ t \in Factories \cup Foci => Head(requests[t]).key = mUuid
           /\ t \in ChatRooms => Head(requests[t]).key = ChatRoomKey(t)
           /\ Tail(requests[t]) = <<>>
<1>1. CASE t \in Factories \cup Foci
  <2>1. Head(requests[t]) = Bind(mUuid) /\ Tail(requests[t]) = <<>> /\ mUuid \in Uuids
    BY <1>1, Executing, RequestsDiffer, DisjointTargets
  <2> QED
    BY <1>1, <2>1, RequestsDiffer, DisjointTargets DEF InstanceKeys
<1>2. CASE t \in ChatRooms
  <2>1. Head(requests[t]) = Bind(ChatRoomKey(t)) /\ Tail(requests[t]) = <<>> /\ mUuid \in Uuids
    BY <1>2, Executing, DisjointTargets
  <2>2. ChatRoomKey(t) \in InstanceKeys
    BY <1>2, <2>1, GruusAssumption DEF ChatRoomKey, InstanceKeys
  <2> QED
    BY <1>2, <2>1, <2>2, RequestsDiffer, DisjointTargets
<1> QED
  BY <1>1, <1>2 DEF Targets

-----------------------------------------------------------------------------
(* The invariant *)

LEMMA InitIInv == Init => IInv
<1> SUFFICES ASSUME Init PROVE IInv
  OBVIOUS
<1>1. TypeOK
  <2>1. bindings \in [Targets -> SUBSET InstanceKeys]
    BY DEF Init, InstanceKeys
  <2>2. requests \in [Targets -> Seq(Request)]
    BY EmptySeq DEF Init
  <2> QED
    BY <2>1, <2>2 DEF Init, TypeOK, Request
<1>2. UuidInv
  BY DisjointTargets DEF Init, UuidInv, BoundUuidIsPersisted, Targets
<1>3. QuietInv /\ ContactAddressIsBound
  BY DEF Init, QuietInv, ContactAddressIsBound
<1>4. RequestsInv
  BY DEF Init, RequestsInv, Pending, WritableMeansBound
<1>5. DoneInv
  BY DEF Init, DoneInv
<1> QED
  BY <1>1, <1>2, <1>3, <1>4, <1>5 DEF IInv

(* Types *)
LEMMA NextTypeOK == IInv /\ [Next]_vars => TypeOK'
<1> SUFFICES ASSUME IInv, [Next]_vars PROVE TypeOK'
  OBVIOUS
<1>t. TypeOK /\ UuidInv /\ QuietInv /\ RequestsInv
  BY DEF IInv
<1>1. CASE ReadUuid
  BY <1>t, <1>1 DEF ReadUuid, TypeOK, requestVars
<1>2. CASE StartCore
  BY <1>t, <1>2 DEF StartCore, TypeOK, requestVars
<1>3. CASE WriteUuid
  BY <1>t, <1>3 DEF WriteUuid, TypeOK, requestVars, UuidInv
<1>4. CASE CloseUuidFile
  BY <1>t, <1>4 DEF CloseUuidFile, TypeOK, requestVars, processVars, UuidInv
<1>b. ASSUME BindAddresses("running"), pc \in {"ready", "running"}
      PROVE  /\ pc' \in {"running", "failing"} /\ mAddressesBound' \in BOOLEAN
             /\ requested' \subseteq Targets /\ requests' \in [Targets -> Seq(Request)]
  <2>1. CASE NothingLeftToBind
    BY <1>t, <2>1 DEF NothingLeftToBind, TypeOK, requestVars, Request
  <2>2. CASE AllAsked
    BY <2>2 DEF AllAsked, Asked
  <2>3. CASE SomeAsked
    BY <2>3 DEF SomeAsked, Asked
  <2> QED
    BY <1>t, <1>b, <2>1, <2>2, <2>3, BindingEnds
<1>5. CASE Listen
  <2>1. CASE writable
    BY <1>t, <1>5, <2>1, <1>b DEF Listen, TypeOK, Request
  <2>2. CASE ~writable
    BY <1>t, <1>5, <2>2 DEF Listen, TypeOK, requestVars
  <2> QED
    BY <2>1, <2>2
<1>6. CASE Exit
  <2>1. requests' \in [Targets -> Seq(Request)]
    BY <1>6, EmptySeq DEF Exit
  <2> QED
    BY <1>t, <1>6, <2>1 DEF Exit, TypeOK, Request
<1>7. CASE WritableChanges
  <2>1. CASE writable' /\ pc = "running"
    BY <1>t, <1>7, <2>1, <1>b DEF WritableChanges, TypeOK, Request
  <2>2. CASE ~(writable' /\ pc = "running")
    BY <1>t, <1>7, <2>2 DEF WritableChanges, TypeOK, requestVars
  <2> QED
    BY <2>1, <2>2
<1>8. ASSUME NEW t \in Targets, RequestDone(t) PROVE TypeOK'
  <2>1. requests' \in [Targets -> Seq(Request)]
    <3>1. requests' = [requests EXCEPT ![t] = Tail(@)] /\ Tail(requests[t]) \in Seq(Request)
      BY <1>8, Executing DEF RequestDone
    <3> QED
      BY <1>t, <3>1 DEF TypeOK, Request
  <2>2. Head(requests[t]).op = "bind" => Head(requests[t]).key \in InstanceKeys
    BY <1>8, ExecutedKey DEF RequestDone
  <2>3. bindings' \in [Targets -> SUBSET InstanceKeys]
    BY <1>t, <1>8, <2>2 DEF RequestDone, TypeOK
  <2>4. contactAddress' \in [Foci -> Uuids \cup {None}]
    <3>1. CASE UNCHANGED contactAddress
      BY <1>t, <3>1 DEF TypeOK
    <3>2. CASE Head(requests[t]).op = "bind" /\ OnRecordFound(t, Head(requests[t]).key)
      <4>1. t \in Foci => Head(requests[t]).key \in Uuids
        BY <1>8, <3>2, Executing, ExecutedKey DEF RequestDone
      <4> QED
        BY <1>t, <3>2, <4>1 DEF OnRecordFound, TypeOK
    <3> QED
      BY <1>8, <3>1, <3>2 DEF RequestDone
  <2> QED
    BY <1>t, <1>8, <2>1, <2>3, <2>4 DEF RequestDone, TypeOK, Request
<1>9. ASSUME NEW t \in Targets, FocusNotRecorded(t) PROVE TypeOK'
  <2>1. requests' \in [Targets -> Seq(Request)]
    <3>1. requests' = [requests EXCEPT ![t] = Tail(@)] /\ Tail(requests[t]) \in Seq(Request)
      BY <1>9, Executing DEF FocusNotRecorded
    <3> QED
      BY <1>t, <3>1 DEF TypeOK, Request
  <2>2. bindings' \in [Targets -> SUBSET InstanceKeys]
    <3>1. mUuid \in InstanceKeys
      BY <1>9, Executing DEF FocusNotRecorded, InstanceKeys
    <3> QED
      BY <1>t, <1>9, <3>1 DEF FocusNotRecorded, TypeOK
  <2> QED
    BY <1>t, <1>9, <2>1, <2>2 DEF FocusNotRecorded, TypeOK, Request, processVars
<1>10. ASSUME NEW t \in Targets, RequestFails(t) PROVE TypeOK'
  <2>1. requests' \in [Targets -> Seq(Request)]
    <3>1. requests' = [requests EXCEPT ![t] = Tail(@)] /\ Tail(requests[t]) \in Seq(Request)
      BY <1>10, Executing DEF RequestFails
    <3> QED
      BY <1>t, <3>1 DEF TypeOK, Request
  <2> QED
    BY <1>t, <1>10, <2>1 DEF RequestFails, TypeOK, Request, processVars
<1>11. CASE UNCHANGED vars
  BY <1>t, <1>11 DEF vars, TypeOK, processVars, requestVars
<1> QED
  BY <1>1, <1>2, <1>3, <1>4, <1>5, <1>6, <1>7, <1>8, <1>9, <1>10, <1>11 DEF Next

\* Where bindAddresses leaves the process
LEMMA BindingMoves ==
    ASSUME IInv, pc \in {"ready", "running"}, BindAddresses("running")
    PROVE  pc' = "running" \/ (pc' = "failing" /\ ~mAddressesBound /\ ~mAddressesBound')
  BY BindingEnds DEF IInv, NothingLeftToBind, AllAsked, SomeAsked, Asked

(* The uuid: bindings change only where the uuid is in the file already. *)
LEMMA NextUuidInv == IInv /\ [Next]_vars => UuidInv'
<1> SUFFICES ASSUME IInv, [Next]_vars PROVE UuidInv'
  OBVIOUS
<1>t. TypeOK /\ UuidInv
  BY DEF IInv
<1>1. CASE ReadUuid
  BY <1>t, <1>1 DEF ReadUuid, UuidInv, Read, BoundUuidIsPersisted
<1>2. CASE StartCore
  BY <1>t, <1>2 DEF StartCore, UuidInv, Read, BoundUuidIsPersisted, TypeOK
<1>3. CASE WriteUuid
  <2>1. Read /\ coreUuid \in Uuids
    BY <1>t, <1>3 DEF WriteUuid, UuidInv, Read
  <2>2. CASE mUuid # None
    BY <1>t, <1>3, <2>1, <2>2 DEF WriteUuid, UuidInv, Read, BoundUuidIsPersisted, TypeOK
  <2>3. CASE mUuid = None /\ pc' = "writing"
    <3>1. uuidFile' = None /\ mUuid' \in Uuids /\ UNCHANGED <<bindings, lost>>
      BY <1>3, <2>1, <2>3 DEF WriteUuid
    <3>2. \A f \in Foci : bindings[f] \subseteq {None} \cup lost
      BY <1>t, <2>1, <2>3 DEF UuidInv, Read, BoundUuidIsPersisted
    <3> QED
      BY <2>3, <3>1, <3>2 DEF UuidInv, Read, BoundUuidIsPersisted
  <2>4. CASE mUuid = None /\ pc' = "ready"
    BY <1>t, <1>3, <2>1, <2>4 DEF WriteUuid, UuidInv, Read, BoundUuidIsPersisted, TypeOK
  <2> QED
    BY <1>3, <2>2, <2>3, <2>4 DEF WriteUuid
<1>4. CASE CloseUuidFile
  <2>1. uuidFile = None /\ mUuid \in Uuids
    BY <1>t, <1>4 DEF CloseUuidFile, UuidInv, Read
  <2>2. BoundUuidIsPersisted'
    <3>1. \A f \in Foci : None \notin bindings[f]
      BY <1>t, NoneIsNoKey DEF TypeOK, Targets
    <3> QED
      BY <1>t, <1>4, <2>1, <3>1 DEF CloseUuidFile, UuidInv, Read, BoundUuidIsPersisted, processVars
  <2> QED
    BY <1>t, <1>4, <2>1, <2>2 DEF CloseUuidFile, UuidInv, Read, processVars
<1>5. CASE Listen
  <2>1. pc' \in {"running", "failing"}
    BY <1>5, BindingMoves DEF Listen
  <2> QED
    BY <1>t, <1>5, <2>1 DEF Listen, UuidInv, Read, BoundUuidIsPersisted
<1>6. CASE Exit
  BY <1>t, <1>6 DEF Exit, UuidInv, Read, BoundUuidIsPersisted
<1>7. CASE WritableChanges
  <2>1. pc' = pc \/ (pc = "running" /\ pc' = "failing")
    BY <1>7, BindingMoves DEF WritableChanges
  <2> QED
    BY <1>t, <1>7, <2>1 DEF WritableChanges, UuidInv, Read, BoundUuidIsPersisted
<1>8. ASSUME NEW t \in Targets, RequestDone(t) PROVE UuidInv'
  <2>1. mUuid \in {uuidFile} \cup lost
    BY <1>t, <1>8, Executing DEF RequestDone, UuidInv, Read
  <2>2. BoundUuidIsPersisted'
    <3> SUFFICES ASSUME NEW f \in Foci PROVE bindings'[f] \subseteq {uuidFile} \cup lost
      BY <1>8 DEF RequestDone, BoundUuidIsPersisted
    <3>1. bindings[f] \subseteq {uuidFile} \cup lost
      BY <1>t DEF UuidInv, Read, BoundUuidIsPersisted
    <3>2. CASE /\ Head(requests[t]).op = "bind"
               /\ bindings' = [bindings EXCEPT ![t] = @ \cup {Head(requests[t]).key}]
      <4>1. t = f => Head(requests[t]).key = mUuid
        BY <1>8, <3>2, ExecutedKey DEF RequestDone
      <4> QED
        BY <1>t, <2>1, <3>1, <3>2, <4>1 DEF TypeOK, Targets
    <3>3. CASE \E kept \in {{}, bindings[t] \ {Legacy}} : bindings' = [bindings EXCEPT ![t] = kept]
      BY <1>t, <3>1, <3>3 DEF TypeOK, Targets
    <3> QED
      BY <1>8, <3>2, <3>3 DEF RequestDone
  <2> QED
    BY <1>t, <1>8, <2>2 DEF RequestDone, UuidInv, Read
<1>9. ASSUME NEW t \in Targets, FocusNotRecorded(t) PROVE UuidInv'
  <2>1. mUuid \in Uuids /\ mUuid \in {uuidFile} \cup lost
    BY <1>t, <1>9 DEF FocusNotRecorded, UuidInv, Read
  <2>2. \A f \in Foci : bindings'[f] \subseteq bindings[f] \cup {mUuid}
    BY <1>t, <1>9 DEF FocusNotRecorded, TypeOK, Targets
  <2>3. BoundUuidIsPersisted'
    BY <1>t, <1>9, <2>1, <2>2 DEF FocusNotRecorded, UuidInv, Read, BoundUuidIsPersisted
  <2> QED
    BY <1>t, <1>9, <2>1, <2>3 DEF FocusNotRecorded, UuidInv, Read, processVars
<1>10. ASSUME NEW t \in Targets, RequestFails(t) PROVE UuidInv'
  BY <1>t, <1>10 DEF RequestFails, UuidInv, Read, BoundUuidIsPersisted, processVars
<1>11. CASE UNCHANGED vars
  BY <1>t, <1>11 DEF vars, UuidInv, Read, BoundUuidIsPersisted, processVars
<1> QED
  BY <1>1, <1>2, <1>3, <1>4, <1>5, <1>6, <1>7, <1>8, <1>9, <1>10, <1>11 DEF Next

LEMMA NextQuietInv == IInv /\ [Next]_vars => QuietInv'
<1> SUFFICES ASSUME IInv, [Next]_vars PROVE QuietInv'
  OBVIOUS
<1>t. QuietInv
  BY DEF IInv
<1>1. CASE ReadUuid \/ StartCore \/ WriteUuid \/ CloseUuidFile
  BY <1>t, <1>1 DEF ReadUuid, StartCore, WriteUuid, CloseUuidFile, QuietInv, Quiet,
                    processVars, requestVars
<1>2. CASE Listen
  <2>1. pc' \in {"running", "failing"}
    BY <1>2, BindingMoves DEF Listen
  <2> QED
    BY <2>1 DEF QuietInv, Quiet
<1>3. CASE Exit
  BY <1>3 DEF Exit, QuietInv
<1>4. CASE WritableChanges
  <2>1. CASE writable' /\ pc = "running"
    <3>1. pc' \in {"running", "failing"}
      BY <1>4, <2>1, BindingMoves DEF WritableChanges
    <3> QED
      BY <3>1 DEF QuietInv, Quiet
  <2>2. CASE ~(writable' /\ pc = "running")
    BY <1>t, <1>4, <2>2 DEF WritableChanges, QuietInv, requestVars
  <2> QED
    BY <2>1, <2>2
<1>5. ASSUME NEW t \in Targets, RequestDone(t) \/ FocusNotRecorded(t) \/ RequestFails(t)
      PROVE  QuietInv'
  <2>1. pc \in {"running", "failing"}
    BY <1>5, Executing DEF RequestDone, FocusNotRecorded, RequestFails
  <2>2. pc' \in {"running", "failing"}
    BY <1>5, <2>1 DEF RequestDone, FocusNotRecorded, RequestFails
  <2> QED
    BY <2>2 DEF QuietInv, Quiet
<1>6. CASE UNCHANGED vars
  BY <1>t, <1>6 DEF vars, QuietInv, processVars, requestVars
<1> QED
  BY <1>1, <1>2, <1>3, <1>4, <1>5, <1>6 DEF Next

(* Requests: they are made at once, from none, and only shrink after. *)
LEMMA AskedInv ==
    ASSUME IInv, pc \in {"ready", "running"}, BindAddresses("running"), UNCHANGED mUuid
    PROVE  /\ mAddressesBound' => requested' = Wanted
           /\ ~mAddressesBound' => pc' = "failing"
           /\ \A t \in Targets : Pending(t)'
<1>1. CASE NothingLeftToBind
  BY <1>1 DEF NothingLeftToBind, IInv, RequestsInv, Pending, ChatRoomKey, requestVars
<1>2. CASE Asked
  <2> SUFFICES ASSUME NEW t \in Targets PROVE Pending(t)'
    BY <1>1, <1>2, BindingEnds DEF IInv, AllAsked, SomeAsked, NothingLeftToBind
  <2>1. ChatRoomKey(t)' = ChatRoomKey(t)
    BY DEF ChatRoomKey
  <2> QED
    BY <1>2, <2>1, NewRequestsAre DEF Asked, Pending
<1> QED
  BY <1>1, <1>2, BindingEnds DEF IInv, AllAsked, SomeAsked

LEMMA NextRequestsInv == IInv /\ [Next]_vars => RequestsInv'
<1> SUFFICES ASSUME IInv, [Next]_vars PROVE RequestsInv'
  OBVIOUS
<1>t. TypeOK /\ QuietInv /\ RequestsInv
  BY DEF IInv
<1>q. ASSUME pc \in Quiet PROVE \A t \in Targets : requests[t] = <<>>
  BY <1>t, <1>q DEF QuietInv, RequestsInv, Pending
<1>1. CASE ReadUuid \/ StartCore \/ WriteUuid \/ CloseUuidFile
  <2>1. /\ pc \in Quiet /\ pc' \in Quiet
        /\ UNCHANGED <<mAddressesBound, requested, requests>>
    BY <1>1 DEF ReadUuid, StartCore, WriteUuid, CloseUuidFile, Quiet, processVars, requestVars
  <2> QED
    BY <1>t, <1>q, <2>1 DEF RequestsInv, QuietInv, Pending, WritableMeansBound, Quiet
<1>2. CASE Listen
  <2>1. CASE writable
    BY <1>2, <2>1, AskedInv, BindingMoves DEF Listen, RequestsInv, WritableMeansBound
  <2>2. CASE ~writable
    BY <1>t, <1>2, <2>2 DEF Listen, RequestsInv, Pending, ChatRoomKey, WritableMeansBound, requestVars
  <2> QED
    BY <2>1, <2>2
<1>3. CASE Exit
  BY <1>3 DEF Exit, RequestsInv, Pending, WritableMeansBound
<1>4. CASE WritableChanges
  <2>1. CASE writable' /\ pc = "running"
    BY <1>4, <2>1, AskedInv, BindingMoves DEF WritableChanges, RequestsInv, WritableMeansBound
  <2>2. CASE ~(writable' /\ pc = "running")
    BY <1>t, <1>4, <2>2 DEF WritableChanges, RequestsInv, Pending, ChatRoomKey,
                            WritableMeansBound, requestVars
  <2> QED
    BY <2>1, <2>2
<1>5. ASSUME NEW t \in Targets, RequestDone(t) \/ FocusNotRecorded(t) \/ RequestFails(t)
      PROVE  RequestsInv'
  <2>1. /\ requests[t] # <<>> /\ requests' = [requests EXCEPT ![t] = Tail(@)]
        /\ UNCHANGED <<mAddressesBound, requested, writable, mUuid>>
        /\ pc' = pc \/ pc' = "failing"
    BY <1>5 DEF RequestDone, FocusNotRecorded, RequestFails, processVars
  <2>2. ASSUME NEW s \in Targets PROVE Pending(s)'
    <3>1. Pending(s) /\ ChatRoomKey(s)' = ChatRoomKey(s)
      BY <1>t, <2>1 DEF RequestsInv, ChatRoomKey
    <3>2. CASE s = t
      <4>1. requests'[t] = Tail(requests[t]) /\ t \in requested
        BY <1>t, <2>1, Executing DEF TypeOK
      <4>2. \/ t \in Factories /\ Tail(requests[t]) = <<Bind(mUuid)>>
            \/ Tail(requests[t]) = <<>>
        BY <2>1, Executing
      <4> QED
        BY <2>1, <3>1, <3>2, <4>1, <4>2, DisjointTargets DEF Pending
    <3>3. CASE s # t
      BY <1>t, <2>1, <3>1, <3>3 DEF Pending, TypeOK
    <3> QED
      BY <3>2, <3>3
  <2> QED
    BY <1>t, <2>1, <2>2 DEF RequestsInv, WritableMeansBound
<1>6. CASE UNCHANGED vars
  BY <1>t, <1>6 DEF vars, RequestsInv, Pending, ChatRoomKey, WritableMeansBound, processVars, requestVars
<1> QED
  BY <1>1, <1>2, <1>3, <1>4, <1>5, <1>6 DEF Next

\* What RequestDone does to the address of the request and to the others
LEMMA DoneEffect ==
    ASSUME IInv, NEW t \in Targets, RequestDone(t)
    PROVE  /\ requests' = [requests EXCEPT ![t] = Tail(@)]
           /\ \A s \in Targets \ {t} : bindings'[s] = bindings[s] /\ requests'[s] = requests[s]
           /\ UNCHANGED <<pc, mUuid, requested, failed>>
           /\ \/ /\ t \in Factories /\ Legacy \notin bindings'[t]
                 /\ requests'[t] = <<Bind(mUuid)>> /\ UNCHANGED contactAddress
              \/ /\ t \in Factories \cup Foci /\ requests[t] = <<Bind(mUuid)>>
                 /\ bindings'[t] = bindings[t] \cup {mUuid} /\ requests'[t] = <<>>
                 /\ (pc = "failing" /\ UNCHANGED contactAddress) \/ OnRecordFound(t, mUuid)
              \/ /\ t \in ChatRooms /\ bindings'[t] = bindings[t] \cup {ChatRoomKey(t)}
                 /\ requests'[t] = <<>>
                 /\ UNCHANGED contactAddress \/ OnRecordFound(t, ChatRoomKey(t))
<1>t. TypeOK
  BY DEF IInv
<1>1. /\ requests[t] # <<>> /\ requests' = [requests EXCEPT ![t] = Tail(@)]
      /\ UNCHANGED <<pc, mUuid, requested, failed>>
  BY DEF RequestDone
<1>2. requests'[t] = Tail(requests[t]) /\ \A s \in Targets \ {t} : requests'[s] = requests[s]
  BY <1>t, <1>1 DEF TypeOK
<1>3. CASE /\ Head(requests[t]).op = "bind"
           /\ bindings' = [bindings EXCEPT ![t] = @ \cup {Head(requests[t]).key}]
           /\ \/ pc = "failing" /\ UNCHANGED contactAddress
              \/ OnRecordFound(t, Head(requests[t]).key)
  <2>1. /\ bindings'[t] = bindings[t] \cup {Head(requests[t]).key}
        /\ \A s \in Targets \ {t} : bindings'[s] = bindings[s]
    BY <1>t, <1>3 DEF TypeOK
  <2>2. requests'[t] = <<>>
    BY <1>1, <1>2, <1>3, ExecutedKey
  <2>3. CASE t \in Factories \cup Foci
    <3>1. Head(requests[t]).key = mUuid
      BY <1>1, <1>3, <2>3, ExecutedKey
    <3>2. requests[t] = <<Bind(mUuid)>>
      BY <1>1, <1>3, <2>3, Executing, RequestsDiffer, DisjointTargets
    <3> QED
      BY <1>1, <1>2, <1>3, <2>1, <2>2, <2>3, <3>1, <3>2
  <2>4. CASE t \in ChatRooms
    BY <1>1, <1>2, <1>3, <2>1, <2>2, <2>4, ExecutedKey
  <2> QED
    BY <2>3, <2>4 DEF Targets
<1>4. CASE /\ Head(requests[t]).op = "clear"
           /\ \E kept \in {{}, bindings[t] \ {Legacy}} : bindings' = [bindings EXCEPT ![t] = kept]
           /\ UNCHANGED contactAddress
  <2>1. Legacy \notin bindings'[t] /\ \A s \in Targets \ {t} : bindings'[s] = bindings[s]
    BY <1>t, <1>4 DEF TypeOK
  <2>2. t \in Factories /\ Tail(requests[t]) = <<Bind(mUuid)>>
    BY <1>1, <1>4, Executing, RequestsDiffer
  <2> QED
    BY <1>1, <1>2, <1>4, <2>1, <2>2
<1> QED
  BY <1>3, <1>4 DEF RequestDone

(* What was executed has had its effect, unless it failed. *)
LEMMA NextDoneInv == IInv /\ [Next]_vars => DoneInv'
<1> SUFFICES ASSUME IInv, [Next]_vars PROVE DoneInv'
  OBVIOUS
<1>t. TypeOK /\ DoneInv /\ RequestsInv /\ QuietInv
  BY DEF IInv
<1>a. ASSUME AllAsked, UNCHANGED mUuid PROVE DoneInv'
  <2> SUFFICES ASSUME NEW t \in Wanted PROVE Done(t)'
    BY <1>a DEF AllAsked, DoneInv
  <2>1. t \in Targets /\ requests'[t] = NewRequests[t]
    BY <1>a DEF AllAsked, Asked
  <2> QED
    BY <1>a, <2>1, NewRequestsAre, RequestsDiffer DEF Done
<1>b. ASSUME NothingLeftToBind, pc = "running", UNCHANGED <<mUuid, contactAddress, bindings, failed>>
      PROVE  DoneInv'
  BY <1>t, <1>b DEF NothingLeftToBind, DoneInv, Done, ChatRoomKey, requestVars
<1>1. CASE ReadUuid \/ StartCore \/ WriteUuid \/ CloseUuidFile \/ Exit
  BY <1>1 DEF ReadUuid, StartCore, WriteUuid, CloseUuidFile, Exit, DoneInv
<1>2. CASE Listen
  <2>1. ~mAddressesBound /\ requested = {}
    BY <1>t, <1>2 DEF Listen, QuietInv, Quiet
  <2>2. CASE writable
    BY <1>2, <2>1, <2>2, <1>a, BindingEnds DEF Listen, IInv, NothingLeftToBind, SomeAsked, DoneInv
  <2>3. CASE ~writable
    BY <1>2, <2>1, <2>3 DEF Listen, DoneInv, requestVars
  <2> QED
    BY <2>2, <2>3
<1>3. CASE WritableChanges
  <2>1. CASE writable' /\ pc = "running"
    BY <1>3, <2>1, <1>a, <1>b, BindingEnds DEF WritableChanges, IInv, SomeAsked, DoneInv
  <2>2. CASE ~(writable' /\ pc = "running")
    BY <1>t, <1>3, <2>2 DEF WritableChanges, DoneInv, Done, ChatRoomKey, requestVars
  <2> QED
    BY <2>1, <2>2
<1>4. ASSUME NEW t \in Targets, RequestDone(t) PROVE DoneInv'
  <2> SUFFICES ASSUME pc = "running", NEW s \in requested \ failed PROVE Done(s)'
    BY <1>4, DoneEffect DEF DoneInv
  <2>1. Done(s) /\ ChatRoomKey(s)' = ChatRoomKey(s) /\ mUuid' = mUuid /\ s \in Targets
    BY <1>t, <1>4, DoneEffect DEF DoneInv, ChatRoomKey, TypeOK
  <2>2. CASE s # t
    <3>1. bindings'[s] = bindings[s] /\ requests'[s] = requests[s]
      BY <1>4, <2>1, <2>2, DoneEffect
    <3>2. s \in Foci => contactAddress'[s] = contactAddress[s]
      BY <1>4, <2>2, DoneEffect DEF OnRecordFound
    <3> QED
      BY <2>1, <3>1, <3>2 DEF Done
  <2>3. CASE s = t
    <3>1. mUuid # Legacy
      BY <1>4, Executing, LegacyIsNoUuid DEF RequestDone
    <3>2. CASE t \in Factories
      <4>1. t \notin Foci /\ t \notin ChatRooms
        BY <3>2, DisjointTargets
      <4>2. CASE Legacy \notin bindings'[t] /\ requests'[t] = <<Bind(mUuid)>>
        BY <2>1, <2>3, <4>1, <4>2, RequestsDiffer DEF Done
      <4>3. CASE /\ requests[t] = <<Bind(mUuid)>> /\ requests'[t] = <<>>
                 /\ bindings'[t] = bindings[t] \cup {mUuid}
        <5>1. Legacy \notin bindings[t]
          BY <2>1, <2>3, <3>2, <4>3 DEF Done
        <5> QED
          BY <2>1, <2>3, <3>1, <4>1, <4>3, <5>1 DEF Done
      <4> QED
        BY <1>4, <4>1, <4>2, <4>3, DoneEffect
    <3>3. CASE t \in Foci
      <4>1. /\ t \notin Factories /\ t \notin ChatRooms /\ requests'[t] = <<>>
            /\ bindings'[t] = bindings[t] \cup {mUuid} /\ OnRecordFound(t, mUuid)
        BY <1>4, <3>3, DoneEffect, DisjointTargets
      <4>2. contactAddress'[t] = mUuid
        BY <3>3, <4>1 DEF OnRecordFound
      <4> QED
        BY <2>1, <2>3, <4>1, <4>2 DEF Done
    <3>4. CASE t \in ChatRooms
      BY <1>4, <2>1, <2>3, <3>4, DoneEffect, DisjointTargets DEF Done
    <3> QED
      BY <3>2, <3>3, <3>4 DEF Targets
  <2> QED
    BY <2>2, <2>3
<1>5. ASSUME NEW t \in Targets, FocusNotRecorded(t) PROVE DoneInv'
  BY <1>5 DEF FocusNotRecorded, DoneInv
<1>6. ASSUME NEW t \in Targets, RequestFails(t) PROVE DoneInv'
  <2>1. \A s \in Targets \ {t} : requests'[s] = requests[s]
    BY <1>t, <1>6 DEF RequestFails, TypeOK
  <2> QED
    BY <1>t, <1>6, <2>1 DEF RequestFails, DoneInv, Done, ChatRoomKey, TypeOK, processVars
<1>7. CASE UNCHANGED vars
  BY <1>t, <1>7 DEF vars, DoneInv, Done, ChatRoomKey, processVars, requestVars
<1> QED
  BY <1>1, <1>2, <1>3, <1>4, <1>5, <1>6, <1>7 DEF Next

(* The contact addresses: only foci have one, and nothing unbinds a focus. *)
LEMMA NextContactInv == IInv /\ [Next]_vars => ContactAddressIsBound'
<1> SUFFICES ASSUME IInv, [Next]_vars PROVE ContactAddressIsBound'
  OBVIOUS
<1>t. TypeOK /\ QuietInv /\ ContactAddressIsBound
  BY DEF IInv
<1>1. CASE ReadUuid \/ StartCore \/ WriteUuid \/ CloseUuidFile \/ Exit
  <2>1. \A f \in Foci : contactAddress'[f] = None
    BY <1>t, <1>1 DEF ReadUuid, StartCore, WriteUuid, CloseUuidFile, Exit, QuietInv, Quiet, processVars
  <2> QED
    BY <2>1 DEF ContactAddressIsBound
<1>2. CASE Listen \/ WritableChanges
  BY <1>t, <1>2 DEF Listen, WritableChanges, ContactAddressIsBound
<1>3. ASSUME NEW t \in Targets, RequestDone(t) PROVE ContactAddressIsBound'
  <2> SUFFICES ASSUME NEW f \in Foci, contactAddress'[f] # None
               PROVE  contactAddress'[f] = mUuid /\ mUuid \in bindings'[f]
    BY <1>3, DoneEffect DEF ContactAddressIsBound
  <2>1. f \in Targets
    BY DEF Targets
  <2>2. CASE f = t
    <3>1. bindings'[t] = bindings[t] \cup {mUuid}
      BY <1>3, <2>2, DoneEffect, DisjointTargets
    <3>2. UNCHANGED contactAddress \/ OnRecordFound(t, mUuid)
      BY <1>3, <2>2, DoneEffect, DisjointTargets
    <3> QED
      BY <1>t, <2>2, <3>1, <3>2 DEF OnRecordFound, ContactAddressIsBound
  <2>3. CASE f # t
    <3>1. bindings'[f] = bindings[f]
      BY <1>3, <2>1, <2>3, DoneEffect
    <3>2. contactAddress'[f] = contactAddress[f]
      BY <1>3, <2>3, DoneEffect DEF OnRecordFound
    <3> QED
      BY <1>t, <3>1, <3>2 DEF ContactAddressIsBound
  <2> QED
    BY <2>2, <2>3
<1>4. ASSUME NEW t \in Targets, FocusNotRecorded(t) PROVE ContactAddressIsBound'
  <2>1. \A s \in Targets : bindings[s] \subseteq bindings'[s]
    BY <1>t, <1>4 DEF FocusNotRecorded, TypeOK
  <2> QED
    BY <1>t, <1>4, <2>1 DEF FocusNotRecorded, ContactAddressIsBound, processVars, Targets
<1>5. ASSUME NEW t \in Targets, RequestFails(t) PROVE ContactAddressIsBound'
  BY <1>t, <1>5 DEF RequestFails, ContactAddressIsBound, processVars
<1>6. CASE UNCHANGED vars
  BY <1>t, <1>6 DEF vars, ContactAddressIsBound, processVars
<1> QED
  BY <1>1, <1>2, <1>3, <1>4, <1>5, <1>6 DEF Next

LEMMA Inductive == Spec => []IInv
<1>1. IInv /\ [Next]_vars => IInv'
  BY NextTypeOK, NextUuidInv, NextQuietInv, NextRequestsInv, NextDoneInv, NextContactInv DEF IInv
<1> QED
  BY InitIInv, <1>1, PTL DEF Spec

-----------------------------------------------------------------------------
(* Every variable keeps its type: the requests under way are well formed, and *)
(* no contact address is that of another server                               *)
(* (conference-server.cc:373-395).                                            *)
THEOREM Typing == Spec => []TypeOK
<1>1. IInv => TypeOK
  BY DEF IInv
<1> QED
  BY Inductive, <1>1, PTL

(* Wherever a process exits, the instances bound to a focus are the one of the *)
(* file and those a file operation failed for: one that did not open to be     *)
(* read or written, or was left empty (conference-server.cc:118-119,266-271,   *)
(* 827-857).                                                                   *)
THEOREM RestartsKeepTheInstance == Spec => []BoundUuidIsPersisted
<1>1. IInv => BoundUuidIsPersisted
  BY DEF IInv, UuidInv
<1> QED
  BY Inductive, <1>1, PTL

(* A running server with a writable registrar has bound its addresses          *)
(* (conference-server.cc:271,342-344).                                         *)
THEOREM WritableServersAreBound == Spec => []WritableMeansBound
<1>1. IInv => WritableMeansBound
  BY DEF IInv, RequestsInv
<1> QED
  BY Inductive, <1>1, PTL

(* A running server asked for all its addresses or for none                    *)
(* (conference-server.cc:373-395,430-432,512).                                 *)
THEOREM NoAddressIsLeftOut == Spec => []RunningIsAllOrNothing
<1>1. IInv => RunningIsAllOrNothing
  BY DEF IInv, RequestsInv, RunningIsAllOrNothing
<1> QED
  BY Inductive, <1>1, PTL

(* The factories, foci and chat rooms whose requests were executed lead to     *)
(* this server (conference-server.cc:387-391,426-429,496-497).                 *)
THEOREM ExecutedRequestsBind == Spec => []SettledAddressesAreBound
<1>1. ASSUME IInv PROVE SettledAddressesAreBound
  <2> SUFFICES ASSUME pc = "running", mAddressesBound, NEW t \in Targets, requests[t] = <<>>, t \notin failed
               PROVE  /\ t \in Factories => mUuid \in bindings[t] /\ Legacy \notin bindings[t]
                      /\ t \in Foci => mUuid \in bindings[t] /\ contactAddress[t] = mUuid
                      /\ t \in ChatRooms /\ TextEnabled => ChatRoomKey(t) \in bindings[t]
    BY DEF SettledAddressesAreBound
  <2>1. requested = Wanted
    BY <1>1 DEF IInv, RequestsInv
  <2>2. t \in Wanted => Done(t)
    BY <1>1, <2>1 DEF IInv, DoneInv
  <2> QED
    BY <2>2 DEF Done, Wanted
<1> QED
  BY Inductive, <1>1, PTL

(* A contact address names this server, and the registrar routes it            *)
(* (conference-server.cc:218-221,441-453).                                     *)
THEOREM ContactsAreRouted == Spec => []ContactAddressIsBound
<1>1. IInv => ContactAddressIsBound
  BY DEF IInv
<1> QED
  BY Inductive, <1>1, PTL

(* A process makes its requests for an address once, however often the         *)
(* registrar comes and goes (conference-server.cc:374,394,427).                *)
THEOREM BoundOnce == Spec => RequestedOnce
<1>1. ASSUME IInv, [Next]_vars, NEW t \in Targets, t \in requested
      PROVE  ~(Len(requests'[t]) > Len(requests[t]))
  <2>t. TypeOK /\ QuietInv /\ RequestsInv
    BY <1>1 DEF IInv
  <2>n. Len(requests[t]) \in Nat
    BY <2>t, LenProperties DEF TypeOK
  <2>1. ASSUME requests'[t] = requests[t] PROVE ~(Len(requests'[t]) > Len(requests[t]))
    BY <2>n, <2>1
  <2>2. CASE ReadUuid \/ StartCore \/ WriteUuid \/ CloseUuidFile \/ UNCHANGED vars
    BY <2>1, <2>2 DEF ReadUuid, StartCore, WriteUuid, CloseUuidFile, vars, processVars, requestVars
  <2>3. CASE Exit
    <3>1. requests'[t] = <<>>
      BY <2>3 DEF Exit
    <3> QED
      BY <2>n, <3>1, EmptySeq
  <2>4. CASE Listen
    BY <1>1, <2>t, <2>4 DEF Listen, QuietInv, Quiet
  <2>5. CASE WritableChanges
    <3>1. CASE writable' /\ pc = "running"
      BY <1>1, <2>1, <2>5, <3>1, BindingEnds
      DEF WritableChanges, IInv, NothingLeftToBind, AllAsked, SomeAsked, Asked, requestVars
    <3>2. CASE ~(writable' /\ pc = "running")
      BY <2>1, <2>5, <3>2 DEF WritableChanges, requestVars
    <3> QED
      BY <3>1, <3>2
  <2>6. ASSUME NEW s \in Targets, RequestDone(s) \/ FocusNotRecorded(s) \/ RequestFails(s)
        PROVE  ~(Len(requests'[t]) > Len(requests[t]))
    <3>1. requests[s] # <<>> /\ requests' = [requests EXCEPT ![s] = Tail(@)]
      BY <2>6 DEF RequestDone, FocusNotRecorded, RequestFails
    <3>2. CASE s = t
      <4>1. requests'[t] = Tail(requests[t])
        BY <2>t, <3>1, <3>2 DEF TypeOK
      <4>2. Tail(requests[t]) \in Seq(Request) /\ Len(Tail(requests[t])) < Len(requests[t])
        BY <1>1, <3>1, <3>2, Executing
      <4>3. Len(Tail(requests[t])) \in Nat
        BY <4>2, LenProperties
      <4> QED
        BY <2>n, <4>1, <4>2, <4>3
    <3>3. CASE s # t
      BY <2>1, <2>t, <3>1, <3>3 DEF TypeOK
    <3> QED
      BY <3>2, <3>3
  <2> QED
    BY <1>1, <2>2, <2>3, <2>4, <2>5, <2>6 DEF Next
<1>2. IInv /\ [Next]_vars =>
        [\A t \in Targets : Len(requests'[t]) > Len(requests[t]) => t \notin requested]_vars
  BY <1>1
<1> QED
  BY Inductive, <1>2, PTL DEF Spec, RequestedOnce

\* The uuid of the file is replaced, or the file emptied, only if it is lost.
IdentityIsKept == [][uuidFile # None /\ uuidFile' # uuidFile => uuidFile \in lost]_vars

(* No exit, wherever it comes, and no restart makes the server empty or        *)
(* replace a uuid file that has a uuid, unless a start could not open it to    *)
(* read, or could not write this very uuid earlier                             *)
(* (conference-server.cc:827-857).                                             *)
THEOREM TheFileIsKept == Spec => IdentityIsKept
<1>1. ASSUME IInv, [Next]_vars, uuidFile # None PROVE uuidFile' = uuidFile \/ uuidFile \in lost
  <2>1. UuidInv
    BY <1>1 DEF IInv
  <2>2. CASE WriteUuid
    BY <1>1, <2>1, <2>2 DEF WriteUuid, UuidInv, Read
  <2>3. CASE CloseUuidFile
    BY <1>1, <2>1, <2>3 DEF CloseUuidFile, UuidInv
  <2> QED
    BY <1>1, <2>2, <2>3 DEF Next, ReadUuid, StartCore, Listen, Exit, WritableChanges, RequestDone,
       FocusNotRecorded, RequestFails, vars
<1>2. IInv /\ [Next]_vars => [uuidFile # None /\ uuidFile' # uuidFile => uuidFile \in lost]_vars
  BY <1>1
<1> QED
  BY Inductive, <1>2, PTL DEF Spec, IdentityIsKept
=============================================================================
