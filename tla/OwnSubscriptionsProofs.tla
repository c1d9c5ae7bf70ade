------------------------- MODULE OwnSubscriptionsProofs -------------------------
(***************************************************************************)
(* Safety theorems about OwnSubscriptions, for any objects, chat rooms,      *)
(* participants, devices and numbers of changes.                             *)
(*                                                                           *)
(* The invariant is about the answers an active subscription waits for:      *)
(* those already read are in the order of the records, between what the chat *)
(* room has and what the registrar has, and the last one is not outdated.    *)
(***************************************************************************)
EXTENDS OwnSubscriptions, SequenceTheorems, TLAPS

Answer == [uid : Devices \cup {Null}, record : Record \cup {Null}]

\* Started objects, and only they, are subscribed, each for a pair of its own.
ObjectsInv ==
    /\ listeners = {o \in Objects : mActive[o]}
    /\ \A o \in Objects : mActive[o] \/ pending[o] # <<>> => owner[o] \in Pairs
    /\ \A o, q \in Objects : mActive[o] /\ mActive[q] /\ owner[o] = owner[q] => o = q

RoomsInv == \A p \in Pairs : roomDevices[p].version <= bindings[p[2]].version

\* The answers already read come first, in the order of their versions.
InOrder(o) ==
    \A i \in 1..Len(pending[o]) : pending[o][i].record # Null =>
        /\ roomDevices[owner[o]].version <= pending[o][i].record.version
        /\ pending[o][i].record.version <= bindings[owner[o][2]].version
        /\ \A j \in 1..(i - 1) :
             /\ pending[o][j].record # Null
             /\ pending[o][j].record.version <= pending[o][i].record.version

\* The last answer, or the chat room when there is none, is not outdated.
UpToDate(o) ==
    /\ pending[o] # <<>> =>
         pending[o][Len(pending[o])].record \in {Null, bindings[owner[o][2]]}
    /\ pending[o] = <<>> /\ ~missed[o] => Current(o)

AnswersInv == \A o \in Objects : mActive[o] => InOrder(o) /\ UpToDate(o)

IInv == TypeOK /\ ObjectsInv /\ RoomsInv /\ AnswersInv /\ PingsAreForGivenDevices

\* The steps of any specification over these objects: several may stop at once.
Step ==
    \/ \E o \in Objects, p \in Pairs :
         (\A q \in Objects : mActive[q] => owner[q] # p) /\ Start(o, p)
    \/ \E objects \in SUBSET Objects : Stop(objects)
    \/ RegistrarNext

-----------------------------------------------------------------------------
(* The filter *)

LEMMA CompatibleIsASubset ==
    ASSUME NEW r, NEW devices
    PROVE  Compatible(r, devices) \subseteq devices
  BY DEF Compatible

LEMMA CompatibleGrows ==
    ASSUME NEW r, NEW few, NEW many, few \subseteq many
    PROVE  Compatible(r, few) \subseteq Compatible(r, many)
  BY DEF Compatible

\* What a chat room is given of a record
LEMMA FilteredRecord ==
    ASSUME NEW record \in Record, NEW r
    PROVE  /\ [record EXCEPT !.devices = Compatible(r, @)] \in Record
           /\ [record EXCEPT !.devices = Compatible(r, @)].version = record.version
           /\ [record EXCEPT !.devices = Compatible(r, @)].devices = Compatible(r, record.devices)
<1>1. Compatible(r, record.devices) \subseteq Devices
  BY CompatibleIsASubset DEF Record
<1> QED
  BY <1>1 DEF Record

-----------------------------------------------------------------------------
(* Answers *)

\* The answers of an object are a sequence, and those after the first its tail.
LEMMA PendingAnswers ==
    ASSUME TypeOK, NEW o \in Objects
    PROVE  /\ pending[o] \in Seq(Answer) /\ Len(pending[o]) \in Nat
           /\ \A i \in 1..Len(pending[o]) : pending[o][i].record \in Record \cup {Null}
           /\ pending[o] # <<>> =>
                /\ Len(pending[o]) > 0 /\ Head(pending[o]) = pending[o][1]
                /\ Tail(pending[o]) \in Seq(Answer) /\ Len(Tail(pending[o])) = Len(pending[o]) - 1
                /\ \A i \in 1..Len(Tail(pending[o])) : Tail(pending[o])[i] = pending[o][i + 1]
<1>1. pending[o] \in Seq(Answer)
  BY DEF TypeOK, Answer
<1>2. Len(pending[o]) \in Nat /\ pending[o] \in [1..Len(pending[o]) -> Answer]
  BY <1>1, LenProperties
<1>3. \A i \in 1..Len(pending[o]) : pending[o][i].record \in Record \cup {Null}
  BY <1>2 DEF Answer
<1>4. pending[o] # <<>> =>
        /\ Len(pending[o]) > 0
        /\ Tail(pending[o]) \in Seq(Answer) /\ Len(Tail(pending[o])) = Len(pending[o]) - 1
        /\ \A i \in 1..Len(Tail(pending[o])) : Tail(pending[o])[i] = pending[o][i + 1]
  BY <1>1, EmptySeq, HeadTailProperties
<1>5. pending[o] # <<>> => Head(pending[o]) = pending[o][1]
  BY <1>1
<1> QED
  BY <1>1, <1>2, <1>3, <1>4, <1>5

\* Versions can be compared.
LEMMA VersionsAreNat ==
    ASSUME TypeOK
    PROVE  /\ \A a \in Aors : bindings[a] \in Record /\ bindings[a].version \in Nat
           /\ \A p \in Pairs : roomDevices[p] \in Record /\ roomDevices[p].version \in Nat
           /\ \A record \in Record : record.version \in Nat
  BY DEF TypeOK, Record

\* An object that nothing touches keeps what it had.
LEMMA Untouched ==
    ASSUME NEW o \in Objects, InOrder(o), UpToDate(o),
           pending'[o] = pending[o], owner'[o] = owner[o], missed'[o] = missed[o],
           bindings'[owner[o][2]] = bindings[owner[o][2]],
           roomDevices'[owner[o]] = roomDevices[owner[o]]
    PROVE  InOrder(o)' /\ UpToDate(o)'
<1>1. InOrder(o)'
  BY DEF InOrder
<1>2. Current(o)' <=> Current(o)
  BY DEF Current
<1> QED
  BY <1>1, <1>2 DEF UpToDate

\* An answer that was processed, or that failed, leaves the next ones in order.
LEMMA Consumed ==
    ASSUME TypeOK, NEW o \in Objects, InOrder(o), UpToDate(o), owner[o] \in Pairs,
           pending[o] # <<>>, pending'[o] = Tail(pending[o]), UNCHANGED <<owner, bindings>>,
           \/ roomDevices'[owner[o]] = roomDevices[owner[o]]
           \/ /\ Head(pending[o]).record # Null
              /\ roomDevices'[owner[o]].version = Head(pending[o]).record.version
    PROVE  /\ InOrder(o)'
           /\ pending'[o] # <<>> =>
                pending'[o][Len(pending'[o])].record \in {Null, bindings[owner[o][2]]}
<1> DEFINE n == Len(pending[o]) - 1
<1>1. /\ Len(pending[o]) \in Nat /\ Len(pending[o]) > 0 /\ Len(pending'[o]) = n
      /\ \A i \in 1..n : pending'[o][i] = pending[o][i + 1]
      /\ Head(pending[o]) = pending[o][1]
  BY PendingAnswers
<1>2. ASSUME NEW i \in 1..n, pending[o][i + 1].record # Null
      PROVE  /\ roomDevices'[owner[o]].version <= pending[o][i + 1].record.version
             /\ pending[o][i + 1].record.version <= bindings[owner[o][2]].version
             /\ \A j \in 1..(i - 1) :
                  /\ pending[o][j + 1].record # Null
                  /\ pending[o][j + 1].record.version <= pending[o][i + 1].record.version
  <2>1. i + 1 \in 1..Len(pending[o]) /\ 1 \in 1..((i + 1) - 1)
    BY <1>1
  <2>2. /\ roomDevices[owner[o]].version <= pending[o][i + 1].record.version
        /\ pending[o][i + 1].record.version <= bindings[owner[o][2]].version
        /\ \A j \in 1..((i + 1) - 1) :
             /\ pending[o][j].record # Null
             /\ pending[o][j].record.version <= pending[o][i + 1].record.version
    BY <1>2, <2>1 DEF InOrder
  <2>3. roomDevices'[owner[o]].version <= pending[o][i + 1].record.version
    BY <1>1, <2>1, <2>2
  <2>4. \A j \in 1..(i - 1) : j + 1 \in 1..((i + 1) - 1)
    BY <1>1
  <2> QED
    BY <2>2, <2>3, <2>4
<1>3. InOrder(o)'
  <2>1. ASSUME NEW i \in 1..n, NEW j \in 1..(i - 1) PROVE pending'[o][j] = pending[o][j + 1]
    BY <1>1
  <2> HIDE DEF n
  <2> QED
    BY <1>1, <1>2, <2>1 DEF InOrder
<1>4. ASSUME pending'[o] # <<>>
      PROVE  pending'[o][Len(pending'[o])].record \in {Null, bindings[owner[o][2]]}
  <2>1. Len(pending'[o]) > 0
    BY <1>4, PendingAnswers, EmptySeq
  <2>2. pending'[o][Len(pending'[o])] = pending[o][Len(pending[o])]
    BY <1>1, <2>1
  <2> QED
    BY <2>2 DEF UpToDate
<1> QED
  BY <1>3, <1>4

\* The first answer of an object is taken from those it waits for.
LEMMA TailType ==
    ASSUME TypeOK, NEW o \in Objects, pending[o] # <<>>,
           pending' = [pending EXCEPT ![o] = Tail(@)]
    PROVE  /\ pending'[o] = Tail(pending[o])
           /\ \A q \in Objects \ {o} : pending'[q] = pending[q]
           /\ pending' \in [Objects -> Seq(Answer)]
<1>1. Tail(pending[o]) \in Seq(Answer)
  BY PendingAnswers
<1> QED
  BY <1>1 DEF TypeOK, Answer

-----------------------------------------------------------------------------
(* The invariant *)

LEMMA InitIInv == Init => IInv
<1> SUFFICES ASSUME Init PROVE IInv
  OBVIOUS
<1>1. bindings \in [Aors -> Record]
  BY DEF Init, Record
<1>2. pending \in [Objects -> Seq(Answer)]
  BY EmptySeq DEF Init
<1>3. roomDevices \in [Pairs -> Record]
  BY DEF Init, Record, NotTold
<1>4. TypeOK
  BY <1>1, <1>2, <1>3 DEF Init, TypeOK, Answer
<1>5. ObjectsInv
  BY DEF Init, ObjectsInv
<1>6. RoomsInv
  BY <1>4, VersionsAreNat DEF Init, RoomsInv, NotTold, Pairs
<1>7. AnswersInv /\ PingsAreForGivenDevices
  BY DEF Init, AnswersInv, PingsAreForGivenDevices
<1> QED
  BY <1>4, <1>5, <1>6, <1>7 DEF IInv

(* A start: the object waits for its fetch, and the registrar lists it. *)
LEMMA StartKeeps ==
    ASSUME IInv, NEW o \in Objects, NEW p \in Pairs, Start(o, p),
           \A q \in Objects : mActive[q] => owner[q] # p
    PROVE  IInv'
<1>t. TypeOK /\ ObjectsInv /\ RoomsInv /\ AnswersInv
  BY DEF IInv
<1>1. /\ ~mActive[o] /\ pending[o] = <<>>
      /\ pending' = [pending EXCEPT ![o] = Append(@, Asked(Null))]
  BY DEF Start, Free
<1>2. /\ pending'[o] = <<Asked(Null)>> /\ Asked(Null) \in Answer
      /\ \A q \in Objects \ {o} : pending'[q] = pending[q]
  BY <1>t, <1>1 DEF TypeOK, Asked, Answer
<1>3. TypeOK'
  <2>1. pending' \in [Objects -> Seq(Answer)]
    <3>1. Append(pending[o], Asked(Null)) \in Seq(Answer)
      BY <1>1, <1>2, EmptySeq, AppendProperties
    <3> QED
      BY <1>t, <1>1, <3>1 DEF TypeOK, Answer
  <2> QED
    BY <1>t, <2>1 DEF Start, TypeOK, Answer
<1>4. ObjectsInv'
  <2>1. listeners' = {q \in Objects : mActive'[q]}
    BY <1>t DEF Start, ObjectsInv, TypeOK
  <2>2. \A q \in Objects : mActive'[q] \/ pending'[q] # <<>> => owner'[q] \in Pairs
    <3> SUFFICES ASSUME NEW q \in Objects, mActive'[q] \/ pending'[q] # <<>> PROVE owner'[q] \in Pairs
      OBVIOUS
    <3>1. q = o => owner'[q] = p
      BY <1>t DEF Start, TypeOK
    <3>2. q # o => owner'[q] = owner[q] /\ mActive'[q] = mActive[q] /\ pending'[q] = pending[q]
      BY <1>t, <1>2 DEF Start, TypeOK
    <3> QED
      BY <1>t, <3>1, <3>2 DEF ObjectsInv
  <2>3. \A q, s \in Objects : mActive'[q] /\ mActive'[s] /\ owner'[q] = owner'[s] => q = s
    BY <1>t DEF Start, ObjectsInv, TypeOK
  <2> QED
    BY <2>1, <2>2, <2>3 DEF ObjectsInv
<1>5. RoomsInv'
  BY <1>t DEF Start, RoomsInv
<1>6. AnswersInv'
  <2> SUFFICES ASSUME NEW q \in Objects, mActive'[q] PROVE InOrder(q)' /\ UpToDate(q)'
    BY DEF AnswersInv
  <2>1. CASE q = o
    <3>1. Len(pending'[q]) = 1 /\ pending'[q][1].record = Null /\ pending'[q] # <<>>
      <4>1. Asked(Null).record = Null
        BY DEF Asked
      <4>2. /\ Len(<<Asked(Null)>>) = 1 /\ <<Asked(Null)>>[1] = Asked(Null)
            /\ <<Asked(Null)>> # <<>>
        OBVIOUS
      <4> QED
        BY <1>2, <2>1, <4>1, <4>2
    <3>2. InOrder(q)'
      <4>1. \A i \in 1..Len(pending'[q]) : pending'[q][i].record = Null
        BY <3>1
      <4> QED
        BY <4>1 DEF InOrder
    <3> QED
      BY <3>1, <3>2 DEF UpToDate
  <2>2. CASE q # o
    <3>1. mActive[q] /\ owner'[q] = owner[q] /\ missed'[q] = missed[q] /\ UNCHANGED <<bindings, roomDevices>>
      BY <1>t, <2>2 DEF Start, TypeOK
    <3>2. InOrder(q) /\ UpToDate(q) /\ pending'[q] = pending[q]
      BY <1>t, <1>2, <2>2, <3>1 DEF AnswersInv
    <3> QED
      BY <3>1, <3>2, Untouched
  <2> QED
    BY <2>1, <2>2
<1>7. PingsAreForGivenDevices'
  BY DEF Start, PingsAreForGivenDevices
<1> QED
  BY <1>3, <1>4, <1>5, <1>6, <1>7 DEF IInv

(* A stop: no other active object is of the pairs that are told nothing more. *)
LEMMA StopKeeps ==
    ASSUME IInv, NEW objects \in SUBSET Objects, Stop(objects)
    PROVE  IInv'
<1>t. TypeOK /\ ObjectsInv /\ RoomsInv /\ AnswersInv
  BY DEF IInv
<1> DEFINE stopped == {o \in objects : mActive[o]}
           rooms == {owner[o] : o \in stopped}
<1>1. /\ mActive' = [o \in Objects |-> mActive[o] /\ o \notin stopped]
      /\ listeners' = listeners \ stopped
      /\ roomDevices' = [p \in Pairs |-> IF p \in rooms THEN NotTold ELSE roomDevices[p]]
      /\ pings' = {}
      /\ UNCHANGED <<bindings, pending, owner, missed>>
  BY DEF Stop
<1>2. NotTold \in Record /\ NotTold.version = 0
  BY DEF NotTold, Record
<1>3. TypeOK'
  <2>1. mActive' \in [Objects -> BOOLEAN]
    BY <1>1
  <2>2. roomDevices' \in [Pairs -> Record]
    BY <1>t, <1>1, <1>2 DEF TypeOK
  <2>3. listeners' \subseteq Objects
    BY <1>t, <1>1 DEF TypeOK
  <2> QED
    BY <1>t, <1>1, <2>1, <2>2, <2>3 DEF TypeOK
<1>4. ObjectsInv'
  <2>1. \A o \in Objects : mActive'[o] <=> mActive[o] /\ o \notin stopped
    BY <1>1
  <2>2. listeners' = {o \in Objects : mActive'[o]}
    BY <1>t, <1>1, <2>1 DEF ObjectsInv
  <2> QED
    BY <1>t, <1>1, <2>1, <2>2 DEF ObjectsInv
<1>5. RoomsInv'
  BY <1>t, <1>1, <1>2, VersionsAreNat DEF RoomsInv, Pairs
<1>6. AnswersInv'
  <2> SUFFICES ASSUME NEW q \in Objects, mActive'[q] PROVE InOrder(q)' /\ UpToDate(q)'
    BY DEF AnswersInv
  <2>1. mActive[q] /\ q \notin stopped
    BY <1>1
  <2>2. owner[q] \in Pairs /\ owner[q] \notin rooms
    BY <1>t, <2>1 DEF ObjectsInv
  <2>3. roomDevices'[owner[q]] = roomDevices[owner[q]]
    BY <1>1, <2>2
  <2> QED
    BY <1>t, <1>1, <2>1, <2>3, Untouched DEF AnswersInv
<1>7. PingsAreForGivenDevices'
  BY <1>1 DEF PingsAreForGivenDevices
<1> QED
  BY <1>3, <1>4, <1>5, <1>6, <1>7 DEF IInv

(* An answer: what it brings is at least as new as what the chat room has. *)
LEMMA AnswerKeeps ==
    ASSUME IInv, NEW o \in Objects, AnswerReceived(o)
    PROVE  IInv'
<1>t. TypeOK /\ ObjectsInv /\ RoomsInv /\ AnswersInv
  BY DEF IInv
<1> DEFINE record == Head(pending[o]).record
           given == [record EXCEPT !.devices = Compatible(owner[o][1], @)]
<1>1. /\ pending[o] # <<>> /\ record # Null
      /\ pending' = [pending EXCEPT ![o] = Tail(@)]
      /\ UNCHANGED <<bindings, listeners, owner, mActive>>
  BY DEF AnswerReceived
<1>2. /\ pending'[o] = Tail(pending[o]) /\ pending' \in [Objects -> Seq(Answer)]
      /\ \A q \in Objects \ {o} : pending'[q] = pending[q]
  BY <1>t, <1>1, TailType
<1>3. Len(pending[o]) > 0 /\ Len(pending[o]) \in Nat /\ record = pending[o][1].record /\ record \in Record
  BY <1>t, <1>1, PendingAnswers
<1>4. owner[o] \in Pairs /\ owner[o][2] \in Aors
  BY <1>t, <1>1 DEF ObjectsInv, Pairs
<1>5. /\ given \in Record /\ given.version = record.version
      /\ given.devices = Compatible(owner[o][1], record.devices)
  BY <1>3, FilteredRecord
<1>6. ObjectsInv'
  BY <1>t, <1>1, <1>2, <1>4 DEF ObjectsInv
<1>7. CASE mActive[o]
  <2>1. /\ roomDevices' = [roomDevices EXCEPT ![owner[o]] = given]
        /\ missed' = [missed EXCEPT ![o] = FALSE]
        /\ pings' = Reported(o, Head(pending[o]))
    BY <1>7 DEF AnswerReceived, ProcessRecord
  <2>2. /\ roomDevices'[owner[o]] = given
        /\ \A p \in Pairs \ {owner[o]} : roomDevices'[p] = roomDevices[p]
    BY <1>t, <1>4, <2>1 DEF TypeOK
  <2>3. InOrder(o) /\ UpToDate(o)
    BY <1>t, <1>7 DEF AnswersInv
  <2>4. \A p \in Pairs, d \in Devices : <<p, d>> \in pings' =>
           p = owner[o] /\ d \in given.devices
    <3>1. Compatible(owner[o][1], record.devices \cap {Head(pending[o]).uid}) \subseteq given.devices
      BY <1>5, CompatibleGrows
    <3> QED
      BY <2>1, <3>1 DEF Reported
  <2>5. TypeOK'
    <3>1. roomDevices' \in [Pairs -> Record]
      BY <1>t, <1>4, <1>5, <2>1 DEF TypeOK
    <3>2. pings' \subseteq Pairs \X Devices
      <4> DEFINE found == Compatible(owner[o][1], record.devices \cap {Head(pending[o]).uid})
      <4>1. found \subseteq Devices
        BY <1>3, CompatibleIsASubset DEF Record
      <4>2. pings' = {<<owner[o], d>> : d \in found}
        BY <2>1 DEF Reported
      <4> HIDE DEF found
      <4> QED
        BY <1>4, <4>1, <4>2
    <3> QED
      BY <1>t, <1>1, <1>2, <2>1, <3>1, <3>2 DEF TypeOK, Answer
  <2>6. RoomsInv'
    <3>1. given.version <= bindings[owner[o][2]].version
      BY <1>1, <1>3, <1>5, <2>3 DEF InOrder
    <3> QED
      BY <1>t, <1>1, <2>2, <3>1 DEF RoomsInv
  <2>7. AnswersInv'
    <3> SUFFICES ASSUME NEW q \in Objects, mActive[q] PROVE InOrder(q)' /\ UpToDate(q)'
      BY <1>1 DEF AnswersInv
    <3>1. CASE q = o
      <4>1. /\ InOrder(o)'
            /\ pending'[o] # <<>> =>
                 pending'[o][Len(pending'[o])].record \in {Null, bindings[owner[o][2]]}
        <5> HIDE DEF given
        <5> QED
          BY <1>t, <1>1, <1>2, <1>4, <1>5, <2>2, <2>3, Consumed
      <4>2. ASSUME pending'[o] = <<>> PROVE Current(o)'
        <5>1. Len(pending[o]) = 1
          <6>1. Len(Tail(pending[o])) = 0 /\ Len(Tail(pending[o])) = Len(pending[o]) - 1
            BY <1>t, <1>1, <1>2, <4>2, PendingAnswers, EmptySeq
          <6> QED
            BY <1>3, <6>1
        <5>2. record = bindings[owner[o][2]]
          BY <1>1, <1>3, <2>3, <5>1 DEF UpToDate
        <5>3. given = [bindings[owner[o][2]] EXCEPT !.devices = Compatible(owner[o][1], @)]
          BY <5>2
        <5> HIDE DEF given, record
        <5> QED
          BY <1>1, <2>2, <5>3 DEF Current
      <4> QED
        BY <1>1, <3>1, <4>1, <4>2 DEF UpToDate
    <3>2. CASE q # o
      <4>1. owner[q] \in Pairs \ {owner[o]}
        BY <1>t, <1>7, <3>2 DEF ObjectsInv
      <4>2. missed'[q] = missed[q]
        BY <1>t, <2>1, <3>2 DEF TypeOK
      <4>3. InOrder(q) /\ UpToDate(q) /\ pending'[q] = pending[q]
        BY <1>t, <1>2, <3>2 DEF AnswersInv
      <4> QED
        BY <1>1, <2>2, <4>1, <4>2, <4>3, Untouched
    <3> QED
      BY <3>1, <3>2
  <2>8. PingsAreForGivenDevices'
    BY <1>1, <1>7, <2>2, <2>4 DEF PingsAreForGivenDevices
  <2> QED
    BY <1>6, <2>5, <2>6, <2>7, <2>8 DEF IInv
<1>8. CASE ~mActive[o]
  <2>1. pings' = {} /\ UNCHANGED <<roomDevices, missed>>
    BY <1>8 DEF AnswerReceived
  <2>2. TypeOK' /\ RoomsInv' /\ PingsAreForGivenDevices'
    BY <1>t, <1>1, <1>2, <2>1 DEF TypeOK, RoomsInv, PingsAreForGivenDevices, Answer
  <2>3. AnswersInv'
    BY <1>t, <1>1, <1>2, <1>8, <2>1, Untouched DEF AnswersInv
  <2> QED
    BY <1>6, <2>2, <2>3 DEF IInv
<1> QED
  BY <1>7, <1>8

(* An error: the answers after it are those that were after it. *)
LEMMA ErrorKeeps ==
    ASSUME IInv, NEW o \in Objects, ErrorReceived(o)
    PROVE  IInv'
<1>t. TypeOK /\ ObjectsInv /\ RoomsInv /\ AnswersInv
  BY DEF IInv
<1>1. /\ pending[o] # <<>> /\ pending' = [pending EXCEPT ![o] = Tail(@)]
      /\ missed' = [missed EXCEPT ![o] = TRUE] /\ pings' = {}
      /\ UNCHANGED <<bindings, listeners, owner, mActive, roomDevices>>
  BY DEF ErrorReceived
<1>2. /\ pending'[o] = Tail(pending[o]) /\ pending' \in [Objects -> Seq(Answer)]
      /\ \A q \in Objects \ {o} : pending'[q] = pending[q]
  BY <1>t, <1>1, TailType
<1>3. owner[o] \in Pairs
  BY <1>t, <1>1 DEF ObjectsInv
<1>4. ObjectsInv' /\ RoomsInv' /\ PingsAreForGivenDevices'
  BY <1>t, <1>1, <1>2, <1>3 DEF ObjectsInv, RoomsInv, PingsAreForGivenDevices
<1>5. TypeOK'
  BY <1>t, <1>1, <1>2 DEF TypeOK, Answer
<1>6. AnswersInv'
  <2> SUFFICES ASSUME NEW q \in Objects, mActive[q] PROVE InOrder(q)' /\ UpToDate(q)'
    BY <1>1 DEF AnswersInv
  <2>1. InOrder(q) /\ UpToDate(q)
    BY <1>t DEF AnswersInv
  <2>2. CASE q = o
    <3>1. /\ InOrder(o)'
          /\ pending'[o] # <<>> =>
               pending'[o][Len(pending'[o])].record \in {Null, bindings[owner[o][2]]}
      BY <1>t, <1>1, <1>2, <1>3, <2>1, <2>2, Consumed
    <3>2. missed'[o]
      BY <1>t, <1>1 DEF TypeOK
    <3> QED
      BY <1>1, <2>2, <3>1, <3>2 DEF UpToDate
  <2>3. CASE q # o
    <3>1. missed'[q] = missed[q] /\ pending'[q] = pending[q]
      BY <1>t, <1>1, <1>2, <2>3 DEF TypeOK
    <3> QED
      BY <1>1, <2>1, <3>1, Untouched
  <2> QED
    BY <2>2, <2>3
<1> QED
  BY <1>4, <1>5, <1>6 DEF IInv

(* A change of a record: the active objects it concerns wait for it. *)
LEMMA ChangeKeeps ==
    ASSUME IInv, NEW a \in Aors, NEW devices \in SUBSET Devices, NEW uid,
           BindingsChange(a, devices, uid)
    PROVE  IInv'
<1>t. TypeOK /\ ObjectsInv /\ RoomsInv /\ AnswersInv
  BY DEF IInv
<1> DEFINE changed == [devices |-> devices, version |-> bindings[a].version + 1]
           told == {o \in Objects : o \in listeners /\ owner[o][2] = a}
<1>1. /\ bindings' = [bindings EXCEPT ![a] = changed]
      /\ pending' = [o \in Objects |-> IF o \in told THEN Append(pending[o], Asked(uid)) ELSE pending[o]]
      /\ pings' = {} /\ UNCHANGED <<listeners, owner, mActive, missed, roomDevices>>
  BY DEF BindingsChange
<1>2. changed \in Record /\ changed.version = bindings[a].version + 1
  BY <1>t, VersionsAreNat DEF Record
<1>3. Asked(uid) \in Answer /\ Asked(uid).record = Null
  BY DEF BindingsChange, Asked, Answer
<1>4. ASSUME NEW o \in told
      PROVE  /\ pending'[o] \in Seq(Answer) /\ pending'[o] # <<>>
             /\ Len(pending'[o]) = Len(pending[o]) + 1
             /\ \A i \in 1..Len(pending[o]) : pending'[o][i] = pending[o][i]
             /\ pending'[o][Len(pending[o]) + 1] = Asked(uid)
  <2>1. pending[o] \in Seq(Answer) /\ pending'[o] = Append(pending[o], Asked(uid))
    BY <1>t, <1>1, PendingAnswers
  <2> QED
    BY <1>3, <2>1, AppendProperties
<1>5. bindings'[a] = changed /\ \A b \in Aors \ {a} : bindings'[b] = bindings[b]
  BY <1>t, <1>1 DEF TypeOK
<1>6. TypeOK'
  <2>1. bindings' \in [Aors -> Record]
    BY <1>t, <1>1, <1>2 DEF TypeOK
  <2>2. \A o \in Objects : pending'[o] \in Seq(Answer)
    <3> SUFFICES ASSUME NEW o \in Objects PROVE pending'[o] \in Seq(Answer)
      OBVIOUS
    <3>1. CASE o \in told
      BY <1>4, <3>1
    <3>2. CASE o \notin told
      BY <1>t, <1>1, <3>2, PendingAnswers
    <3> QED
      BY <3>1, <3>2
  <2>3. pending' \in [Objects -> Seq(Answer)]
    BY <1>1, <2>2
  <2> QED
    BY <1>t, <1>1, <2>1, <2>3 DEF TypeOK, Answer
<1>7. ObjectsInv'
  <2>1. \A o \in Objects : pending'[o] # <<>> => pending[o] # <<>> \/ mActive[o]
    BY <1>t, <1>1 DEF ObjectsInv
  <2> QED
    BY <1>t, <1>1, <2>1 DEF ObjectsInv
<1>8. RoomsInv'
  <2> SUFFICES ASSUME NEW p \in Pairs PROVE roomDevices[p].version <= bindings'[p[2]].version
    BY <1>1 DEF RoomsInv
  <2>1. p[2] \in Aors /\ roomDevices[p].version <= bindings[p[2]].version
    BY <1>t DEF RoomsInv, Pairs
  <2>2. roomDevices[p].version \in Nat /\ bindings[p[2]].version \in Nat
    BY <1>t, <2>1, VersionsAreNat
  <2>3. bindings'[p[2]].version >= bindings[p[2]].version
    BY <1>2, <1>5, <2>1, <2>2
  <2>4. bindings'[p[2]].version \in Nat
    BY <1>2, <1>5, <2>1, <2>2
  <2> QED
    BY <2>1, <2>2, <2>3, <2>4
<1>9. AnswersInv'
  <2> SUFFICES ASSUME NEW q \in Objects, mActive[q] PROVE InOrder(q)' /\ UpToDate(q)'
    BY <1>1 DEF AnswersInv
  <2>1. InOrder(q) /\ UpToDate(q) /\ owner[q] \in Pairs /\ owner[q][2] \in Aors
    BY <1>t DEF AnswersInv, ObjectsInv, Pairs
  <2>2. CASE q \in told
    <3> DEFINE n == Len(pending[q])
    <3>1. /\ n \in Nat /\ Len(pending'[q]) = n + 1 /\ pending'[q] # <<>>
          /\ \A i \in 1..n : pending'[q][i] = pending[q][i]
          /\ pending'[q][n + 1].record = Null
      BY <1>t, <1>3, <1>4, <2>2, PendingAnswers
    <3>2. bindings[a].version \in Nat /\ bindings'[a].version = bindings[a].version + 1
      BY <1>t, <1>2, <1>5, VersionsAreNat
    <3>3. InOrder(q)'
      <4> SUFFICES ASSUME NEW i \in 1..(n + 1), pending'[q][i].record # Null
                   PROVE  /\ roomDevices[owner[q]].version <= pending'[q][i].record.version
                          /\ pending'[q][i].record.version <= bindings'[a].version
                          /\ \A j \in 1..(i - 1) :
                               /\ pending'[q][j].record # Null
                               /\ pending'[q][j].record.version <= pending'[q][i].record.version
        BY <1>1, <2>2, <3>1 DEF InOrder
      <4>1. i \in 1..n
        BY <3>1
      <4>2. pending'[q][i] = pending[q][i] /\ \A j \in 1..(i - 1) : pending'[q][j] = pending[q][j]
        BY <3>1, <4>1
      <4>3. /\ roomDevices[owner[q]].version <= pending[q][i].record.version
            /\ pending[q][i].record.version <= bindings[a].version
            /\ \A j \in 1..(i - 1) :
                 /\ pending[q][j].record # Null
                 /\ pending[q][j].record.version <= pending[q][i].record.version
        BY <2>1, <2>2, <4>1, <4>2 DEF InOrder
      <4>4. pending[q][i].record.version \in Nat
        BY <1>t, <4>1, <4>2, PendingAnswers, VersionsAreNat
      <4>5. pending[q][i].record.version <= bindings'[a].version
        BY <3>2, <4>3, <4>4
      <4> QED
        BY <4>2, <4>3, <4>5
    <3> QED
      BY <3>1, <3>3 DEF UpToDate
  <2>3. CASE q \notin told
    <3>1. owner[q][2] # a
      BY <1>t, <2>3 DEF ObjectsInv
    <3>2. pending'[q] = pending[q] /\ bindings'[owner[q][2]] = bindings[owner[q][2]]
      BY <1>1, <1>5, <2>1, <2>3, <3>1
    <3> QED
      BY <1>1, <2>1, <3>2, Untouched
  <2> QED
    BY <2>2, <2>3
<1>10. PingsAreForGivenDevices'
  BY <1>1 DEF PingsAreForGivenDevices
<1> QED
  BY <1>6, <1>7, <1>8, <1>9, <1>10 DEF IInv

(* A reading: it has the newest version of all, and no later one was read. *)
LEMMA ReadKeeps ==
    ASSUME IInv, NEW o \in Objects, RecordRead(o)
    PROVE  IInv'
<1>t. TypeOK /\ ObjectsInv /\ RoomsInv /\ AnswersInv
  BY DEF IInv
<1> DEFINE now == bindings[owner[o][2]]
           n == Len(pending[o])
<1>0. pending[o] \in Seq(Answer) /\ n \in Nat /\ DOMAIN pending[o] = 1..n
  BY <1>t, PendingAnswers, LenProperties
<1>1. PICK i \in 1..n :
        /\ pending[o][i].record = Null
        /\ \A j \in 1..(i - 1) : pending[o][j].record # Null
        /\ pending' = [pending EXCEPT ![o][i].record = now]
  BY <1>0 DEF RecordRead
<1>2. pings' = {} /\ UNCHANGED <<bindings, listeners, owner, mActive, missed, roomDevices>>
  BY DEF RecordRead
<1>3. owner[o] \in Pairs /\ owner[o][2] \in Aors
  <2>1. pending[o] # <<>>
    BY <1>0, EmptySeq
  <2> QED
    BY <1>t, <2>1 DEF ObjectsInv, Pairs
<1>4. now \in Record /\ now.version \in Nat
  BY <1>t, <1>3, VersionsAreNat
<1> DEFINE answer == [pending[o][i] EXCEPT !.record = now]
<1>5. answer \in Answer /\ answer.record = now
  <2>1. pending[o][i] \in Answer
    BY <1>0, ElementOfSeq
  <2> QED
    BY <1>4, <2>1 DEF Answer
<1>6. /\ pending'[o] = [pending[o] EXCEPT ![i] = answer]
      /\ \A q \in Objects \ {o} : pending'[q] = pending[q]
  BY <1>t, <1>0, <1>1 DEF TypeOK
<1>7. /\ pending'[o] \in Seq(Answer) /\ Len(pending'[o]) = n
      /\ pending'[o][i].record = now
      /\ \A j \in 1..n \ {i} : pending'[o][j] = pending[o][j]
  <2> HIDE DEF answer
  <2>1. /\ [pending[o] EXCEPT ![i] = answer] \in Seq(Answer)
        /\ Len([pending[o] EXCEPT ![i] = answer]) = n
        /\ \A j \in 1..n : [pending[o] EXCEPT ![i] = answer][j] = IF j = i THEN answer ELSE pending[o][j]
    BY <1>0, <1>5, ExceptSeq
  <2> QED
    BY <1>5, <1>6, <2>1
<1>8. TypeOK'
  <2>1. pending' \in [Objects -> Seq(Answer)]
    BY <1>t, <1>1, <1>6, <1>7 DEF TypeOK, Answer
  <2> QED
    BY <1>t, <1>2, <2>1 DEF TypeOK, Answer
<1>9. ObjectsInv' /\ RoomsInv' /\ PingsAreForGivenDevices'
  BY <1>t, <1>2, <1>3, <1>6 DEF ObjectsInv, RoomsInv, PingsAreForGivenDevices
<1>10. AnswersInv'
  <2> SUFFICES ASSUME NEW q \in Objects, mActive[q] PROVE InOrder(q)' /\ UpToDate(q)'
    BY <1>2 DEF AnswersInv
  <2>1. InOrder(q) /\ UpToDate(q)
    BY <1>t DEF AnswersInv
  <2>2. CASE q # o
    BY <1>2, <1>6, <2>1, <2>2, Untouched
  <2>3. CASE q = o
    <3>1. \A j \in 1..(i - 1) : j \in 1..n \ {i}
      BY <1>0
    <3>2. InOrder(o)'
      <4> SUFFICES ASSUME NEW k \in 1..n, pending'[o][k].record # Null
                   PROVE  /\ roomDevices[owner[o]].version <= pending'[o][k].record.version
                          /\ pending'[o][k].record.version <= now.version
                          /\ \A j \in 1..(k - 1) :
                               /\ pending'[o][j].record # Null
                               /\ pending'[o][j].record.version <= pending'[o][k].record.version
        BY <1>2, <1>7 DEF InOrder
      <4>1. CASE k = i
        <5>1. roomDevices[owner[o]].version <= now.version
          BY <1>t, <1>3 DEF RoomsInv
        <5>2. ASSUME NEW j \in 1..(k - 1)
              PROVE  pending'[o][j].record # Null /\ pending'[o][j].record.version <= now.version
          <6>1. pending'[o][j] = pending[o][j] /\ pending[o][j].record # Null /\ j \in 1..n
            BY <1>1, <1>7, <3>1, <4>1
          <6> QED
            BY <2>1, <2>3, <6>1 DEF InOrder
        <5> QED
          BY <1>4, <1>7, <4>1, <5>1, <5>2
      <4>2. CASE k # i
        <5>1. pending'[o][k] = pending[o][k]
          BY <1>7, <4>2
        <5>2. /\ roomDevices[owner[o]].version <= pending[o][k].record.version
              /\ pending[o][k].record.version <= now.version
              /\ \A j \in 1..(k - 1) :
                   /\ pending[o][j].record # Null
                   /\ pending[o][j].record.version <= pending[o][k].record.version
          BY <2>1, <2>3, <5>1 DEF InOrder
        <5>3. i \notin 1..(k - 1)
          BY <1>1, <5>2
        <5>4. \A j \in 1..(k - 1) : pending'[o][j] = pending[o][j]
          BY <1>0, <1>7, <5>3
        <5> QED
          BY <5>1, <5>2, <5>4
      <4> QED
        BY <4>1, <4>2
    <3>3. pending[o] # <<>> /\ pending'[o] # <<>> /\ n \in 1..n
      BY <1>0, <1>7, EmptySeq
    <3>4. pending'[o][n].record \in {Null, now}
      BY <1>7, <2>1, <2>3, <3>3 DEF UpToDate
    <3> QED
      BY <1>2, <1>7, <2>3, <3>2, <3>3, <3>4 DEF UpToDate
  <2> QED
    BY <2>2, <2>3
<1> QED
  BY <1>8, <1>9, <1>10 DEF IInv

LEMMA StepKeeps == IInv /\ [Step]_vars => IInv'
<1> SUFFICES ASSUME IInv, [Step]_vars PROVE IInv'
  OBVIOUS
<1>1. CASE Step
  BY <1>1, StartKeeps, StopKeeps, AnswerKeeps, ErrorKeeps, ChangeKeeps, ReadKeeps
  DEF Step, RegistrarNext
<1>2. CASE UNCHANGED vars
  <2> USE <1>2 DEF vars, registrarVars, IInv
  <2>1. TypeOK'
    BY DEF TypeOK
  <2>2. ObjectsInv' /\ RoomsInv' /\ PingsAreForGivenDevices'
    BY DEF ObjectsInv, RoomsInv, PingsAreForGivenDevices
  <2>3. AnswersInv'
    BY Untouched DEF AnswersInv
  <2> QED
    BY <2>1, <2>2, <2>3
<1> QED
  BY <1>1, <1>2

LEMMA NextIsAStep == Next => Step
<1>1. ASSUME NEW o \in Objects PROVE {o} \in SUBSET Objects
  OBVIOUS
<1> QED
  BY <1>1 DEF Next, StopAll, Step

LEMMA Inductive == Spec => []IInv
  BY InitIInv, StepKeeps, NextIsAStep, PTL DEF Spec

-----------------------------------------------------------------------------
(* Every variable keeps its type: an answer that was read is a record, and    *)
(* chat rooms have devices of records (registration-subscription.cc:118-153). *)
THEOREM Typing == Spec => []TypeOK
<1>1. IInv => TypeOK
  BY DEF IInv
<1> QED
  BY Inductive, <1>1, PTL

(* The chat room of an active subscription that waits for nothing has the     *)
(* compatible devices of the record, but after an error                       *)
(* (registration-subscription.cc:101-111,131-168).                            *)
THEOREM NoChangeIsMissed == Spec => []QuietRoomsAreCurrent
<1>1. IInv => QuietRoomsAreCurrent
  BY DEF IInv, AnswersInv, UpToDate, QuietRoomsAreCurrent
<1> QED
  BY Inductive, <1>1, PTL

(* A registration is reported for a device of the list the chat room was      *)
(* given with it (registration-subscription.cc:155-168).                      *)
THEOREM PingsFollowTheList == Spec => []PingsAreForGivenDevices
<1>1. IInv => PingsAreForGivenDevices
  BY DEF IInv
<1> QED
  BY Inductive, <1>1, PTL

(* No answer makes the list of a chat room older, whoever it was meant for    *)
(* (registration-subscription.cc:132,156).                                    *)
THEOREM ListsGetNewer == Spec => RoomsNeverGoBack
<1>1. ASSUME IInv, [Next]_vars, NEW p \in Pairs, roomDevices'[p] # roomDevices[p]
      PROVE  \/ /\ roomDevices'[p].version >= roomDevices[p].version
                /\ \E o \in Objects : mActive[o] /\ owner[o] = p
             \/ roomDevices'[p] = NotTold
  <2>t. TypeOK /\ ObjectsInv /\ AnswersInv
    BY <1>1 DEF IInv
  <2>1. CASE \E objects : Stop(objects)
    BY <1>1, <2>1 DEF Stop
  <2>2. ASSUME NEW o \in Objects, AnswerReceived(o)
        PROVE  /\ roomDevices'[p].version >= roomDevices[p].version
               /\ mActive[o] /\ owner[o] = p
    <3> DEFINE record == Head(pending[o]).record
    <3>1. mActive[o] /\ ProcessRecord(o, record)
      BY <1>1, <2>2 DEF AnswerReceived
    <3>2. roomDevices' = [roomDevices EXCEPT ![owner[o]] =
                            [record EXCEPT !.devices = Compatible(owner[o][1], @)]]
      BY <3>1 DEF ProcessRecord
    <3>3. owner[o] = p
      BY <1>1, <2>t, <3>2 DEF TypeOK
    <3>4. /\ pending[o] # <<>> /\ record # Null /\ record \in Record
          /\ record = pending[o][1].record /\ 1 \in 1..Len(pending[o])
      BY <2>t, <2>2, PendingAnswers DEF AnswerReceived
    <3>5. roomDevices[p].version <= record.version
      BY <2>t, <3>1, <3>3, <3>4 DEF AnswersInv, InOrder
    <3>6. roomDevices'[p].version = record.version
      BY <2>t, <3>2, <3>3, <3>4, FilteredRecord DEF TypeOK
    <3>7. record.version \in Nat /\ roomDevices[p].version \in Nat
      BY <2>t, <3>4, VersionsAreNat
    <3> HIDE DEF record
    <3> QED
      BY <3>1, <3>3, <3>5, <3>6, <3>7
  <2>3. UNCHANGED roomDevices \/ (\E objects : Stop(objects))
          \/ (\E o \in Objects : AnswerReceived(o))
    BY <1>1 DEF Next, StopAll, RegistrarNext, Start, ErrorReceived, BindingsChange, RecordRead, vars
  <2> QED
    BY <1>1, <2>1, <2>2, <2>3
<1>2. IInv /\ [Next]_vars =>
        [\A p \in Pairs :
           roomDevices'[p] # roomDevices[p] =>
             \/ /\ roomDevices'[p].version >= roomDevices[p].version
                /\ \E o \in Objects : mActive[o] /\ owner[o] = p
             \/ roomDevices'[p] = NotTold]_vars
  BY <1>1
<1> QED
  BY Inductive, <1>2, PTL DEF Spec, RoomsNeverGoBack
=============================================================================
