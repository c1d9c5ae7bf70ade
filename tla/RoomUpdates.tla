------------------------------- MODULE RoomUpdates -------------------------------
(***************************************************************************)
(* What the conference server promises about registration updates, whatever  *)
(* the means: conference-server-tester.cc:355-363.  A chat room in which a    *)
(* participant is present may be given the participant's devices, one         *)
(* participant at a time; a chat room the participant left, and any chat room *)
(* once the server has stopped, is given nothing more.                        *)
(***************************************************************************)

CONSTANTS
    Rooms, Participants,
    Lists       \* the device lists a chat room can be given

VARIABLES
    serving,    \* the server has not stopped
    joined,     \* the (chat room, participant) pairs followed
    view        \* the lists a pair was last given: none or one

vars == <<serving, joined, view>>

Pairs == Rooms \X Participants
NotTold == {}
Views == {NotTold} \cup {{list} : list \in Lists}

Init ==
    /\ serving = TRUE
    /\ joined = {}
    /\ view = [p \in Pairs |-> NotTold]

\* The views of the pairs outside ps do not change.
OnlyViewsOf(ps) ==
    /\ view' \in [Pairs -> Views]
    /\ \A p \in Pairs \ ps : view'[p] = view[p]

\* A pair that joins may be given a list at once.
Join(p) ==
    /\ serving
    /\ p \notin joined
    /\ joined' = joined \cup {p}
    /\ OnlyViewsOf({p})
    /\ UNCHANGED serving

\* A pair that leaves starts afresh when it joins again.
Leave(p) ==
    /\ p \in joined
    /\ joined' = joined \ {p}
    /\ view' = [view EXCEPT ![p] = NotTold]
    /\ UNCHANGED serving

\* One participant's devices change in some of its chat rooms.
Update(q) ==
    /\ OnlyViewsOf({p \in joined : p[2] = q})
    /\ UNCHANGED <<serving, joined>>

Close ==
    /\ serving
    /\ serving' = FALSE
    /\ joined' = {}
    /\ view' = [p \in Pairs |-> NotTold]

Next ==
    \/ \E p \in Pairs : Join(p) \/ Leave(p)
    \/ \E q \in Participants : Update(q)
    \/ Close

Spec == Init /\ [][Next]_vars

=============================================================================
