---------------------------- MODULE TouchSurface ----------------------------
(***************************************************************************)
(* What the receiver promises Windows, without connections, sessions or    *)
(* messages (docs/WINDOWS_HANDOFF.md:143-171): a surface whose touches     *)
(* appear, move and disappear in complete reports, each with a slot of its *)
(* own for as long as it is down; which is cleared as a whole; and which   *)
(* after a fault shows nothing new before it has been cleared.             *)
(***************************************************************************)
CONSTANTS Ids, Positions, Slots

VARIABLES
    touches, \* slot -> the contact that is down there, and where
    button,  \* Button 1
    stale    \* a report was lost, or its sender ended, since the last Clear

surface == <<touches, button, stale>>

Touch == [id : Ids, pos : Positions]
Touches == UNION {[down -> Touch] : down \in SUBSET Slots}

Init ==
    /\ touches = [s \in {} |-> 0]
    /\ button = FALSE
    /\ stale = FALSE

\* Every contact has one slot, before and after.
OneSlotEach(before, after) ==
    \A s \in DOMAIN before, t \in DOMAIN after :
        before[s].id = after[t].id <=> s = t

Report ==
    /\ ~stale
    /\ touches' \in Touches
    /\ OneSlotEach(touches', touches')
    /\ OneSlotEach(touches, touches')
    /\ button' \in BOOLEAN
    /\ UNCHANGED stale

Clear ==
    /\ touches' = [s \in {} |-> 0]
    /\ button' = FALSE
    /\ stale' = FALSE

Fault ==
    /\ stale' = TRUE
    /\ UNCHANGED <<touches, button>>

Next == Report \/ Clear \/ Fault

Spec == Init /\ [][Next]_surface
=============================================================================
