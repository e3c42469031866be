--------------------------- MODULE TouchpadDevice ---------------------------
(***************************************************************************)
(* What the driver promises the receiver and Windows, without threads, a   *)
(* lock, or the stages in which a device is created and torn down: a       *)
(* touchpad that comes and goes, on which a whole report appears or does   *)
(* not, in one step with the status that tells of it.                      *)
(***************************************************************************)
EXTENDS Integers, FiniteSets

CONSTANTS Slots

VARIABLES
    present, \* whether Windows has the touchpad
    shown,   \* the last report it has taken
    tally,   \* the status: submissions so far, the last one's result and count
    answer   \* the last status answered, or NoAnswer

touchpad == <<present, shown, tally, answer>>

\* A report has the slots that are touched, and a count of its own.
Reports   == [touched : SUBSET Slots, active : 0..Cardinality(Slots)]
Untouched == [touched |-> {}, active |-> 0]

Unused   == [count |-> 0, status |-> "not found", active |-> 0]
NoAnswer == [count |-> -1, status |-> "none", active |-> 0]

Init ==
    /\ present = FALSE
    /\ shown = Untouched
    /\ tally = Unused
    /\ answer = NoAnswer

Prepare ==
    /\ ~present
    /\ tally' = Unused
    /\ answer' = NoAnswer
    /\ UNCHANGED <<present, shown>>

Arrive ==
    /\ ~present
    /\ shown = Untouched /\ tally = Unused
    /\ present' = TRUE
    /\ UNCHANGED <<shown, tally, answer>>

\* One report: Windows has it as a whole, or is left with the one before.
Submit(report, result) ==
    /\ present
    /\ shown' = IF result = "accepted" THEN report ELSE shown
    /\ tally' = [count |-> tally.count + 1, status |-> result, active |-> report.active]
    /\ UNCHANGED <<present, answer>>

Query ==
    /\ present
    /\ answer' = tally
    /\ UNCHANGED <<present, shown, tally>>

Leave ==
    /\ present
    /\ present' = FALSE
    /\ shown' = Untouched
    /\ UNCHANGED <<tally, answer>>

Next ==
    \/ Prepare \/ Arrive \/ Query \/ Leave
    \/ \E report \in Reports, result \in {"accepted", "refused"} : Submit(report, result)

Spec == Init /\ [][Next]_touchpad
=============================================================================
