----------------------- MODULE ReceiverSurfaceProofs ------------------------
(***************************************************************************)
(* The receiver implements TouchSurface, for any size of touchpad, any     *)
(* number of messages in one receive, and any number of failures, stops    *)
(* and restarts: every step of the receiver is a Report, a Clear or a      *)
(* Fault of the surface, or none of Windows' business.                     *)
(***************************************************************************)
EXTENDS ReceiverSurface, ReceiverProofs

\* What Windows sees, in the terms of TouchSurface.
Seen == [s \in DOMAIN host.touch |-> [id |-> owner[s], pos |-> host.touch[s]]]

-----------------------------------------------------------------------------
(* The invariant: who is behind a slot at each label of main().  While a   *)
(* report waits in Submit the session is already ahead of Windows, and the *)
(* slots must agree across that difference.                                *)

\* A report that is to be submitted clears, or leaves every contact its slot.
ReportFollows(frame) ==
    \/ frame.reset /\ previous_contacts = Nothing /\ button_down = FALSE
    \/ /\ ~frame.reset
       /\ \A s \in DOMAIN host.touch, t \in DOMAIN previous_contacts :
             owner[s] = previous_contacts[t].id <=> s = t

OwnerInv ==
    /\ owner \in [DOMAIN host.touch -> Ids]
    /\ pc \in {"recv", "process"} /\ ~exposed =>
          \A s \in DOMAIN host.touch : owner[s] = previous_contacts[s].id
    /\ pc = "submit" => \A frame \in output : ReportFollows(frame)

SurfaceInv == IInv /\ OwnerInv

\* No contact has two slots.
LEMMA HoldersDiffer ==
    ASSUME SessionInv, error = "none",
           NEW s \in DOMAIN previous_contacts, NEW t \in DOMAIN previous_contacts
    PROVE  previous_contacts[s].id = previous_contacts[t].id <=> s = t
  <1>1. PICK a \in DOMAIN slots : slots[a] = s
    BY DEF SessionInv, PreviousMatchesSlots, SlotRange
  <1>2. PICK b \in DOMAIN slots : slots[b] = t
    BY DEF SessionInv, PreviousMatchesSlots, SlotRange
  <1>3. previous_contacts[s].id = a /\ previous_contacts[t].id = b
    BY <1>1, <1>2 DEF SessionInv, PreviousMatchesSlots
  <1> QED
    BY <1>1, <1>2, <1>3

\* A frame that is accepted leaves every contact its slot.
LEMMA AcceptedFollows ==
    ASSUME IInv, NEW m \in Messages, AcceptFrame(m), error = "none",
           NEW s \in DOMAIN previous_contacts, NEW t \in DOMAIN previous_contacts'
    PROVE  previous_contacts[s].id = previous_contacts'[t].id <=> s = t
  <1>1. SessionInv /\ SessionInv' /\ error' = "none"
    BY AcceptFrameInv DEF IInv, AcceptFrame, Return
  <1>2. PICK a \in DOMAIN slots : slots[a] = s /\ previous_contacts[s].id = a
    BY <1>1 DEF SessionInv, PreviousMatchesSlots, SlotRange
  <1>3. PICK b \in DOMAIN slots' : slots'[b] = t /\ previous_contacts'[t].id = b
    BY <1>1 DEF SessionInv, PreviousMatchesSlots, SlotRange
  <1>4. slots[a] = slots'[b] <=> a = b
    BY <1>1, AcceptFrameTables
  <1> QED
    BY <1>2, <1>3, <1>4

\* Windows gets nothing but in two steps.
LEMMA NothingDelivered ==
    ASSUME SurfaceNext, ~Delivered
    PROVE  /\ UNCHANGED <<host, owner>>
           /\ exposed' = exposed \/ exposed' = TRUE
  BY DEF SurfaceNext, Delivered, Next, Step, Receive, Accept, RecvEnds, RecvTimeout,
         RecvData, ProcessMessage, SubmitFails, Lose, Disconnect, ReleaseFails, Exit, Stop,
         Start

\* A report that waits is delivered as the session's view of itself.
LEMMA SubmitDelivers ==
    ASSUME IInv, SubmitSucceeds
    PROVE  /\ host' = SessionView /\ exposed' = FALSE
           /\ UNCHANGED <<slots, previous_contacts, button_down, error>>
           /\ \E frame \in output : exposed => frame.reset
  <1>1. PICK frame \in output : /\ host' = Reported(frame)
                                /\ exposed' = (exposed /\ ~frame.reset)
    BY DEF SubmitSucceeds, Deliver
  <1>2. host' = SessionView
    BY <1>1, ReportedIsView DEF IInv
  <1>3. exposed => frame.reset
    BY DEF SubmitSucceeds, IInv, HealInv
  <1>4. exposed \in BOOLEAN
    BY DEF IInv, TypeOK
  <1> QED
    BY <1>1, <1>2, <1>3, <1>4 DEF SubmitSucceeds, ForgetOutput

LEMMA ReleaseDelivers ==
    ASSUME IInv, ReleaseSucceeds
    PROVE  host' = Clear /\ exposed' = FALSE
  <1>1. PICK frame \in output : /\ host' = Reported(frame)
                                /\ exposed' = (exposed /\ ~frame.reset)
    BY DEF ReleaseSucceeds, Deliver
  <1> QED
    BY <1>1 DEF ReleaseSucceeds, IInv, HostInv
-----------------------------------------------------------------------------
(* Every step keeps it.                                                    *)

LEMMA NextInv ==
    ASSUME IInv, Next
    PROVE  IInv'
  BY AcceptInv, RecvEndsInv, RecvTimeoutInv, RecvDataInv, ProcessMessageInv,
     SubmitSucceedsInv, SubmitFailsInv, DisconnectInv, ReleaseSucceedsInv, StartInv,
     ReleaseFailsInv, StopInv
     DEF Next, Step, Receive

\* A view of no contact has no owners.
LEMMA NoContacts ==
    ASSUME ~HostActive
    PROVE  DOMAIN host.touch = {}
  BY DEF HostActive, Nothing

LEMMA OwnerKept ==
    ASSUME SurfaceInv, UNCHANGED <<host, owner>>,
           pc' \in {"recv", "process"} /\ ~exposed' =>
              \/ DOMAIN host.touch = {}
              \/ /\ pc \in {"recv", "process"} /\ ~exposed
                 /\ previous_contacts' = previous_contacts,
           pc' = "submit" => \A frame \in output' : ReportFollows(frame)'
    PROVE  OwnerInv'
  BY DEF SurfaceInv, OwnerInv

\* What Process returns, and OnTimeout, follows what Windows sees.
LEMMA ProcessFollows ==
    ASSUME SurfaceInv, UNCHANGED <<host, owner>>, pc = "process",
           NEW m \in Messages, Process(m), NEW frame \in output'
    PROVE  ReportFollows(frame)'
  <1>1. error = "none"
    BY DEF SurfaceInv, IInv, ErrorInv
  <1>2. CASE ProcessReset(m)
    BY <1>2, ReleaseFrameType
       DEF ProcessReset, Return, ReleaseAll, ReportFollows, SurfaceInv, IInv, SessionInv
  <1>3. CASE AcceptFrame(m)
    <2>1. ~frame.reset
      BY <1>3 DEF AcceptFrame, Return, FrameFor
    <2>2. ~exposed
      BY <1>3 DEF SurfaceInv, IInv, HealInv, AcceptFrame, ReadyForFrame
    <2>3. host = SessionView
      BY <2>2 DEF SurfaceInv, IInv, HostInv
    <2>4. DOMAIN host.touch = DOMAIN previous_contacts
      BY <2>3 DEF SessionView
    <2>5. \A s \in DOMAIN host.touch : owner[s] = previous_contacts[s].id
      BY <2>2 DEF SurfaceInv, OwnerInv
    <2>6. \A s \in DOMAIN previous_contacts, t \in DOMAIN previous_contacts' :
             previous_contacts[s].id = previous_contacts'[t].id <=> s = t
      BY <1>1, <1>3, AcceptedFollows DEF SurfaceInv
    <2> QED
      BY <2>1, <2>4, <2>5, <2>6 DEF ReportFollows
  <1>4. CASE RejectSequence(m) \/ ProcessHello(m) \/ RejectEarly(m) \/ RejectOversized(m)
    BY <1>4 DEF RejectSequence, ProcessHello, RejectEarly, RejectOversized, Throw, Return
  <1> QED
    BY <1>2, <1>3, <1>4 DEF Process

LEMMA TimeoutFollows ==
    ASSUME SurfaceInv, NEW now, OnTimeout(now), NEW frame \in output'
    PROVE  ReportFollows(frame)'
  BY ReleaseFrameType
     DEF OnTimeout, Return, ReleaseAll, ReportFollows, SurfaceInv, IInv, SessionInv

LEMMA NextOwner ==
    ASSUME SurfaceInv, SurfaceNext
    PROVE  OwnerInv'
  <1>1. CASE SubmitSucceeds
    <2>1. /\ host' = SessionView
          /\ UNCHANGED previous_contacts
      BY <1>1, SubmitDelivers DEF SurfaceInv
    <2>2. pc' \in {"recv", "process"}
      BY <1>1 DEF SubmitSucceeds, Resume
    <2>3. DOMAIN host'.touch = DOMAIN previous_contacts
      BY <2>1 DEF SessionView
    <2>4. owner' = [s \in DOMAIN host'.touch |-> previous_contacts[s].id]
      BY <1>1 DEF SurfaceNext, Delivered
    <2>5. \A s \in DOMAIN previous_contacts : previous_contacts[s].id \in Ids
      BY DEF SurfaceInv, IInv, SessionInv, SessionTypeOK, Contact
    <2> QED
      BY <2>1, <2>2, <2>3, <2>4, <2>5 DEF OwnerInv
  <1>2. CASE ReleaseSucceeds
    <2>1. DOMAIN host'.touch = {}
      BY <1>2, ReleaseDelivers DEF SurfaceInv, Clear, Nothing
    <2>2. owner' = [s \in DOMAIN host'.touch |-> previous_contacts[s].id] /\ pc' = "accept"
      BY <1>2 DEF SurfaceNext, Delivered, ReleaseSucceeds
    <2> QED
      BY <2>1, <2>2 DEF OwnerInv
  <1>3. CASE ~Delivered
    <2>1. UNCHANGED <<host, owner>>
      BY <1>3, NothingDelivered
    <2>2. CASE Accept
      <3>1. pc = "accept" /\ pc' = "recv" /\ UNCHANGED exposed
        BY <2>2 DEF Accept
      <3>2. ~exposed => DOMAIN host.touch = {}
        BY <3>1, NoContacts DEF SurfaceInv, IInv, HostInv
      <3> QED
        BY <2>1, <3>1, <3>2, OwnerKept
    <2>3. CASE RecvTimeout
      <3>1. /\ OnTimeout(Older(age, 1)) /\ pc = "recv" /\ UNCHANGED exposed
            /\ pc' = (IF output' = {} THEN "recv" ELSE "submit")
        BY <2>3 DEF RecvTimeout
      <3>2. output' = {} => previous_contacts' = previous_contacts
        BY <3>1 DEF OnTimeout, Return
      <3> QED
        BY <2>1, <3>1, <3>2, TimeoutFollows, OwnerKept
    <2>4. ASSUME NEW n \in 0..MaxBatch, NEW ticks \in {0, 1}, RecvData(n, ticks)
          PROVE  OwnerInv'
      <3>1. /\ pc = "recv" /\ pc' \in {"recv", "process"}
            /\ UNCHANGED <<exposed, previous_contacts>>
        BY <2>4 DEF RecvData
      <3> QED
        BY <2>1, <3>1, OwnerKept
    <2>5. ASSUME NEW m \in Messages, ProcessMessage(m)
          PROVE  OwnerInv'
      <3>1. pc = "process" /\ Process(m) /\ UNCHANGED exposed
        BY <2>5 DEF ProcessMessage
      <3>2. pc' \in {"recv", "process"} => error' = "none" /\ output' = {}
        BY <2>5 DEF ProcessMessage
      <3>3. pc' \in {"recv", "process"} => previous_contacts' = previous_contacts
        BY <3>1, <3>2, TakenQuietly
      <3> QED
        BY <2>1, <3>1, <3>3, ProcessFollows, OwnerKept
    <2>6. CASE RecvEnds \/ SubmitFails \/ Disconnect \/ ReleaseFails \/ Stop \/ Start
      <3>1. pc' \notin {"recv", "process", "submit"}
        BY <2>6 DEF RecvEnds, SubmitFails, Disconnect, ReleaseFails, Stop, Exit, Start
      <3> QED
        BY <2>1, <3>1, OwnerKept
    <2> QED
      BY <1>3, <2>2, <2>3, <2>4, <2>5, <2>6 DEF SurfaceNext, Next, Step, Receive, Delivered
  <1> QED
    BY <1>1, <1>2, <1>3 DEF Delivered

LEMMA SurfaceInvariant == SurfaceSpec => []SurfaceInv
  <1>1. SurfaceInit => SurfaceInv
    <2> SUFFICES ASSUME SurfaceInit PROVE SurfaceInv
      OBVIOUS
    <2>1. IInv
      BY InitInv DEF SurfaceInit
    <2>2. /\ host.touch = Nothing /\ owner = Nothing /\ pc = "accept"
      BY DEF SurfaceInit, Init, Clear
    <2>3. Nothing \in [DOMAIN Nothing -> Ids]
      BY DEF Nothing
    <2> QED
      BY <2>1, <2>2, <2>3 DEF SurfaceInv, OwnerInv
  <1>2. SurfaceInv /\ [SurfaceNext]_surfaceVars => SurfaceInv'
    <2> SUFFICES ASSUME SurfaceInv, [SurfaceNext]_surfaceVars
                 PROVE  SurfaceInv'
      OBVIOUS
    <2>1. CASE SurfaceNext
      BY <2>1, NextInv, NextOwner DEF SurfaceInv, SurfaceNext
    <2>2. CASE UNCHANGED surfaceVars
      <3>1. IInv'
        BY <2>2, StutterInv DEF SurfaceInv, surfaceVars
      <3> QED
        BY <2>2, <3>1 DEF surfaceVars, vars, sessionVars, receiverVars, SurfaceInv, OwnerInv,
                          ReportFollows
    <2> QED
      BY <2>1, <2>2
  <1> QED
    BY <1>1, <1>2, PTL DEF SurfaceSpec

-----------------------------------------------------------------------------
(* Every step is a step of the surface.                                    *)

\* Windows sees contacts at slots.
LEMMA SeenTouchesNext ==
    ASSUME OwnerInv', host' \in Hosts
    PROVE  Seen' \in Surface!Touches
  <1>1. DOMAIN host'.touch \in SUBSET Slots
    BY DEF Hosts
  <1>2. \A s \in DOMAIN host'.touch : host'.touch[s] \in Positions /\ owner'[s] \in Ids
    BY DEF Hosts, OwnerInv
  <1>3. Seen' \in [DOMAIN host'.touch -> Surface!Touch]
    BY <1>2 DEF Seen, Surface!Touch
  <1> QED
    BY <1>1, <1>3 DEF Surface!Touches

LEMMA DeliveredFollows ==
    ASSUME SurfaceInv, SurfaceNext, SubmitSucceeds
    PROVE  Surface!Report \/ Surface!Clear
  <1>1. /\ host' = SessionView /\ exposed' = FALSE
        /\ UNCHANGED <<slots, previous_contacts, button_down, error>>
    BY SubmitDelivers DEF SurfaceInv
  <1>2. PICK frame \in output : exposed => frame.reset
    BY SubmitDelivers DEF SurfaceInv
  <1>3. ReportFollows(frame)
    BY <1>2 DEF SurfaceInv, OwnerInv, SubmitSucceeds
  <1>4. /\ DOMAIN host'.touch = DOMAIN previous_contacts
        /\ host'.button = button_down
        /\ owner' = [s \in DOMAIN previous_contacts |-> previous_contacts[s].id]
    BY <1>1 DEF SessionView, SurfaceNext, Delivered
  <1>5. /\ DOMAIN Seen = DOMAIN host.touch
        /\ \A s \in DOMAIN Seen : Seen[s].id = owner[s]
        /\ DOMAIN Seen' = DOMAIN previous_contacts
        /\ \A t \in DOMAIN Seen' : Seen'[t].id = previous_contacts[t].id
    BY <1>4 DEF Seen
  <1>6. CASE frame.reset
    <2>1. previous_contacts = Nothing /\ button_down = FALSE
      BY <1>3, <1>6 DEF ReportFollows
    <2>2. Seen' = [s \in {} |-> 0]
      BY <1>4, <2>1 DEF Seen, Nothing
    <2> QED
      BY <1>1, <1>4, <2>1, <2>2 DEF Surface!Clear, Seen
  <1>7. CASE ~frame.reset
    <2>1. ~exposed
      BY <1>2, <1>7
    <2>2. Surface!OneSlotEach(Seen, Seen')
      BY <1>3, <1>5, <1>7 DEF ReportFollows, Surface!OneSlotEach
    <2>3. Surface!OneSlotEach(Seen', Seen')
      <3>1. error = "none"
        BY DEF SurfaceInv, IInv, ErrorInv, SubmitSucceeds
      <3>2. \A s, t \in DOMAIN previous_contacts :
               previous_contacts[s].id = previous_contacts[t].id <=> s = t
        BY <3>1, HoldersDiffer DEF SurfaceInv, IInv
      <3> QED
        BY <1>5, <3>2 DEF Surface!OneSlotEach
    <2>4. Seen' \in Surface!Touches /\ host'.button \in BOOLEAN
      <3>1. OwnerInv' /\ host' \in Hosts
        BY NextOwner, NextInv DEF SurfaceInv, SurfaceNext, IInv, TypeOK
      <3>2. Seen' \in Surface!Touches
        BY <3>1, SeenTouchesNext
      <3> QED
        BY <3>1, <3>2 DEF Hosts
    <2>5. exposed = FALSE
      BY <2>1 DEF SurfaceInv, IInv, TypeOK
    <2> QED
      BY <1>1, <2>1, <2>2, <2>3, <2>4, <2>5 DEF Surface!Report, Seen
  <1> QED
    BY <1>6, <1>7
\* A release leaves nothing.
LEMMA ReleaseClears ==
    ASSUME SurfaceInv, SurfaceNext, ReleaseSucceeds
    PROVE  Surface!Clear
  <1>1. host' = Clear /\ exposed' = FALSE
    BY ReleaseDelivers DEF SurfaceInv
  <1>2. host'.touch = Nothing /\ host'.button = FALSE
    BY <1>1 DEF Clear
  <1>3. [s \in DOMAIN host'.touch |-> [id |-> owner'[s], pos |-> host'.touch[s]]]
           = [s \in {} |-> 0]
    BY <1>2 DEF Nothing
  <1> QED
    BY <1>1, <1>2, <1>3 DEF Surface!Clear

\* Any other step is a fault, or none of Windows' business.
LEMMA OthersFault ==
    ASSUME SurfaceNext, ~Delivered
    PROVE  Surface!Fault \/ UNCHANGED Surface!surface
  BY NothingDelivered DEF Surface!Fault, Surface!surface

LEMMA StepFollows ==
    ASSUME SurfaceInv, [SurfaceNext]_surfaceVars
    PROVE  [Surface!Next]_Surface!surface
  <1>1. CASE UNCHANGED surfaceVars
    BY <1>1 DEF surfaceVars, vars, sessionVars, receiverVars, Surface!surface
  <1>2. CASE SurfaceNext /\ SubmitSucceeds
    BY <1>2, DeliveredFollows DEF Surface!Next
  <1>3. CASE SurfaceNext /\ ReleaseSucceeds
    BY <1>3, ReleaseClears DEF Surface!Next
  <1>4. CASE SurfaceNext /\ ~Delivered
    BY <1>4, OthersFault DEF Surface!Next
  <1> QED
    BY <1>1, <1>2, <1>3, <1>4 DEF Delivered

LEMMA InitFollows ==
    ASSUME SurfaceInit
    PROVE  Surface!Init
  <1>1. host.touch = Nothing /\ host.button = FALSE /\ exposed = FALSE
    BY DEF SurfaceInit, Init, Clear
  <1>2. [s \in DOMAIN host.touch |-> [id |-> owner[s], pos |-> host.touch[s]]]
           = [s \in {} |-> 0]
    BY <1>1 DEF Nothing
  <1> QED
    BY <1>1, <1>2 DEF Surface!Init

(* The receiver implements TouchSurface: whatever the connections do, with *)
(* lost submissions, timeouts, stops and restarts, a finger keeps its slot *)
(* from its first report to its last, no slot changes hands within a       *)
(* report, a release leaves nothing, and after a fault a release comes     *)
(* first (TouchSession.cpp:50-104, 132-152, main.cpp:129-137).             *)
THEOREM SurfaceIsImplemented == SurfaceSpec => ImplementsSurface
  <1>1. SurfaceInit => Surface!Init
    BY InitFollows
  <1>2. SurfaceInv /\ [SurfaceNext]_surfaceVars => [Surface!Next]_Surface!surface
    BY StepFollows
  <1> QED
    BY <1>1, <1>2, SurfaceInvariant, PTL DEF SurfaceSpec, ImplementsSurface, Surface!Spec
=============================================================================
