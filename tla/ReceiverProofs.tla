--------------------------- MODULE ReceiverProofs ---------------------------
(***************************************************************************)
(* Proofs about the receiver process: what Windows sees follows the        *)
(* session, nothing stays down when a connection ends, and a contact is    *)
(* not held longer than the timeout allows, for every touchpad size, every *)
(* number of messages in one receive and every number of failures.         *)
(***************************************************************************)
EXTENDS Receiver, TouchSessionProofs

-----------------------------------------------------------------------------
(* The inductive invariant.  GhostFree speaks of pc = "accept" only; to    *)
(* get there it has to be known at every label how the host relates to the *)
(* session: equal to it between messages, no more active than it when the  *)
(* connection ends, about to be cleared when the release is submitted.     *)

SessionView ==
    [touch |-> [s \in DOMAIN previous_contacts |-> previous_contacts[s].pos],
     button |-> button_down]

HostInv ==
    /\ pc \in {"recv", "process"} /\ ~exposed => host = SessionView
    /\ pc = "closing" /\ ~exposed /\ HostActive => HasActiveContacts
    /\ pc = "release" => \A frame \in output : frame.reset /\ Reported(frame) = Clear
    /\ pc = "accept" /\ ~exposed => ~HostActive
    /\ pc = "exited" => exposed

\* No FRAME is submitted while stale contacts may be down.
HealInv ==
    /\ pc \in {"recv", "process"} /\ reset_seen => ~exposed
    /\ pc = "submit" /\ exposed => \A frame \in output : frame.reset

\* Every message taken since the last receive renewed or released the session.
HoldInv ==
    /\ BoundedHold
    /\ pc = "submit" /\ HasActiveContacts => age = 0

\* A call that throws leads straight to OnDisconnect.
ErrorInv == pc \in {"recv", "process", "submit"} => error = "none"

IInv == TypeOK /\ SessionInv /\ ErrorInv /\ HostInv /\ HealInv /\ HoldInv

-----------------------------------------------------------------------------
(* What a delivered frame makes Windows see.                               *)

LEMMA ReportedIsView ==
    ASSUME SessionInv, NEW frame \in output
    PROVE  Reported(frame) = SessionView
  <1>1. /\ Tips(frame) = DOMAIN previous_contacts
        /\ frame.button = button_down
        /\ \A s \in DOMAIN previous_contacts :
              frame.contacts[s].pos = previous_contacts[s].pos
    BY DEF SessionInv, ReportIsState, Tips
  <1> QED
    BY <1>1 DEF Reported, SessionView

LEMMA ReleaseReportsClear ==
    ASSUME SessionTypeOK
    PROVE  Reported(ReleaseFrame) = Clear
  <1>1. Tips(ReleaseFrame) = {} /\ ReleaseFrame.button = FALSE
    BY ReleaseFrameType DEF Tips
  <1> QED
    BY <1>1 DEF Reported, Clear, Nothing

LEMMA HostType ==
    /\ Clear \in Hosts
    /\ SessionTypeOK => SessionView \in Hosts
  <1>1. Nothing \in [{} -> Positions]
    BY DEF Nothing
  <1>2. Clear \in Hosts
    BY <1>1 DEF Clear, Hosts
  <1>3. ASSUME SessionTypeOK
        PROVE  SessionView \in Hosts
    <2> DEFINE T == [s \in DOMAIN previous_contacts |-> previous_contacts[s].pos]
    <2>1. T \in [DOMAIN previous_contacts -> Positions]
      BY <1>3 DEF SessionTypeOK, Contact
    <2>2. DOMAIN previous_contacts \in SUBSET Slots /\ button_down \in BOOLEAN
      BY <1>3 DEF SessionTypeOK
    <2> HIDE DEF T
    <2>3. [touch |-> T, button |-> button_down] \in Hosts
      BY <2>1, <2>2 DEF Hosts
    <2> QED
      BY <2>3 DEF SessionView, T
  <1> QED
    BY <1>2, <1>3

\* The host shows nothing only if the session it mirrors holds nothing.
LEMMA ViewActive ==
    ASSUME SessionInv, host = SessionView, error = "none", HostActive
    PROVE  HasActiveContacts
  <1>1. CASE host.button
    BY <1>1 DEF SessionView, HasActiveContacts
  <1>2. CASE host.touch # Nothing
    <2>1. DOMAIN previous_contacts # {}
      BY <1>2 DEF SessionView, Nothing
    <2>2. DOMAIN slots # {}
      BY <2>1 DEF SessionInv, PreviousMatchesSlots, SlotRange
    <2> QED
      BY <2>2 DEF HasActiveContacts, Nothing
  <1> QED
    BY <1>1, <1>2 DEF HostActive

LEMMA ClearInactive ==
    ASSUME host = Clear
    PROVE  ~HostActive
  BY DEF Clear, HostActive

\* A new, empty session mirrors an inactive host.
LEMMA InactiveViewNext ==
    ASSUME host' \in Hosts, ~HostActive', previous_contacts' = Nothing, button_down' = FALSE
    PROVE  host' = SessionView'
  <1>1. host' = [touch |-> host'.touch, button |-> host'.button]
    BY DEF Hosts
  <1>2. host'.touch = Nothing /\ host'.button = FALSE
    BY DEF HostActive, Hosts
  <1>3. [s \in DOMAIN previous_contacts' |-> previous_contacts'[s].pos] = Nothing
    BY DEF Nothing
  <1> QED
    BY <1>1, <1>2, <1>3 DEF SessionView

-----------------------------------------------------------------------------
(* What one call of Process does, as the loop of main() sees it.           *)

\* A throw does not forget that something is down.
LEMMA ThrowKeepsActive ==
    ASSUME SessionInv, NEW m \in Messages, Process(m), error' # "none",
           HasActiveContacts
    PROVE  HasActiveContacts' /\ output' = {}
  <1>1. CASE RejectSequence(m) \/ ProcessHello(m) \/ RejectEarly(m)
    BY <1>1 DEF RejectSequence, ProcessHello, RejectEarly, Throw, Return, HasActiveContacts
  <1>2. CASE RejectOversized(m)
    <2>1. m.type = "FRAME" /\ output' = {}
      BY <1>2 DEF RejectOversized, ReadyForFrame, Throw
    <2>2. PICK next \in Mappings(m) : slots' = next
      BY <1>2 DEF RejectOversized
    <2>3. DOMAIN slots' = DOMAIN slots \cup Emplaced(m)
      BY <2>1, <2>2, MappingType DEF SessionInv
    <2>4. New(m) # {}
      BY <1>2 DEF RejectOversized, Oversized
    <2>5. DOMAIN slots # {} \/ slots = Nothing
      <3>1. slots \in [DOMAIN slots -> Slots]
        BY DEF SessionInv, SessionTypeOK
      <3> QED
        BY <3>1 DEF Nothing
    <2>6. DOMAIN slots' # {}
      BY <2>1, <2>3, <2>4, <2>5, FirstNewEmplaced
    <2> QED
      BY <2>1, <2>6 DEF HasActiveContacts, Nothing
  <1>3. CASE ProcessReset(m) \/ AcceptFrame(m)
    <2>1. error' = "none"
      BY <1>3 DEF ProcessReset, AcceptFrame, Return
    <2> QED
      BY <2>1
  <1> QED
    BY <1>1, <1>2, <1>3 DEF Process

\* A message that is taken renews the session's age or leaves nothing down.
LEMMA TakenIsFresh ==
    ASSUME SessionInv, NEW m \in Messages, Process(m), error' = "none",
           HasActiveContacts'
    PROVE  age' = 0
  <1>1. CASE ProcessHello(m)
    <2>1. ~hello_seen
      BY <1>1 DEF ProcessHello, Throw
    <2>2. ~HasActiveContacts
      BY <2>1 DEF SessionInv, TouchOnlyAfterHandshake
    <2> QED
      BY <1>1, <2>2 DEF ProcessHello, HasActiveContacts
  <1>2. CASE ProcessReset(m)
    BY <1>2 DEF ProcessReset, ReleaseAll, HasActiveContacts
  <1>3. CASE AcceptFrame(m)
    BY <1>3 DEF AcceptFrame
  <1>4. CASE RejectSequence(m) \/ RejectEarly(m) \/ RejectOversized(m)
    <2>1. error' # "none"
      BY <1>4 DEF RejectSequence, RejectEarly, RejectOversized, Throw
    <2> QED
      BY <2>1
  <1> QED
    BY <1>1, <1>2, <1>3, <1>4 DEF Process

\* Only HELLO is taken without a report, and it changes no table.
LEMMA TakenQuietly ==
    ASSUME NEW m \in Messages, Process(m), error' = "none", output' = {}
    PROVE  UNCHANGED <<slots, previous_contacts, button_down, reset_seen>>
  <1>1. CASE ProcessHello(m)
    BY <1>1 DEF ProcessHello
  <1>2. CASE ProcessReset(m) \/ AcceptFrame(m)
    <2>1. output' # {}
      BY <1>2 DEF ProcessReset, AcceptFrame, Return
    <2> QED
      BY <2>1
  <1>3. CASE RejectSequence(m) \/ RejectEarly(m) \/ RejectOversized(m)
    <2>1. error' # "none"
      BY <1>3 DEF RejectSequence, RejectEarly, RejectOversized, Throw
    <2> QED
      BY <2>1
  <1> QED
    BY <1>1, <1>2, <1>3 DEF Process

\* Only a session that has seen RESET reports a FRAME.
LEMMA ReportsResetFirst ==
    ASSUME SessionInv, NEW m \in Messages, Process(m), NEW frame \in output'
    PROVE  /\ frame.reset \/ reset_seen
           /\ error' = "none"
  <1>1. CASE ProcessReset(m)
    BY <1>1, ReleaseFrameType DEF ProcessReset, Return, SessionInv
  <1>2. CASE AcceptFrame(m)
    BY <1>2 DEF AcceptFrame, ReadyForFrame, Return
  <1>3. CASE ProcessHello(m) \/ RejectSequence(m) \/ RejectEarly(m) \/ RejectOversized(m)
    <2>1. output' = {}
      BY <1>3 DEF ProcessHello, RejectSequence, RejectEarly, RejectOversized, Throw, Return
    <2> QED
      BY <2>1
  <1> QED
    BY <1>1, <1>2, <1>3 DEF Process

-----------------------------------------------------------------------------
(* One lemma per action of main().                                         *)

LEMMA SameSession ==
    ASSUME UNCHANGED sessionVars
    PROVE  /\ SessionInv => SessionInv'
           /\ SessionTypeOK => SessionTypeOK'
           /\ SessionView' = SessionView
           /\ HasActiveContacts' = HasActiveContacts
  BY DEF sessionVars, SessionInv, SessionTypeOK, SlotsInjective, PreviousMatchesSlots,
         ReportIsState, TouchOnlyAfterHandshake, HasActiveContacts, SessionView

LEMMA InitInv == Init => IInv
  <1> SUFFICES ASSUME Init PROVE IInv
    OBVIOUS
  <1>1. SessionInv
    BY NewSessionInv DEF Init, SessionInit
  <1>2. output = {} /\ error = "none" /\ slots = Nothing /\ button_down = FALSE
    BY DEF Init, SessionInit, NewSession
  <1>3. TypeOK
    <2>1. SessionTypeOK /\ host \in Hosts
      BY <1>1, HostType DEF Init, SessionInv
    <2>2. /\ pending \in 0..MaxBatch /\ frag \in 0..MaxFragments
          /\ failures \in 0..MaxFailures /\ stops \in 0..MaxStops
      BY BatchAssumption, FragmentAssumption, BoundsAssumption DEF Init
    <2>3. pc = "accept" /\ exposed = FALSE
      BY DEF Init
    <2> QED
      BY <1>2, <2>1, <2>2, <2>3 DEF TypeOK, Labels
  <1>4. HostInv /\ HealInv /\ HoldInv /\ ErrorInv
    BY <1>2, ClearInactive DEF Init, HostInv, HealInv, HoldInv, BoundedHold, ErrorInv
  <1> QED
    BY <1>1, <1>3, <1>4 DEF IInv

LEMMA AcceptInv ==
    ASSUME IInv, Accept
    PROVE  IInv'
  <1>1. SessionInv'
    BY ConstructInv DEF Accept
  <1>2. /\ output' = {} /\ error' = "none" /\ slots' = Nothing /\ button_down' = FALSE
        /\ previous_contacts' = Nothing /\ reset_seen' = FALSE
        /\ pc = "accept" /\ pc' = "recv" /\ UNCHANGED <<host, failures, stops, exposed>>
    BY DEF Accept, Construct
  <1>3. TypeOK'
    BY <1>1, <1>2, BatchAssumption, FragmentAssumption
       DEF IInv, TypeOK, SessionInv, Labels, Accept
  <1>4. ~exposed => ~HostActive
    BY <1>2 DEF IInv, HostInv
  <1>5. ~exposed' => host' = SessionView'
    <2> SUFFICES ASSUME ~exposed PROVE host' = SessionView'
      BY <1>2
    <2>1. ~HostActive' /\ host' \in Hosts
      BY <1>2, <1>4 DEF HostActive, IInv, TypeOK
    <2> QED
      BY <1>2, <2>1, InactiveViewNext
  <1>6. HostInv'
    BY <1>2, <1>5 DEF HostInv
  <1>7. HealInv' /\ HoldInv' /\ ErrorInv'
    BY <1>2 DEF HealInv, HoldInv, BoundedHold, HasActiveContacts, ErrorInv
  <1> QED
    BY <1>1, <1>3, <1>6, <1>7 DEF IInv

LEMMA RecvEndsInv ==
    ASSUME IInv, RecvEnds
    PROVE  IInv'
  <1>1. /\ pc = "recv" /\ pc' = "closing" /\ UNCHANGED sessionVars
        /\ UNCHANGED <<pending, frag, host, failures, stops, exposed>>
    BY DEF RecvEnds
  <1>2. SessionInv' /\ TypeOK'
    BY <1>1, SameSession DEF IInv, TypeOK, Labels, sessionVars
  <1>3. HostActive /\ ~exposed => HasActiveContacts
    BY <1>1, ViewActive DEF IInv, HostInv, ErrorInv
  <1>4. HostInv'
    BY <1>1, <1>3, SameSession DEF HostInv, HostActive
  <1>5. HealInv' /\ HoldInv' /\ ErrorInv'
    BY <1>1 DEF HealInv, HoldInv, BoundedHold, ErrorInv
  <1> QED
    BY <1>2, <1>4, <1>5 DEF IInv

LEMMA RecvTimeoutInv ==
    ASSUME IInv, RecvTimeout
    PROVE  IInv'
  <1> DEFINE now == Older(age, 1)
  <1>1. /\ pc = "recv" /\ error = "none" /\ OnTimeout(now)
        /\ pc' = (IF output' = {} THEN "recv" ELSE "submit")
        /\ frag' = 0 /\ UNCHANGED <<pending, host, failures, stops, exposed>>
    BY DEF RecvTimeout, IInv, ErrorInv
  <1>2. now \in 0..AgeLimit
    BY OlderType DEF IInv, TypeOK, SessionTypeOK
  <1> HIDE DEF now
  <1>3. SessionInv'
    BY <1>1, <1>2, OnTimeoutInv DEF IInv
  <1>4. TypeOK'
    BY <1>1, <1>3, FragmentAssumption DEF IInv, TypeOK, SessionInv, Labels
  <1>5. error' = "none"
    BY <1>1 DEF OnTimeout, Return
  <1>6. CASE TimedOut(now)
    <2>1. /\ output' = {ReleaseFrame} /\ pc' = "submit"
          /\ slots' = Nothing /\ button_down' = FALSE
      BY <1>1, <1>6 DEF OnTimeout, Return, ReleaseAll
    <2>2. \A frame \in output' : frame.reset
      BY <2>1, ReleaseFrameType DEF IInv, SessionInv
    <2>3. ~HasActiveContacts'
      BY <2>1 DEF HasActiveContacts
    <2> QED
      BY <1>3, <1>4, <1>5, <2>1, <2>2, <2>3
         DEF IInv, HostInv, HealInv, HoldInv, BoundedHold, ErrorInv
  <1>7. CASE ~TimedOut(now)
    <2>1. /\ output' = {} /\ pc' = "recv" /\ age' = now
          /\ UNCHANGED <<slots, previous_contacts, button_down, reset_seen>>
      BY <1>1, <1>7 DEF OnTimeout, Return
    <2>2. SessionView' = SessionView /\ HasActiveContacts' = HasActiveContacts
      BY <2>1 DEF SessionView, HasActiveContacts
    <2>3. HasActiveContacts' => age' < FrameTimeout + frag'
      BY <1>1, <1>2, <1>7, <2>1, <2>2, TimeAssumption DEF TimedOut
    <2>4. HostInv' /\ HealInv'
      BY <1>1, <2>1, <2>2 DEF IInv, HostInv, HealInv
    <2> QED
      BY <1>3, <1>4, <1>5, <2>1, <2>3, <2>4 DEF IInv, HoldInv, BoundedHold, ErrorInv
  <1> QED
    BY <1>6, <1>7

LEMMA RecvDataInv ==
    ASSUME IInv, NEW n \in 0..MaxBatch, NEW ticks \in {0, 1}, RecvData(n, ticks)
    PROVE  IInv'
  <1>1. /\ pc = "recv" /\ error' = "none" /\ error = "none" /\ output' = output
        /\ UNCHANGED <<hello_seen, reset_seen, sequence_seen, button_down,
                       previous_sequence, slots, previous_contacts>>
        /\ UNCHANGED <<host, failures, stops, exposed>>
    BY DEF RecvData, IInv, ErrorInv
  <1>2. age \in 0..AgeLimit /\ age' = Older(age, ticks) /\ age' \in 0..AgeLimit
    BY OlderType DEF RecvData, IInv, TypeOK, SessionTypeOK
  <1>3. output = {}
    BY <1>1 DEF IInv, TypeOK
  <1>4. SessionInv'
    <2>1. SessionTypeOK'
      BY <1>1, <1>2 DEF IInv, SessionInv, SessionTypeOK
    <2> QED
      BY <1>1, <2>1 DEF IInv, SessionInv, SlotsInjective, PreviousMatchesSlots,
                        ReportIsState, TouchOnlyAfterHandshake, HasActiveContacts
  <1>5. /\ pc' = (IF n = 0 THEN "recv" ELSE "process")
        /\ pending' = n /\ frag' = (IF n = 0 THEN frag + 1 ELSE 0)
        /\ n = 0 => frag < MaxFragments
    BY DEF RecvData
  <1>6. frag' \in 0..MaxFragments /\ pending' \in 0..MaxBatch
    BY <1>5, FragmentAssumption DEF IInv, TypeOK
  <1>7. TypeOK'
    BY <1>1, <1>3, <1>4, <1>5, <1>6 DEF IInv, TypeOK, SessionInv, Labels
  <1>8. SessionView' = SessionView /\ HasActiveContacts' = HasActiveContacts
    BY <1>1 DEF SessionView, HasActiveContacts
  <1>9. HostInv' /\ HealInv' /\ ErrorInv'
    BY <1>1, <1>5, <1>8 DEF IInv, HostInv, HealInv, ErrorInv
  <1>10. HoldInv'
    <2> SUFFICES ASSUME n = 0, HasActiveContacts
                 PROVE  age' < FrameTimeout + frag'
      BY <1>5, <1>8 DEF HoldInv, BoundedHold
    <2>1. age < FrameTimeout + frag
      BY <1>1 DEF IInv, HoldInv, BoundedHold
    <2>2. age' <= age + 1
      BY <1>2, TimeAssumption DEF Older
    <2>3. frag \in Nat
      BY FragmentAssumption DEF IInv, TypeOK
    <2> QED
      BY <1>2, <1>5, <2>1, <2>2, <2>3, TimeAssumption
  <1> QED
    BY <1>4, <1>7, <1>9, <1>10 DEF IInv

LEMMA ProcessMessageInv ==
    ASSUME IInv, NEW m \in Messages, ProcessMessage(m)
    PROVE  IInv'
  <1>1. /\ pc = "process" /\ Process(m) /\ error = "none"
        /\ UNCHANGED <<frag, host, failures, stops, exposed>>
    BY DEF ProcessMessage, IInv, ErrorInv
  <1>2. SessionInv'
    BY <1>1, ProcessInv DEF IInv
  <1>0. pending - 1 \in 0..MaxBatch
    BY <1>1, BatchAssumption DEF IInv, TypeOK
  <1>3. CASE error' # "none"
    <2>1. output' = {}
      BY <1>1, <1>3, ReportsResetFirst DEF IInv
    <2>2. pc' = "closing" /\ pending' = 0
      BY <1>3 DEF ProcessMessage
    <2>3. TypeOK'
      BY <1>1, <1>2, <2>1, <2>2, BatchAssumption DEF IInv, TypeOK, SessionInv, Labels
    <2>4. ~exposed' /\ HostActive' => HasActiveContacts'
      <3> SUFFICES ASSUME ~exposed, HostActive
                   PROVE  HasActiveContacts'
        BY <1>1 DEF HostActive
      <3>1. HasActiveContacts
        BY <1>1, ViewActive DEF IInv, HostInv
      <3> QED
        BY <1>1, <1>3, <3>1, ThrowKeepsActive DEF IInv
    <2> QED
      BY <1>2, <2>2, <2>3, <2>4
         DEF IInv, HostInv, HealInv, HoldInv, BoundedHold, ErrorInv
  <1>4. CASE error' = "none" /\ output' # {}
    <2>1. pc' = "submit" /\ pending' = pending - 1
      BY <1>4 DEF ProcessMessage
    <2>2. TypeOK'
      BY <1>0, <1>1, <1>2, <1>4, <2>1 DEF IInv, TypeOK, SessionInv, Labels
    <2>3. HasActiveContacts' => age' = 0
      BY <1>1, <1>4, TakenIsFresh DEF IInv
    <2>4. exposed' => \A frame \in output' : frame.reset
      BY <1>1, ReportsResetFirst DEF IInv, HealInv
    <2> QED
      BY <1>2, <1>4, <2>1, <2>2, <2>3, <2>4
         DEF IInv, HostInv, HealInv, HoldInv, BoundedHold, ErrorInv
  <1>5. CASE error' = "none" /\ output' = {}
    <2>1. pc' = Resume(pending') /\ pending' = pending - 1
      BY <1>5 DEF ProcessMessage
    <2>2. pc' \in {"recv", "process"} /\ (pc' = "process" => pending' > 0)
      <3>1. pc' = (IF pending' = 0 THEN "recv" ELSE "process")
        BY <2>1 DEF Resume
      <3>2. pending' \in 0..MaxBatch
        BY <1>0, <2>1
      <3>3. pending' # 0 => pending' > 0
        BY <3>2, BatchAssumption
      <3> QED
        BY <3>1, <3>3
    <2>3. TypeOK'
      BY <1>0, <1>1, <1>2, <1>5, <2>1, <2>2 DEF IInv, TypeOK, SessionInv, Labels
    <2>4. UNCHANGED <<slots, previous_contacts, button_down, reset_seen>>
      BY <1>1, <1>5, TakenQuietly
    <2>5. SessionView' = SessionView
      BY <2>4 DEF SessionView
    <2>6. HostInv' /\ HealInv'
      BY <1>1, <2>2, <2>4, <2>5 DEF IInv, HostInv, HealInv
    <2>7. HasActiveContacts' => age' = 0
      BY <1>1, <1>5, TakenIsFresh DEF IInv
    <2>8. frag' \in Nat
      BY <2>3, FragmentAssumption DEF TypeOK
    <2>9. HoldInv'
      BY <2>2, <2>7, <2>8, TimeAssumption DEF HoldInv, BoundedHold
    <2> QED
      BY <1>2, <1>5, <2>3, <2>6, <2>9 DEF IInv, ErrorInv
  <1> QED
    BY <1>3, <1>4, <1>5

\* What both ways out of Submit do to the session: nothing but its result.
LEMMA ForgetOutputInv ==
    ASSUME SessionInv, ForgetOutput
    PROVE  /\ SessionInv'
           /\ SessionView' = SessionView
           /\ HasActiveContacts' = HasActiveContacts
           /\ UNCHANGED <<age, error, reset_seen>>
           /\ output' = {}
  <1>1. /\ output' = {}
        /\ UNCHANGED <<hello_seen, reset_seen, sequence_seen, button_down,
                       previous_sequence, slots, previous_contacts, age, error>>
    BY DEF ForgetOutput
  <1>2. SessionTypeOK'
    BY <1>1 DEF SessionInv, SessionTypeOK
  <1> QED
    BY <1>1, <1>2 DEF SessionInv, SlotsInjective, PreviousMatchesSlots, ReportIsState,
                      TouchOnlyAfterHandshake, HasActiveContacts, SessionView

LEMMA SubmitSucceedsInv ==
    ASSUME IInv, SubmitSucceeds
    PROVE  IInv'
  <1>1. /\ pc = "submit" /\ error = "none" /\ ForgetOutput
        /\ pc' = Resume(pending) /\ UNCHANGED <<pending, frag, failures, stops>>
    BY DEF SubmitSucceeds, IInv, ErrorInv
  <1>2. PICK frame \in output : /\ host' = Reported(frame)
                                /\ exposed' = (exposed /\ ~frame.reset)
    BY DEF SubmitSucceeds, Deliver
  <1>3. /\ SessionInv' /\ SessionView' = SessionView
        /\ HasActiveContacts' = HasActiveContacts
        /\ UNCHANGED <<age, error, reset_seen>> /\ output' = {}
    BY <1>1, ForgetOutputInv DEF IInv
  <1>4. pc' \in {"recv", "process"} /\ (pc' = "process" => pending > 0)
    BY <1>1, BatchAssumption DEF Resume, IInv, TypeOK
  <1>5. host' = SessionView'
    BY <1>2, <1>3, ReportedIsView DEF IInv
  <1>6. exposed' = FALSE
    BY <1>1, <1>2 DEF IInv, HealInv, TypeOK
  <1>7. TypeOK'
    <2>1. host' \in Hosts
      BY <1>3, <1>5, HostType DEF IInv, TypeOK
    <2> QED
      BY <1>1, <1>3, <1>4, <1>6, <2>1 DEF IInv, TypeOK, SessionInv, Labels
  <1>8. HoldInv'
    <2>1. HasActiveContacts' => age' = 0
      BY <1>1, <1>3 DEF IInv, HoldInv
    <2>2. frag' \in Nat
      BY <1>7, FragmentAssumption DEF TypeOK
    <2> QED
      BY <1>4, <2>1, <2>2, TimeAssumption DEF HoldInv, BoundedHold
  <1> QED
    BY <1>1, <1>3, <1>4, <1>5, <1>6, <1>7, <1>8
       DEF IInv, HostInv, HealInv, ErrorInv

LEMMA SubmitFailsInv ==
    ASSUME IInv, SubmitFails
    PROVE  IInv'
  <1>1. /\ ForgetOutput /\ pc' = "closing" /\ pending' = 0
        /\ failures < MaxFailures /\ failures' = failures + 1
        /\ exposed' = TRUE /\ UNCHANGED <<host, frag, stops>>
    BY DEF SubmitFails, Lose
  <1>2. SessionInv' /\ output' = {}
    BY <1>1, ForgetOutputInv DEF IInv
  <1>3. failures' \in 0..MaxFailures
    BY <1>1, BoundsAssumption DEF IInv, TypeOK
  <1>4. TypeOK'
    BY <1>1, <1>2, <1>3, BatchAssumption DEF IInv, TypeOK, SessionInv, Labels
  <1> QED
    BY <1>1, <1>2, <1>4 DEF IInv, HostInv, HealInv, HoldInv, BoundedHold, ErrorInv

LEMMA DisconnectInv ==
    ASSUME IInv, Disconnect
    PROVE  IInv'
  <1>1. /\ pc = "closing" /\ OnDisconnect
        /\ pc' = (IF output' = {} THEN "accept" ELSE "release")
        /\ UNCHANGED <<pending, frag, host, failures, stops, exposed>>
    BY DEF Disconnect
  <1>2. SessionInv' /\ output' = (IF HasActiveContacts THEN {ReleaseFrame} ELSE {})
    BY <1>1, OnDisconnectInv DEF IInv, OnDisconnect, Return
  <1>3. TypeOK'
    BY <1>1, <1>2 DEF IInv, TypeOK, SessionInv, Labels
  <1>4. \A frame \in output' : frame.reset /\ Reported(frame) = Clear
    BY <1>2, ReleaseReportsClear, ReleaseFrameType DEF IInv, SessionInv
  <1>5. output' = {} /\ ~exposed' => ~HostActive'
    <2> SUFFICES ASSUME ~HasActiveContacts, ~exposed
                 PROVE  ~HostActive
      BY <1>1, <1>2 DEF HostActive
    <2> QED
      BY <1>1 DEF IInv, HostInv
  <1>6. HostInv'
    BY <1>1, <1>4, <1>5 DEF HostInv
  <1> QED
    BY <1>1, <1>2, <1>3, <1>6 DEF IInv, HealInv, HoldInv, BoundedHold, ErrorInv

LEMMA ReleaseSucceedsInv ==
    ASSUME IInv, ReleaseSucceeds
    PROVE  IInv'
  <1>1. /\ pc = "release" /\ ForgetOutput /\ pc' = "accept"
        /\ UNCHANGED <<pending, frag, failures, stops>>
    BY DEF ReleaseSucceeds
  <1>2. host' = Clear /\ exposed' = FALSE
    <2>1. PICK frame \in output : /\ host' = Reported(frame)
                                  /\ exposed' = (exposed /\ ~frame.reset)
      BY DEF ReleaseSucceeds, Deliver
    <2> QED
      BY <1>1, <2>1 DEF IInv, HostInv
  <1>3. SessionInv' /\ output' = {}
    BY <1>1, ForgetOutputInv DEF IInv
  <1>4. TypeOK'
    BY <1>1, <1>2, <1>3, HostType DEF IInv, TypeOK, SessionInv, Labels
  <1>5. ~HostActive'
    BY <1>2 DEF HostActive, Clear
  <1> QED
    BY <1>1, <1>3, <1>4, <1>5 DEF IInv, HostInv, HealInv, HoldInv, BoundedHold, ErrorInv

LEMMA ExitInv ==
    ASSUME IInv, Exit, host' = host, exposed' = TRUE, failures' \in 0..MaxFailures
    PROVE  IInv'
  <1>1. SessionInv'
    BY ConstructInv DEF Exit
  <1>2. /\ pc' = "exited" /\ pending' = 0 /\ frag' = 0 /\ output' = {}
        /\ stops < MaxStops /\ stops' = stops + 1
    BY DEF Exit, Construct
  <1>3. stops' \in 0..MaxStops
    BY <1>2, BoundsAssumption DEF IInv, TypeOK
  <1>4. TypeOK'
    BY <1>1, <1>2, <1>3, BatchAssumption, FragmentAssumption
       DEF IInv, TypeOK, SessionInv, Labels
  <1> QED
    BY <1>1, <1>2, <1>4 DEF IInv, HostInv, HealInv, HoldInv, BoundedHold, ErrorInv

LEMMA ReleaseFailsInv ==
    ASSUME IInv, ReleaseFails
    PROVE  IInv'
  <1>1. failures' \in 0..MaxFailures
    BY BoundsAssumption DEF ReleaseFails, Lose, IInv, TypeOK
  <1> QED
    BY <1>1, ExitInv DEF ReleaseFails, Lose

LEMMA StopInv ==
    ASSUME IInv, Stop
    PROVE  IInv'
  BY ExitInv DEF Stop, IInv, TypeOK

LEMMA StartInv ==
    ASSUME IInv, Start
    PROVE  IInv'
  <1>1. /\ pc = "exited" /\ pc' = "accept" /\ UNCHANGED sessionVars
        /\ UNCHANGED <<pending, frag, host, failures, stops, exposed>>
    BY DEF Start
  <1>2. SessionInv' /\ TypeOK'
    BY <1>1, SameSession DEF IInv, TypeOK, Labels, sessionVars
  <1>3. exposed
    BY <1>1 DEF IInv, HostInv
  <1> QED
    BY <1>1, <1>2, <1>3 DEF IInv, HostInv, HealInv, HoldInv, BoundedHold, ErrorInv

LEMMA StutterInv ==
    ASSUME IInv, UNCHANGED vars
    PROVE  IInv'
  <1>1. UNCHANGED sessionVars /\ UNCHANGED receiverVars
    BY DEF vars
  <1>2. SessionInv' /\ SessionTypeOK' /\ SessionView' = SessionView
        /\ HasActiveContacts' = HasActiveContacts
    BY <1>1, SameSession DEF IInv, SessionInv
  <1> QED
    BY <1>1, <1>2 DEF IInv, TypeOK, HostInv, HealInv, HoldInv, BoundedHold, ErrorInv,
                      HostActive, receiverVars, sessionVars

-----------------------------------------------------------------------------
(* The receiver keeps its invariant, whatever the peer sends, however      *)
(* submissions fail and whenever the process is stopped and started.       *)
THEOREM ReceiverInvariant == Spec => []IInv
  <1>1. IInv /\ [Next]_vars => IInv'
    <2> SUFFICES ASSUME IInv, [Next]_vars
                 PROVE  IInv'
      OBVIOUS
    <2>1. CASE Accept
      BY <2>1, AcceptInv
    <2>2. CASE RecvEnds
      BY <2>2, RecvEndsInv
    <2>3. CASE RecvTimeout
      BY <2>3, RecvTimeoutInv
    <2>4. ASSUME NEW n \in 0..MaxBatch, NEW ticks \in {0, 1}, RecvData(n, ticks)
          PROVE  IInv'
      BY <2>4, RecvDataInv
    <2>5. ASSUME NEW m \in Messages, ProcessMessage(m)
          PROVE  IInv'
      BY <2>5, ProcessMessageInv
    <2>6. CASE SubmitSucceeds
      BY <2>6, SubmitSucceedsInv
    <2>7. CASE SubmitFails
      BY <2>7, SubmitFailsInv
    <2>8. CASE Disconnect
      BY <2>8, DisconnectInv
    <2>9. CASE ReleaseSucceeds
      BY <2>9, ReleaseSucceedsInv
    <2>10. CASE ReleaseFails
      BY <2>10, ReleaseFailsInv
    <2>11. CASE Stop
      BY <2>11, StopInv
    <2>12. CASE Start
      BY <2>12, StartInv
    <2>13. CASE UNCHANGED vars
      BY <2>13, StutterInv
    <2> QED
      BY <2>1, <2>2, <2>3, <2>4, <2>5, <2>6, <2>7, <2>8, <2>9, <2>10, <2>11, <2>12, <2>13
         DEF Next, Step, Receive
  <1> QED
    BY <1>1, InitInv, PTL DEF Spec

(* Every variable of the receiver has its type, whatever the bounds.       *)
THEOREM TypeCorrect == Spec => []TypeOK
  <1>1. IInv => TypeOK
    BY DEF IInv
  <1> QED
    BY <1>1, ReceiverInvariant, PTL

(* No connection leaves a contact or the button down behind it, unless a   *)
(* submission failed or the process was stopped since the last RESET.      *)
THEOREM NoGhosts == Spec => []GhostFree
  <1>1. IInv => GhostFree
    BY DEF IInv, HostInv, GhostFree
  <1> QED
    BY <1>1, ReceiverInvariant, PTL

(* While recv waits, Windows sees exactly what the session can release.    *)
THEOREM HostFollowsSession == Spec => []HostMatchesSession
  <1>1. IInv => HostMatchesSession
    <2> SUFFICES ASSUME IInv, pc = "recv", ~exposed
                 PROVE  /\ DOMAIN host.touch = SlotRange(slots)
                        /\ host.button = button_down
                        /\ \A id \in DOMAIN slots :
                              host.touch[slots[id]] = previous_contacts[slots[id]].pos
      BY DEF HostMatchesSession
    <2>1. host = SessionView /\ error = "none"
      BY DEF IInv, HostInv, ErrorInv
    <2>2. DOMAIN previous_contacts = SlotRange(slots)
      BY <2>1 DEF IInv, SessionInv, PreviousMatchesSlots
    <2>3. \A id \in DOMAIN slots : slots[id] \in DOMAIN previous_contacts
      BY <2>2 DEF SlotRange
    <2> QED
      BY <2>1, <2>2, <2>3 DEF SessionView
  <1> QED
    BY <1>1, ReceiverInvariant, PTL

(* A contact is never held longer than kFrameTimeout and one receive for   *)
(* every fragment of the message that is under way.                        *)
THEOREM HoldIsBounded == Spec => []BoundedHold
  <1>1. IInv => BoundedHold
    BY DEF IInv, HoldInv
  <1> QED
    BY <1>1, ReceiverInvariant, PTL

(* A FRAME report never reaches Windows on top of stale contacts: the      *)
(* RESET report that opens every connection gets there first.              *)
THEOREM ResetComesFirst == Spec => ResetHeals
  <1>1. ASSUME IInv, [Next]_vars, NEW frame \in output, host' # host, ~frame.reset
        PROVE  ~exposed
    <2>1. CASE SubmitSucceeds
      BY <1>1, <2>1 DEF SubmitSucceeds, IInv, HealInv
    <2>2. CASE ReleaseSucceeds
      BY <1>1, <2>2 DEF ReleaseSucceeds, IInv, HostInv
    <2>3. host' = host \/ SubmitSucceeds \/ ReleaseSucceeds
      BY <1>1 DEF Next, Step, Receive, Accept, RecvEnds, RecvTimeout, RecvData,
                  ProcessMessage, SubmitFails, Lose, Disconnect, ReleaseFails, Exit,
                  Stop, Start, vars, receiverVars
    <2> QED
      BY <1>1, <2>1, <2>2, <2>3
  <1>2. IInv /\ [Next]_vars =>
           [\A frame \in output : host' # host /\ ~frame.reset => ~exposed]_vars
    BY <1>1
  <1> QED
    BY <1>2, ReceiverInvariant, PTL DEF Spec, ResetHeals

=============================================================================
