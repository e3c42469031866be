------------------------ MODULE TouchSessionProofs ------------------------
(***************************************************************************)
(* Proofs about the receiver's session.  Every call keeps SessionInv; the  *)
(* lemmas are stated per call so that the module Receiver, which makes the *)
(* same calls, can use them too.                                           *)
(***************************************************************************)
EXTENDS TouchSession, WellFoundedInduction, FiniteSetTheorems, FunctionTheorems, TLAPS

-----------------------------------------------------------------------------
(* Messages: what DecodeMessage guarantees of a FRAME.                     *)

\* A FRAME lists each identifier once (Mtp1.cpp:118).
LEMMA FrameContacts ==
    ASSUME NEW m \in Messages, m.type = "FRAME"
    PROVE  /\ m.seq \in 0..(SeqMod - 1)
           /\ m.button \in BOOLEAN
           /\ \E n \in 0..MaxWireContacts : m.contacts \in [1..n -> Contact]
           /\ \A i, j \in DOMAIN m.contacts :
                 m.contacts[i].id = m.contacts[j].id => i = j
  <1>1. m \in [type : {"FRAME"}, seq : 0..(SeqMod - 1), button : BOOLEAN,
               contacts : ContactLists]
    BY DEF Messages
  <1>2. m.contacts \in ContactLists
    BY <1>1
  <1> QED
    BY <1>1, <1>2 DEF ContactLists

\* Place finds the one position of a contact that is present.
LEMMA PresentContact ==
    ASSUME NEW m \in Messages, m.type = "FRAME", NEW id \in Present(m)
    PROVE  /\ id \in Ids
           /\ Place(m, id) \in DOMAIN m.contacts
           /\ Place(m, id) \in Nat
           /\ ContactOf(m, id) \in Contact
           /\ ContactOf(m, id).id = id
           /\ ContactOf(m, id).tip
  <1>1. PICK n \in 0..MaxWireContacts : m.contacts \in [1..n -> Contact]
    BY FrameContacts
  <1>2. PICK i \in DOMAIN m.contacts : m.contacts[i].tip /\ m.contacts[i].id = id
    BY DEF Present
  <1>3. Place(m, id) \in DOMAIN m.contacts /\ m.contacts[Place(m, id)].id = id
    BY <1>2 DEF Place
  <1>4. Place(m, id) = i
    BY <1>2, <1>3, FrameContacts
  <1>5. ContactOf(m, id) = m.contacts[i] /\ m.contacts[i] \in Contact
    BY <1>1, <1>4 DEF ContactOf
  <1> QED
    BY <1>1, <1>2, <1>3, <1>5, WireAssumption DEF Contact

\* Of two contacts that are new in a frame, the loop meets one first.
LEMMA NewOrdered ==
    ASSUME NEW m \in Messages, m.type = "FRAME",
           NEW a \in New(m), NEW b \in New(m), a # b
    PROVE  a \in NewBefore(m, b) \/ b \in NewBefore(m, a)
  <1>1. a \in Present(m) /\ b \in Present(m)
    BY DEF New
  <1>2. /\ Place(m, a) \in Nat /\ Place(m, b) \in Nat
        /\ ContactOf(m, a).id = a /\ ContactOf(m, b).id = b
    BY <1>1, PresentContact
  <1>3. Place(m, a) # Place(m, b)
    BY <1>2 DEF ContactOf
  <1> QED
    BY <1>2, <1>3 DEF NewBefore

\* One new contact comes first, and finds room in an empty map.
LEMMA FirstNewEmplaced ==
    ASSUME NEW m \in Messages, m.type = "FRAME", slots = Nothing, New(m) # {}
    PROVE  Emplaced(m) # {}
  <1> DEFINE Places == {Place(m, id) : id \in New(m)}
             Less == OpToRel(<, Nat)
  <1>1. Places \subseteq Nat /\ Places # {}
    BY PresentContact DEF New
  <1>2. IsWellFoundedOn(Less, Nat)
    BY NatLessThanWellFounded
  <1> HIDE DEF Less
  <1>3. PICK first \in Places : \A other \in Places : ~(<<other, first>> \in Less)
    <2> HIDE DEF Places
    <2> QED
      BY <1>1, <1>2, WFMin
  <1>4. \A other \in Places : ~(other < first)
    BY <1>1, <1>3 DEF Less, OpToRel
  <1>5. PICK id \in New(m) : first = Place(m, id)
    OBVIOUS
  <1>6. NewBefore(m, id) = {}
    BY <1>4, <1>5 DEF NewBefore
  <1>7. DOMAIN slots = {}
    BY DEF Nothing
  <1>8. HasRoom(m, id)
    BY <1>6, <1>7, FS_EmptySet, SlotsAssumption DEF HasRoom
  <1> QED
    BY <1>5, <1>8 DEF Emplaced

-----------------------------------------------------------------------------
(* AllocateSlot: the loop never gives a slot in use to a new contact.      *)
LEMMA MappingInjective ==
    ASSUME NEW m \in Messages, m.type = "FRAME", SlotsInjective,
           NEW next \in Mappings(m)
    PROVE  \A a, b \in DOMAIN slots \cup Emplaced(m) : next[a] = next[b] => a = b
  <1>1. /\ \A id \in DOMAIN slots : next[id] = slots[id]
        /\ \A id \in Emplaced(m) : next[id] \notin UsedSlots(m, id, next)
    BY DEF Mappings, AllocateSlot
  <1>2. \A a \in DOMAIN slots, b \in Emplaced(m) : next[a] # next[b]
    BY <1>1 DEF UsedSlots, SlotRange
  <1>3. \A a, b \in Emplaced(m) : a # b => next[a] # next[b]
    <2> SUFFICES ASSUME NEW a \in Emplaced(m), NEW b \in Emplaced(m), a # b
                 PROVE  next[a] # next[b]
      OBVIOUS
    <2>1. a \in New(m) /\ b \in New(m)
      BY DEF Emplaced
    <2>2. CASE a \in NewBefore(m, b)
      BY <1>1, <2>2 DEF UsedSlots
    <2>3. CASE b \in NewBefore(m, a)
      BY <1>1, <2>3 DEF UsedSlots
    <2> QED
      BY <2>1, <2>2, <2>3, NewOrdered
  <1> QED
    BY <1>1, <1>2, <1>3 DEF SlotsInjective

LEMMA MappingType ==
    ASSUME NEW m \in Messages, m.type = "FRAME", SessionTypeOK,
           NEW next \in Mappings(m)
    PROVE  /\ next \in [DOMAIN slots \cup Emplaced(m) -> Slots]
           /\ DOMAIN next = DOMAIN slots \cup Emplaced(m)
           /\ DOMAIN next \subseteq Ids
           /\ \A id \in DOMAIN slots : next[id] = slots[id]
  <1>1. Emplaced(m) \subseteq Ids
    BY PresentContact DEF Emplaced, New
  <1> QED
    BY <1>1 DEF Mappings, SessionTypeOK

\* In a frame that is accepted every present contact has got a slot, and
\* HolderOf reads the loop's mapping backwards.
LEMMA AcceptedMapping ==
    ASSUME NEW m \in Messages, m.type = "FRAME", SessionTypeOK, SlotsInjective,
           ~Oversized(m), NEW next \in Mappings(m)
    PROVE  /\ DOMAIN next = DOMAIN slots \cup Present(m)
           /\ next \in [DOMAIN slots \cup Present(m) -> Slots]
           /\ \A a, b \in DOMAIN next : next[a] = next[b] => a = b
           /\ \A id \in Present(m) : HolderOf(m, next, next[id]) = id
           /\ DownSlots(m, next) \cap LiftedSlots(m, next) = {}
  <1>1. Emplaced(m) = New(m)
    BY DEF Oversized, Emplaced
  <1>2. DOMAIN slots \cup Emplaced(m) = DOMAIN slots \cup Present(m)
    BY <1>1 DEF New
  <1>3. next \in [DOMAIN slots \cup Present(m) -> Slots]
    BY <1>2, MappingType
  <1>4. \A a, b \in DOMAIN next : next[a] = next[b] => a = b
    BY <1>2, <1>3, MappingInjective
  <1>5. \A id \in Present(m) : HolderOf(m, next, next[id]) = id
    BY <1>3, <1>4 DEF HolderOf
  <1>6. DownSlots(m, next) \cap LiftedSlots(m, next) = {}
    BY <1>3, <1>4 DEF DownSlots, LiftedSlots, Leaving
  <1> QED
    BY <1>3, <1>4, <1>5, <1>6

-----------------------------------------------------------------------------
(* The inductive invariant of the session.  SlotsInjective alone is not    *)
(* inductive enough for the others: PreviousMatchesSlots needs it to read  *)
(* a slot's contact back, ReportIsState needs PreviousMatchesSlots to know *)
(* that a release lifts everything.                                        *)
SessionInv ==
    /\ SessionTypeOK
    /\ SlotsInjective
    /\ PreviousMatchesSlots
    /\ ReportIsState
    /\ TouchOnlyAfterHandshake

\* Entries are built from a tip bit and a position.
LEMMA EntryType ==
    \A tip \in BOOLEAN, pos \in Positions : [tip |-> tip, pos |-> pos] \in Entry
  BY DEF Entry

\* A state with nothing in it, after a release or in a new object.
LEMMA EmptyState ==
    ASSUME slots' = Nothing, previous_contacts' = Nothing
    PROVE  /\ DOMAIN slots' = {} /\ DOMAIN previous_contacts' = {}
           /\ slots' \in [DOMAIN slots' -> Slots]
           /\ previous_contacts' \in [DOMAIN previous_contacts' -> Contact]
           /\ SlotsInjective' /\ PreviousMatchesSlots'
  <1>1. DOMAIN slots' = {} /\ DOMAIN previous_contacts' = {}
    BY DEF Nothing
  <1>2. SlotRange(slots') = {}
    BY <1>1 DEF SlotRange
  <1>3. slots' = [x \in {} |-> 0] /\ previous_contacts' = [x \in {} |-> 0]
    BY DEF Nothing
  <1>4. /\ slots' \in [DOMAIN slots' -> Slots]
        /\ previous_contacts' \in [DOMAIN previous_contacts' -> Contact]
    BY <1>1, <1>3
  <1> QED
    BY <1>1, <1>2, <1>4 DEF SlotsInjective, PreviousMatchesSlots

\* ReleaseAll reports only lifts, so it describes the empty state it leaves.
LEMMA ReleaseFrameType ==
    ASSUME SessionTypeOK
    PROVE  /\ ReleaseFrame \in Frame
           /\ ReleaseFrame.reset
           /\ ReleaseFrame.button = FALSE
           /\ {s \in DOMAIN ReleaseFrame.contacts : ReleaseFrame.contacts[s].tip} = {}
  <1> DEFINE C == [s \in DOMAIN previous_contacts |->
                      [tip |-> FALSE, pos |-> previous_contacts[s].pos]]
  <1>1. DOMAIN previous_contacts \in SUBSET Slots
    BY DEF SessionTypeOK
  <1>2. \A s \in DOMAIN previous_contacts : previous_contacts[s] \in Contact
    BY DEF SessionTypeOK
  <1>3. C \in [DOMAIN previous_contacts -> Entry]
    BY <1>2 DEF Contact, Entry
  <1>4. C \in UNION {[reported -> Entry] : reported \in SUBSET Slots}
    BY <1>1, <1>3
  <1>5. ReleaseFrame = [reset |-> TRUE, button |-> FALSE, contacts |-> C]
    BY DEF ReleaseFrame
  <1> HIDE DEF C
  <1>6. ReleaseFrame \in Frame
    BY <1>4, <1>5 DEF Frame
  <1>7. /\ ReleaseFrame.reset /\ ReleaseFrame.button = FALSE
        /\ ReleaseFrame.contacts = C
    BY <1>5
  <1>8. {s \in DOMAIN C : C[s].tip} = {}
    BY DEF C
  <1> QED
    BY <1>6, <1>7, <1>8

LEMMA ReleaseIsState ==
    ASSUME SessionTypeOK, ReleaseAll, output' \subseteq {ReleaseFrame}
    PROVE  ReportIsState' /\ output' \subseteq Frame
  <1>1. DOMAIN previous_contacts' = {} /\ button_down' = FALSE
    BY EmptyState DEF ReleaseAll
  <1> QED
    BY <1>1, ReleaseFrameType DEF ReportIsState

-----------------------------------------------------------------------------
(* Process keeps the invariant: one lemma for each way through it that     *)
(* changes the tables.                                                     *)

LEMMA AcceptFrameInv ==
    ASSUME SessionInv, NEW m \in Messages, AcceptFrame(m)
    PROVE  SessionInv'
  <1>1. m.type = "FRAME" /\ ~Oversized(m) /\ hello_seen /\ reset_seen
    BY DEF AcceptFrame, ReadyForFrame
  <1>2. PICK next \in Mappings(m) : /\ slots' = Forget(m, next)
                                    /\ previous_contacts' = Remember(m, next)
                                    /\ Return({FrameFor(m, next)})
    BY DEF AcceptFrame
  <1>3. /\ DOMAIN next = DOMAIN slots \cup Present(m)
        /\ next \in [DOMAIN slots \cup Present(m) -> Slots]
        /\ \A a, b \in DOMAIN next : next[a] = next[b] => a = b
        /\ \A id \in Present(m) : HolderOf(m, next, next[id]) = id
        /\ DownSlots(m, next) \cap LiftedSlots(m, next) = {}
    BY <1>1, AcceptedMapping DEF SessionInv
  <1>4. /\ DOMAIN slots' = Present(m)
        /\ \A id \in Present(m) : slots'[id] = next[id] /\ next[id] \in Slots
    BY <1>2, <1>3 DEF Forget
  <1>5. /\ DOMAIN previous_contacts' = DownSlots(m, next)
        /\ \A id \in Present(m) : previous_contacts'[next[id]] = ContactOf(m, id)
    BY <1>2, <1>3 DEF Remember, DownSlots
  <1>6. \A id \in Present(m) : /\ id \in Ids
                               /\ ContactOf(m, id) \in Contact
                               /\ ContactOf(m, id).id = id
                               /\ ContactOf(m, id).tip
    BY <1>1, PresentContact
  <1>7. DownSlots(m, next) \subseteq Slots /\ LiftedSlots(m, next) \subseteq Slots
    BY <1>3 DEF DownSlots, LiftedSlots, SessionInv, SessionTypeOK
  <1>8. \A s \in DownSlots(m, next) : \E id \in Present(m) : s = next[id]
    BY DEF DownSlots
  <1>9. \A s \in DownSlots(m, next) : previous_contacts'[s] \in Contact
    BY <1>5, <1>6, <1>8
  <1>10. SlotsInjective'
    BY <1>3, <1>4 DEF SlotsInjective
  <1>11. PreviousMatchesSlots'
    <2>1. SlotRange(slots') = DownSlots(m, next)
      BY <1>4 DEF SlotRange, DownSlots
    <2>2. \A id \in DOMAIN slots' : /\ previous_contacts'[slots'[id]].id = id
                                    /\ previous_contacts'[slots'[id]].tip
      BY <1>4, <1>5, <1>6
    <2> QED
      BY <1>5, <2>1, <2>2 DEF PreviousMatchesSlots
  <1> DEFINE F == FrameFor(m, next)
             C == F.contacts
  <1>12. /\ F = [reset |-> FALSE, button |-> m.button, contacts |-> C]
         /\ DOMAIN C = DownSlots(m, next) \cup LiftedSlots(m, next)
         /\ C = [s \in DOMAIN C |-> C[s]]
         /\ \A s \in LiftedSlots(m, next) :
               C[s] = [tip |-> FALSE, pos |-> previous_contacts[s].pos]
         /\ \A s \in DownSlots(m, next) :
               C[s] = [tip |-> TRUE, pos |-> ContactOf(m, HolderOf(m, next, s)).pos]
    BY <1>3 DEF FrameFor
  <1>13. output' = {F} /\ button_down' = m.button
    BY <1>2 DEF AcceptFrame, Return
  <1> HIDE DEF F, C
  <1>14. ReportIsState'
    <2>1. \A s \in DownSlots(m, next) : C[s].tip = TRUE
      BY <1>12
    <2>2. \A s \in LiftedSlots(m, next) : C[s].tip = FALSE
      BY <1>12
    <2>3. {s \in DOMAIN C : C[s].tip} = DownSlots(m, next)
      BY <1>3, <1>12, <2>1, <2>2
    <2>4. \A s \in DownSlots(m, next) : C[s].pos = previous_contacts'[s].pos
      BY <1>2, <1>12 DEF Remember
    <2>5. F.contacts = C /\ F.button = m.button
      BY <1>12
    <2> QED
      BY <1>5, <1>13, <2>3, <2>4, <2>5 DEF ReportIsState
  <1>15. output' \subseteq Frame
    <2>1. \A s \in LiftedSlots(m, next) : C[s] \in Entry
      <3>1. \A s \in LiftedSlots(m, next) : previous_contacts[s].pos \in Positions
        BY DEF LiftedSlots, SessionInv, SessionTypeOK, Contact
      <3> QED
        BY <1>12, <3>1, EntryType
    <2>2. \A s \in DownSlots(m, next) : C[s] \in Entry
      <3>1. \A s \in DownSlots(m, next) : ContactOf(m, HolderOf(m, next, s)).pos \in Positions
        BY <1>3, <1>6, <1>8 DEF Contact
      <3> QED
        BY <1>12, <3>1, EntryType
    <2>3. DOMAIN C \in SUBSET Slots
      BY <1>7, <1>12
    <2>4. C \in [DOMAIN C -> Entry]
      BY <1>12, <2>1, <2>2
    <2>5. m.button \in BOOLEAN
      BY <1>1, FrameContacts
    <2>6. F \in Frame
      BY <1>12, <2>3, <2>4, <2>5 DEF Frame
    <2> QED
      BY <1>13, <2>6
  <1>16. SessionTypeOK'
    <2>1. m.seq \in 0..(SeqMod - 1) /\ m.button \in BOOLEAN
      BY <1>1, FrameContacts
    <2>2. DOMAIN slots' \subseteq Ids /\ slots' \in [DOMAIN slots' -> Slots]
      BY <1>2, <1>4, <1>6 DEF Forget
    <2>3. /\ DOMAIN previous_contacts' \subseteq Slots
          /\ previous_contacts' \in [DOMAIN previous_contacts' -> Contact]
      BY <1>2, <1>5, <1>7, <1>9 DEF Remember
    <2>4. error' \in Errors
      BY <1>2 DEF Return, Errors
    <2>5. age' \in 0..AgeLimit
      BY TimeAssumption DEF AcceptFrame
    <2>6. /\ hello_seen' \in BOOLEAN /\ reset_seen' \in BOOLEAN
          /\ sequence_seen' \in BOOLEAN /\ button_down' \in BOOLEAN
          /\ previous_sequence' \in 0..(SeqMod - 1)
      BY <2>1 DEF AcceptFrame, AcceptSequence, SessionInv, SessionTypeOK
    <2> QED
      BY <1>15, <2>2, <2>3, <2>4, <2>5, <2>6 DEF SessionTypeOK
  <1>17. TouchOnlyAfterHandshake'
    BY <1>1 DEF TouchOnlyAfterHandshake, AcceptFrame, AcceptSequence
  <1> QED
    BY <1>10, <1>11, <1>14, <1>16, <1>17 DEF SessionInv

\* The throw in the middle of the loop leaves some contacts without a slot
\* and more slots than reported contacts, but no slot is shared.
LEMMA RejectOversizedInv ==
    ASSUME SessionInv, NEW m \in Messages, RejectOversized(m)
    PROVE  SessionInv'
  <1>1. m.type = "FRAME" /\ hello_seen /\ reset_seen
    BY DEF RejectOversized, ReadyForFrame
  <1>2. PICK next \in Mappings(m) : slots' = next
    BY DEF RejectOversized
  <1>3. /\ output' = {} /\ error' = "more than five active contacts"
        /\ previous_contacts' = previous_contacts
    BY DEF RejectOversized, Throw
  <1>4. SlotsInjective'
    <2>1. \A a, b \in DOMAIN slots \cup Emplaced(m) : next[a] = next[b] => a = b
      BY <1>1, MappingInjective DEF SessionInv
    <2>2. DOMAIN next = DOMAIN slots \cup Emplaced(m)
      BY <1>1, MappingType DEF SessionInv
    <2> QED
      BY <1>2, <2>1, <2>2 DEF SlotsInjective
  <1>5. SessionTypeOK'
    <2>1. m.seq \in 0..(SeqMod - 1) /\ m.button \in BOOLEAN
      BY <1>1, FrameContacts
    <2>2. DOMAIN slots' \subseteq Ids /\ slots' \in [DOMAIN slots' -> Slots]
      BY <1>1, <1>2, MappingType DEF SessionInv
    <2>3. error' \in Errors /\ output' \subseteq Frame
      BY <1>3 DEF Errors
    <2>4. /\ hello_seen' \in BOOLEAN /\ reset_seen' \in BOOLEAN
          /\ sequence_seen' \in BOOLEAN /\ button_down' \in BOOLEAN
          /\ previous_sequence' \in 0..(SeqMod - 1) /\ age' \in 0..AgeLimit
      BY <2>1 DEF RejectOversized, AcceptSequence, SessionInv, SessionTypeOK
    <2> QED
      BY <1>3, <2>2, <2>3, <2>4 DEF SessionTypeOK, SessionInv
  <1>6. PreviousMatchesSlots' /\ ReportIsState'
    BY <1>3 DEF PreviousMatchesSlots, ReportIsState
  <1>7. TouchOnlyAfterHandshake'
    BY <1>1 DEF TouchOnlyAfterHandshake, RejectOversized, AcceptSequence
  <1> QED
    BY <1>4, <1>5, <1>6, <1>7 DEF SessionInv

\* A call that leaves the tables alone and returns no frame.
LEMMA TablesUnchangedInv ==
    ASSUME SessionInv,
           UNCHANGED <<slots, previous_contacts, button_down>>,
           output' = {}, error' \in Errors, error' = "none" => error = "none",
           hello_seen' \in BOOLEAN, reset_seen' \in BOOLEAN, sequence_seen' \in BOOLEAN,
           hello_seen => hello_seen', reset_seen => reset_seen',
           sequence_seen => sequence_seen',
           previous_sequence' \in 0..(SeqMod - 1), age' \in 0..AgeLimit
    PROVE  SessionInv'
  <1>1. SessionTypeOK'
    BY DEF SessionInv, SessionTypeOK
  <1>2. SlotsInjective' /\ PreviousMatchesSlots' /\ ReportIsState'
    BY DEF SessionInv, SlotsInjective, PreviousMatchesSlots, ReportIsState
  <1>3. TouchOnlyAfterHandshake'
    BY DEF SessionInv, TouchOnlyAfterHandshake, HasActiveContacts
  <1> QED
    BY <1>1, <1>2, <1>3 DEF SessionInv

\* A call that releases everything.
LEMMA ReleaseInv ==
    ASSUME SessionInv, ReleaseAll, output' \subseteq {ReleaseFrame}, error' = "none",
           hello_seen' \in BOOLEAN, reset_seen' \in BOOLEAN, sequence_seen' \in BOOLEAN,
           previous_sequence' \in 0..(SeqMod - 1), age' \in 0..AgeLimit
    PROVE  SessionInv'
  <1>1. slots' = Nothing /\ previous_contacts' = Nothing /\ button_down' = FALSE
    BY DEF ReleaseAll
  <1>2. ReportIsState' /\ output' \subseteq Frame
    BY ReleaseIsState DEF SessionInv
  <1>3. SessionTypeOK'
    BY <1>1, <1>2, EmptyState DEF SessionTypeOK, Errors
  <1>4. TouchOnlyAfterHandshake'
    BY <1>1 DEF TouchOnlyAfterHandshake, HasActiveContacts
  <1> QED
    BY <1>1, <1>2, <1>3, <1>4, EmptyState DEF SessionInv

\* TouchSession::Process keeps the invariant, whatever it returns or throws.
LEMMA ProcessInv ==
    ASSUME SessionInv, error = "none", NEW m \in Messages, Process(m)
    PROVE  SessionInv'
  <1>1. m.seq \in 0..(SeqMod - 1)
    BY DEF Messages
  <1>2. CASE RejectSequence(m)
    BY <1>2, TablesUnchangedInv DEF RejectSequence, Throw, Errors, SessionInv, SessionTypeOK
  <1>3. CASE ProcessHello(m)
    BY <1>1, <1>3, TablesUnchangedInv
       DEF ProcessHello, AcceptSequence, Throw, Return, Errors, SessionInv, SessionTypeOK
  <1>4. CASE RejectEarly(m)
    BY <1>1, <1>4, TablesUnchangedInv
       DEF RejectEarly, AcceptSequence, Throw, Errors, SessionInv, SessionTypeOK
  <1>5. CASE ProcessReset(m)
    BY <1>1, <1>5, ReleaseInv
       DEF ProcessReset, AcceptSequence, Return, SessionInv, SessionTypeOK
  <1>6. CASE RejectOversized(m)
    BY <1>6, RejectOversizedInv
  <1>7. CASE AcceptFrame(m)
    BY <1>7, AcceptFrameInv
  <1> QED
    BY <1>2, <1>3, <1>4, <1>5, <1>6, <1>7 DEF Process

LEMMA OnDisconnectInv ==
    ASSUME SessionInv, OnDisconnect
    PROVE  SessionInv'
  BY ReleaseInv DEF OnDisconnect, Return, SessionInv, SessionTypeOK

LEMMA OlderType ==
    ASSUME NEW a \in 0..AgeLimit, NEW ticks \in {0, 1}
    PROVE  Older(a, ticks) \in 0..AgeLimit
  BY TimeAssumption DEF Older

LEMMA OnTimeoutInv ==
    ASSUME SessionInv, error = "none", NEW now \in 0..AgeLimit, OnTimeout(now)
    PROVE  SessionInv'
  <1>1. CASE TimedOut(now)
    BY <1>1, ReleaseInv DEF OnTimeout, Return, SessionInv, SessionTypeOK
  <1>2. CASE ~TimedOut(now)
    BY <1>2, TablesUnchangedInv DEF OnTimeout, Return, Errors, SessionInv, SessionTypeOK
  <1> QED
    BY <1>1, <1>2

LEMMA ZeroInRange == 0 \in 0..(SeqMod - 1) /\ 0 \in 0..AgeLimit
  BY SeqAssumption, TimeAssumption

LEMMA ConstructInv ==
    ASSUME Construct
    PROVE  SessionInv'
  <1>1. slots' = Nothing /\ previous_contacts' = Nothing /\ button_down' = FALSE
        /\ output' = {} /\ error' = "none"
    BY DEF Construct
  <1>2. SessionTypeOK'
    BY <1>1, EmptyState, ZeroInRange DEF Construct, SessionTypeOK, Errors
  <1>3. TouchOnlyAfterHandshake' /\ ReportIsState'
    BY <1>1 DEF TouchOnlyAfterHandshake, HasActiveContacts, ReportIsState
  <1> QED
    BY <1>1, <1>2, <1>3, EmptyState DEF SessionInv

LEMMA NewSessionInv ==
    ASSUME NewSession
    PROVE  SessionInv
  <1>1. slots = [x \in {} |-> 0] /\ previous_contacts = [x \in {} |-> 0]
    BY DEF NewSession, Nothing
  <1>2. /\ DOMAIN slots = {} /\ DOMAIN previous_contacts = {}
        /\ slots \in [DOMAIN slots -> Slots]
        /\ previous_contacts \in [DOMAIN previous_contacts -> Contact]
        /\ SlotRange(slots) = {}
    BY <1>1 DEF SlotRange
  <1>3. SessionTypeOK
    BY <1>2, ZeroInRange DEF NewSession, SessionTypeOK, Errors
  <1>4. SlotsInjective /\ PreviousMatchesSlots /\ ReportIsState
    BY <1>2 DEF NewSession, SlotsInjective, PreviousMatchesSlots, ReportIsState
  <1>5. TouchOnlyAfterHandshake
    BY DEF NewSession, TouchOnlyAfterHandshake, HasActiveContacts
  <1> QED
    BY <1>3, <1>4, <1>5 DEF SessionInv

-----------------------------------------------------------------------------
(* The session under any legal sequence of calls keeps its invariant: no   *)
(* slot is ever shared, and the two tables always agree on what is down.   *)
THEOREM SessionInvariant == SessionSpec => []SessionInv
  <1>1. SessionInit => SessionInv
    BY NewSessionInv DEF SessionInit
  <1>2. SessionInv /\ [SessionNext]_sessionVars => SessionInv'
    <2> SUFFICES ASSUME SessionInv, [SessionNext]_sessionVars
                 PROVE  SessionInv'
      OBVIOUS
    <2>1. ASSUME error = "none", NEW m \in Messages, Process(m)
          PROVE  SessionInv'
      BY <2>1, ProcessInv
    <2>2. ASSUME error = "none", NEW ticks \in {0, 1}, OnTimeout(Older(age, ticks))
          PROVE  SessionInv'
      <3>1. Older(age, ticks) \in 0..AgeLimit
        BY OlderType DEF SessionInv, SessionTypeOK
      <3> QED
        BY <2>2, <3>1, OnTimeoutInv
    <2>3. CASE OnDisconnect
      BY <2>3, OnDisconnectInv
    <2>4. CASE Construct
      BY <2>4, ConstructInv
    <2>5. CASE UNCHANGED sessionVars
      <3>1. SessionTypeOK' /\ SlotsInjective'
        BY <2>5 DEF sessionVars, SessionInv, SessionTypeOK, SlotsInjective
      <3>2. PreviousMatchesSlots'
        BY <2>5 DEF sessionVars, SessionInv, PreviousMatchesSlots, SlotRange
      <3>3. ReportIsState' /\ TouchOnlyAfterHandshake'
        BY <2>5 DEF sessionVars, SessionInv, ReportIsState, TouchOnlyAfterHandshake,
                    HasActiveContacts
      <3> QED
        BY <3>1, <3>2, <3>3 DEF SessionInv
    <2> QED
      BY <2>1, <2>2, <2>3, <2>4, <2>5 DEF SessionNext
  <1> QED
    BY <1>1, <1>2, PTL DEF SessionSpec

(* The type invariant of the class, for every number of slots, identifiers *)
(* and sequence numbers.                                                   *)
THEOREM SessionTypeCorrect == SessionSpec => []SessionTypeOK
  <1>1. SessionInv => SessionTypeOK
    BY DEF SessionInv
  <1> QED
    BY <1>1, SessionInvariant, PTL

(* AllocateSlot and the erase loop never let two contacts share a slot.    *)
THEOREM SlotsNeverShared == SessionSpec => []SlotsInjective
  <1>1. SessionInv => SlotsInjective
    BY DEF SessionInv
  <1> QED
    BY <1>1, SessionInvariant, PTL

(* slots_ and previous_contacts_ agree after every call that returns, so   *)
(* the lift of a tracked contact is never skipped.                         *)
THEOREM TablesAgree == SessionSpec => []PreviousMatchesSlots
  <1>1. SessionInv => PreviousMatchesSlots
    BY DEF SessionInv
  <1> QED
    BY <1>1, SessionInvariant, PTL

(* Process exposes a contact only after HELLO and a RESET that was         *)
(* accepted, and never keeps one past a connection: a session that is not   *)
(* open holds no touch.                                                     *)
THEOREM TouchNeedsHandshake == SessionSpec => []TouchOnlyAfterHandshake
  <1>1. SessionInv => TouchOnlyAfterHandshake
    BY DEF SessionInv
  <1> QED
    BY <1>1, SessionInvariant, PTL

-----------------------------------------------------------------------------
(* What a call may never do to a contact.                                  *)

\* What has been reported down is tracked, also after a throw: the disconnect
\* that follows one releases whenever something is still down at Windows.
PreviousInSlots == DOMAIN previous_contacts \subseteq SlotRange(slots)

LEMMA NothingActive ==
    ASSUME PreviousInSlots, ~HasActiveContacts
    PROVE  DOMAIN previous_contacts = {}
  BY DEF PreviousInSlots, HasActiveContacts, SlotRange, Nothing

\* The calls that change the tables, in the terms of the two action properties.
LEMMA AcceptFrameTables ==
    ASSUME SessionInv, error = "none", NEW m \in Messages, AcceptFrame(m)
    PROVE  /\ \A a \in DOMAIN slots, b \in DOMAIN slots' : slots[a] = slots'[b] <=> a = b
           /\ \A s \in DOMAIN previous_contacts \ DOMAIN previous_contacts' :
                 \E frame \in output' :
                    /\ s \in DOMAIN frame.contacts
                    /\ frame.contacts[s] = [tip |-> FALSE, pos |-> previous_contacts[s].pos]
           /\ PreviousInSlots'
  <1>1. m.type = "FRAME" /\ ~Oversized(m)
    BY DEF AcceptFrame, ReadyForFrame
  <1>2. PICK next \in Mappings(m) : /\ slots' = Forget(m, next)
                                    /\ previous_contacts' = Remember(m, next)
                                    /\ Return({FrameFor(m, next)})
    BY DEF AcceptFrame
  <1>3. /\ DOMAIN next = DOMAIN slots \cup Present(m)
        /\ \A a, b \in DOMAIN next : next[a] = next[b] => a = b
        /\ \A id \in DOMAIN slots : next[id] = slots[id]
    BY <1>1, AcceptedMapping, MappingType DEF SessionInv
  <1>4. /\ DOMAIN slots' = Present(m)
        /\ \A id \in Present(m) : slots'[id] = next[id]
    BY <1>2 DEF Forget
  <1>5. \A a \in DOMAIN slots, b \in DOMAIN slots' : slots[a] = slots'[b] <=> a = b
    BY <1>3, <1>4
  <1>6. DOMAIN previous_contacts' = {next[id] : id \in Present(m)}
    BY <1>2 DEF Remember, DownSlots
  <1>7. PreviousInSlots'
    BY <1>4, <1>6 DEF PreviousInSlots, SlotRange
  <1>8. ASSUME NEW s \in DOMAIN previous_contacts \ DOMAIN previous_contacts'
        PROVE  \E frame \in output' :
                  /\ s \in DOMAIN frame.contacts
                  /\ frame.contacts[s] = [tip |-> FALSE, pos |-> previous_contacts[s].pos]
    <2>1. PICK id \in DOMAIN slots : s = slots[id]
      BY DEF SessionInv, PreviousMatchesSlots, SlotRange
    <2>2. id \in Leaving(m)
      BY <1>3, <1>6, <1>8, <2>1 DEF Leaving
    <2>3. s \in LiftedSlots(m, next)
      BY <1>3, <2>1, <2>2 DEF LiftedSlots
    <2>4. /\ s \in DOMAIN FrameFor(m, next).contacts
          /\ FrameFor(m, next).contacts[s] = [tip |-> FALSE, pos |-> previous_contacts[s].pos]
      BY <2>3 DEF FrameFor
    <2>5. output' = {FrameFor(m, next)}
      BY <1>2 DEF Return
    <2> QED
      BY <2>4, <2>5
  <1> QED
    BY <1>5, <1>7, <1>8

LEMMA RejectOversizedTables ==
    ASSUME SessionInv, PreviousInSlots, NEW m \in Messages, RejectOversized(m)
    PROVE  /\ \A a \in DOMAIN slots, b \in DOMAIN slots' : slots[a] = slots'[b] <=> a = b
           /\ previous_contacts' = previous_contacts
           /\ PreviousInSlots'
  <1>1. m.type = "FRAME" /\ previous_contacts' = previous_contacts
    BY DEF RejectOversized, ReadyForFrame
  <1>2. PICK next \in Mappings(m) : slots' = next
    BY DEF RejectOversized
  <1>3. /\ DOMAIN next = DOMAIN slots \cup Emplaced(m)
        /\ \A a, b \in DOMAIN next : next[a] = next[b] => a = b
        /\ \A id \in DOMAIN slots : next[id] = slots[id]
    BY <1>1, MappingInjective, MappingType DEF SessionInv
  <1>4. \A a \in DOMAIN slots, b \in DOMAIN slots' : slots[a] = slots'[b] <=> a = b
    BY <1>2, <1>3
  <1>5. PreviousInSlots'
    BY <1>1, <1>2, <1>3 DEF PreviousInSlots, SlotRange
  <1> QED
    BY <1>1, <1>4, <1>5

\* A release reports every contact that was down as lifted where it was.
LEMMA ReleaseTables ==
    ASSUME ReleaseAll
    PROVE  /\ DOMAIN slots' = {}
           /\ PreviousInSlots'
           /\ \A s \in DOMAIN previous_contacts :
                 /\ s \in DOMAIN ReleaseFrame.contacts
                 /\ ReleaseFrame.contacts[s] =
                       [tip |-> FALSE, pos |-> previous_contacts[s].pos]
  BY DEF ReleaseAll, Nothing, PreviousInSlots, SlotRange, ReleaseFrame

\* One call of the class, legal at this moment.
Call ==
    \/ error = "none" /\ \E m \in Messages : Process(m)
    \/ error = "none" /\ \E now \in 0..AgeLimit : OnTimeout(now)
    \/ OnDisconnect
    \/ ~sequence_seen /\ Construct

LEMMA CallTables ==
    ASSUME SessionInv, PreviousInSlots, Call
    PROVE  /\ \A a \in DOMAIN slots, b \in DOMAIN slots' : slots[a] = slots'[b] <=> a = b
           /\ \A s \in DOMAIN previous_contacts \ DOMAIN previous_contacts' :
                 \E frame \in output' :
                    /\ s \in DOMAIN frame.contacts
                    /\ frame.contacts[s] = [tip |-> FALSE, pos |-> previous_contacts[s].pos]
           /\ PreviousInSlots'
  <1> DEFINE Stable == \A a \in DOMAIN slots, b \in DOMAIN slots' :
                          slots[a] = slots'[b] <=> a = b
             Lifted == \A s \in DOMAIN previous_contacts \ DOMAIN previous_contacts' :
                 \E frame \in output' :
                    /\ s \in DOMAIN frame.contacts
                    /\ frame.contacts[s] = [tip |-> FALSE, pos |-> previous_contacts[s].pos]
  <1>1. ASSUME UNCHANGED <<slots, previous_contacts>>
        PROVE  Stable /\ Lifted /\ PreviousInSlots'
    BY <1>1 DEF SessionInv, SlotsInjective, PreviousInSlots, SlotRange
  <1>2. ASSUME ReleaseAll, output' = {ReleaseFrame}
        PROVE  Stable /\ Lifted /\ PreviousInSlots'
    BY <1>2, ReleaseTables
  <1>3. ASSUME error = "none", NEW m \in Messages, Process(m)
        PROVE  Stable /\ Lifted /\ PreviousInSlots'
    <2>1. CASE RejectSequence(m) \/ ProcessHello(m) \/ RejectEarly(m)
      BY <1>1, <2>1 DEF RejectSequence, ProcessHello, RejectEarly
    <2>2. CASE ProcessReset(m)
      BY <1>2, <2>2 DEF ProcessReset, Return
    <2>3. CASE RejectOversized(m)
      BY <2>3, RejectOversizedTables
    <2>4. CASE AcceptFrame(m)
      BY <1>3, <2>4, AcceptFrameTables
    <2> QED
      BY <1>3, <2>1, <2>2, <2>3, <2>4 DEF Process
  <1>4. ASSUME NEW now \in 0..AgeLimit, OnTimeout(now)
        PROVE  Stable /\ Lifted /\ PreviousInSlots'
    <2>1. CASE TimedOut(now)
      BY <1>2, <1>4, <2>1 DEF OnTimeout, Return
    <2>2. CASE ~TimedOut(now)
      BY <1>1, <1>4, <2>2 DEF OnTimeout
    <2> QED
      BY <2>1, <2>2
  <1>5. CASE OnDisconnect
    <2>1. CASE HasActiveContacts
      BY <1>2, <1>5, <2>1 DEF OnDisconnect, Return
    <2>2. CASE ~HasActiveContacts
      BY <1>5, <2>2, NothingActive, ReleaseTables DEF OnDisconnect
    <2> QED
      BY <2>1, <2>2
  <1>6. CASE ~sequence_seen /\ Construct
    <2>1. ~HasActiveContacts
      BY <1>6 DEF SessionInv, TouchOnlyAfterHandshake
    <2>2. DOMAIN slots' = {} /\ DOMAIN previous_contacts' = {}
      BY <1>6 DEF Construct, Nothing
    <2> QED
      BY <2>1, <2>2, NothingActive DEF PreviousInSlots
  <1> QED
    BY <1>3, <1>4, <1>5, <1>6 DEF Call

LEMMA SessionCalls ==
    ASSUME SessionInv, SessionNext
    PROVE  Call
  <1>1. \A ticks \in {0, 1} : Older(age, ticks) \in 0..AgeLimit
    BY OlderType DEF SessionInv, SessionTypeOK
  <1> QED
    BY <1>1 DEF SessionNext, Call

LEMMA PreviousIsInvariant == SessionSpec => [](SessionInv /\ PreviousInSlots)
  <1>1. SessionInit => PreviousInSlots
    BY DEF SessionInit, NewSession, PreviousInSlots, Nothing, SlotRange
  <1>2. SessionInv /\ PreviousInSlots /\ [SessionNext]_sessionVars => PreviousInSlots'
    <2>1. CASE SessionNext
      BY <2>1, SessionCalls, CallTables
    <2>2. CASE UNCHANGED sessionVars
      BY <2>2 DEF sessionVars, PreviousInSlots, SlotRange
    <2> QED
      BY <2>1, <2>2
  <1> QED
    BY <1>1, <1>2, SessionInvariant, PTL DEF SessionSpec

(* A contact keeps its slot while it is down, and a slot is not handed on  *)
(* in the report in which its contact leaves, for any number of slots and  *)
(* contacts: AllocateSlot sees the leaving contacts, which are erased only *)
(* after the loop (TouchSession.cpp:50-104).                               *)
THEOREM SlotsStayOwned == SessionSpec => SlotOwnershipStable
  <1>1. SessionInv /\ PreviousInSlots /\ [SessionNext]_sessionVars =>
           [\A a \in DOMAIN slots, b \in DOMAIN slots' :
               (slots[a] = slots'[b]) <=> (a = b)]_sessionVars
    BY SessionCalls, CallTables
  <1> QED
    BY <1>1, PreviousIsInvariant, PTL DEF SessionSpec, SlotOwnershipStable

(* No contact that was reported down is forgotten without a report that    *)
(* lifts it, in the same call: by a frame, a RESET, the timeout and the    *)
(* disconnect that follows a throw (TouchSession.cpp:69-104, 132-152).     *)
THEOREM ForgottenAreLifted == SessionSpec => ForgottenIsLifted
  <1>1. SessionInv /\ PreviousInSlots /\ [SessionNext]_sessionVars =>
           [\A s \in DOMAIN previous_contacts \ DOMAIN previous_contacts' :
              \E frame \in output' :
                 /\ s \in DOMAIN frame.contacts
                 /\ frame.contacts[s] =
                       [tip |-> FALSE, pos |-> previous_contacts[s].pos]]_sessionVars
    BY SessionCalls, CallTables
  <1> QED
    BY <1>1, PreviousIsInvariant, PTL DEF SessionSpec, ForgottenIsLifted
-----------------------------------------------------------------------------
(* Room and slots: the loop of Process can always place what it takes.     *)

\* A number with a property has a smallest one with it.
LEMMA LeastNumber ==
    ASSUME NEW T \in SUBSET Nat, T # {}
    PROVE  \E x \in T : \A y \in T : x <= y
  <1> DEFINE Less == OpToRel(<, Nat)
  <1>1. IsWellFoundedOn(Less, Nat)
    BY NatLessThanWellFounded
  <1> HIDE DEF Less
  <1>2. PICK x \in T : \A y \in T : ~(<<y, x>> \in Less)
    BY <1>1, WFMin
  <1>3. \A y \in T : ~(y < x)
    BY <1>2 DEF Less, OpToRel
  <1> QED
    BY <1>3

\* slots_ has no more entries than there are slots, and every entry a slot.
LEMMA SlotsCounted ==
    ASSUME SessionTypeOK, SlotsInjective
    PROVE  /\ IsFiniteSet(Slots) /\ Cardinality(Slots) = MaxSlots
           /\ IsFiniteSet(DOMAIN slots) /\ Cardinality(DOMAIN slots) \in Nat
           /\ Cardinality(DOMAIN slots) <= MaxSlots
           /\ IsFiniteSet(SlotRange(slots)) /\ SlotRange(slots) \subseteq Slots
           /\ Cardinality(SlotRange(slots)) <= Cardinality(DOMAIN slots)
  <1>1. IsFiniteSet(Slots) /\ Cardinality(Slots) = MaxSlots
    BY SlotsAssumption, FS_Interval DEF Slots
  <1>2. slots \in [DOMAIN slots -> Slots]
    BY DEF SessionTypeOK
  <1>3. slots \in Injection(DOMAIN slots, Slots)
    BY <1>2, Fun_IsInj DEF SlotsInjective
  <1>4. IsFiniteSet(DOMAIN slots) /\ Cardinality(DOMAIN slots) <= MaxSlots
    BY <1>1, <1>3, FS_Injection
  <1>5. slots \in Surjection(DOMAIN slots, SlotRange(slots))
    <2>1. slots \in [DOMAIN slots -> SlotRange(slots)]
      BY <1>2 DEF SlotRange
    <2>2. \A s \in SlotRange(slots) : \E id \in DOMAIN slots : slots[id] = s
      BY DEF SlotRange
    <2> QED
      BY <2>1, <2>2, Fun_IsSurj
  <1>6. /\ IsFiniteSet(SlotRange(slots))
        /\ Cardinality(SlotRange(slots)) <= Cardinality(DOMAIN slots)
    BY <1>4, <1>5, FS_Surjection
  <1>7. SlotRange(slots) \subseteq Slots
    BY <1>2 DEF SlotRange
  <1> QED
    BY <1>1, <1>4, <1>6, <1>7, FS_CardinalityType

\* The contacts a frame brings are told apart by their places.
LEMMA NewCounted ==
    ASSUME NEW m \in Messages, m.type = "FRAME"
    PROVE  /\ IsFiniteSet(New(m))
           /\ \A id \in New(m) : Place(m, id) \in 1..MaxWireContacts
           /\ \A a, b \in New(m) : Place(m, a) = Place(m, b) => a = b
           /\ \A id \in New(m) : /\ NewBefore(m, id) \subseteq New(m) \ {id}
                                 /\ IsFiniteSet(NewBefore(m, id))
                                 /\ Cardinality(NewBefore(m, id)) \in Nat
  <1>1. PICK n \in 0..MaxWireContacts : m.contacts \in [1..n -> Contact]
    BY FrameContacts
  <1>2. \A id \in New(m) : Place(m, id) \in 1..MaxWireContacts /\ Place(m, id) \in 1..n
    BY <1>1, PresentContact, WireAssumption DEF New
  <1>3. \A a, b \in New(m) : Place(m, a) = Place(m, b) => a = b
    <2>1. \A id \in New(m) : ContactOf(m, id).id = id
      BY PresentContact DEF New
    <2> QED
      BY <2>1 DEF ContactOf
  <1> DEFINE place == [id \in New(m) |-> Place(m, id)]
  <1>4. place \in Injection(New(m), 1..n)
    <2>1. place \in [New(m) -> 1..n]
      BY <1>2
    <2>2. \A a, b \in New(m) : place[a] = place[b] => a = b
      BY <1>3
    <2> QED
      BY <2>1, <2>2, Fun_IsInj
  <1>5. IsFiniteSet(1..n)
    BY WireAssumption, FS_Interval
  <1>6. IsFiniteSet(New(m))
    <2> HIDE DEF place
    <2> QED
      BY <1>4, <1>5, FS_Injection
  <1>7. ASSUME NEW id \in New(m)
        PROVE  NewBefore(m, id) \subseteq New(m) \ {id}
    BY <1>2, <1>7, WireAssumption DEF NewBefore
  <1>8. \A id \in New(m) : IsFiniteSet(NewBefore(m, id))
    <2>1. \A id \in New(m) : NewBefore(m, id) \in SUBSET New(m)
      BY <1>7
    <2> QED
      BY <1>6, <2>1, FS_Subset
  <1> QED
    BY <1>2, <1>3, <1>6, <1>7, <1>8, FS_CardinalityType

\* What comes before an emplaced contact is emplaced as well.
LEMMA EmplacedFirst ==
    ASSUME NEW m \in Messages, m.type = "FRAME", SessionTypeOK, SlotsInjective,
           NEW id \in Emplaced(m), NEW other \in NewBefore(m, id)
    PROVE  other \in Emplaced(m)
  <1>1. id \in New(m) /\ other \in New(m) /\ Place(m, other) < Place(m, id)
    BY DEF Emplaced, NewBefore
  <1>2. /\ Place(m, id) \in Nat /\ Place(m, other) \in Nat
        /\ \A x \in New(m) : Place(m, x) \in Nat
    BY <1>1, NewCounted, WireAssumption
  <1>3. NewBefore(m, other) \in SUBSET NewBefore(m, id)
    BY <1>1, <1>2 DEF NewBefore
  <1>4. /\ Cardinality(NewBefore(m, other)) <= Cardinality(NewBefore(m, id))
        /\ Cardinality(NewBefore(m, other)) \in Nat
        /\ Cardinality(NewBefore(m, id)) \in Nat
    BY <1>1, <1>3, NewCounted, FS_Subset
  <1>5. Cardinality(DOMAIN slots) \in Nat
    BY SlotsCounted
  <1>6. HasRoom(m, other)
    BY <1>4, <1>5, SlotsAssumption DEF Emplaced, HasRoom
  <1> QED
    BY <1>1, <1>6 DEF Emplaced
\* AllocateSlot returns the lowest slot that is not in use, if there is one.
LEMMA LowestFree ==
    ASSUME NEW used, IsFiniteSet(used), Cardinality(used) < MaxSlots
    PROVE  \E s \in Slots : AllocateSlot(s, used)
  <1>1. IsFiniteSet(Slots) /\ Cardinality(Slots) = MaxSlots
    BY SlotsAssumption, FS_Interval DEF Slots
  <1>2. Slots \ used # {}
    <2>1. SUFFICES ASSUME Slots \in SUBSET used PROVE FALSE
      OBVIOUS
    <2>2. Cardinality(Slots) <= Cardinality(used)
      BY <2>1, FS_Subset
    <2> QED
      BY <1>1, <2>2, SlotsAssumption, FS_CardinalityType
  <1>3. Slots \ used \in SUBSET Nat
    BY SlotsAssumption DEF Slots
  <1>4. PICK s \in Slots \ used : \A t \in Slots \ used : s <= t
    BY <1>2, <1>3, LeastNumber
  <1>5. \A lower \in 0..(s - 1) : lower \in Slots /\ lower < s
    BY <1>4, SlotsAssumption DEF Slots
  <1>6. \A lower \in 0..(s - 1) : lower \in used
    BY <1>3, <1>4, <1>5
  <1> QED
    BY <1>4, <1>6 DEF AllocateSlot

LEMMA LowestFreeIsOne ==
    ASSUME NEW used, NEW s \in Slots, NEW t \in Slots,
           AllocateSlot(s, used), AllocateSlot(t, used)
    PROVE  s = t
  <1>1. s \in Nat /\ t \in Nat
    BY SlotsAssumption DEF Slots
  <1>2. ~(s < t) /\ ~(t < s)
    BY <1>1 DEF AllocateSlot
  <1> QED
    BY <1>1, <1>2

\* When the loop comes to a contact it has room for, a slot is not in use.
LEMMA SlotIsFree ==
    ASSUME NEW m \in Messages, m.type = "FRAME", SessionTypeOK, SlotsInjective,
           NEW id \in Emplaced(m), NEW next
    PROVE  \E s \in Slots : AllocateSlot(s, UsedSlots(m, id, next))
  <1> DEFINE before == NewBefore(m, id)
             given == {next[other] : other \in before}
             give == [other \in before |-> next[other]]
  <1>1. id \in New(m) /\ HasRoom(m, id)
    BY DEF Emplaced
  <1>2. IsFiniteSet(before) /\ Cardinality(before) \in Nat
    BY <1>1, NewCounted
  <1>3. IsFiniteSet(given) /\ Cardinality(given) <= Cardinality(before)
    <2>1. give \in Surjection(before, given)
      <3>1. give \in [before -> given]
        OBVIOUS
      <3>2. \A s \in given : \E other \in before : give[other] = s
        OBVIOUS
      <3> HIDE DEF before, given, give
      <3> QED
        BY <3>1, <3>2, Fun_IsSurj
    <2> HIDE DEF before, given, give
    <2> QED
      BY <1>2, <2>1, FS_Surjection
  <1>4. UsedSlots(m, id, next) = SlotRange(slots) \cup given
    BY DEF UsedSlots
  <1> HIDE DEF given, give
  <1>5. /\ IsFiniteSet(SlotRange(slots)) /\ Cardinality(DOMAIN slots) \in Nat
        /\ Cardinality(SlotRange(slots)) <= Cardinality(DOMAIN slots)
    BY SlotsCounted
  <1>6. /\ IsFiniteSet(SlotRange(slots) \cup given)
        /\ Cardinality(SlotRange(slots) \cup given)
              = Cardinality(SlotRange(slots)) + Cardinality(given)
                  - Cardinality(SlotRange(slots) \cap given)
    BY <1>3, <1>5, FS_Union
  <1>7. /\ Cardinality(SlotRange(slots)) \in Nat /\ Cardinality(given) \in Nat
        /\ Cardinality(SlotRange(slots) \cap given) \in Nat
    <2>1. SlotRange(slots) \cap given \in SUBSET given
      OBVIOUS
    <2>2. IsFiniteSet(SlotRange(slots) \cap given)
      BY <1>3, <2>1, FS_Subset
    <2> QED
      BY <1>3, <1>5, <2>2, FS_CardinalityType
  <1>8. Cardinality(DOMAIN slots) + Cardinality(before) < MaxSlots
    BY <1>1 DEF HasRoom
  <1>9. Cardinality(UsedSlots(m, id, next)) < MaxSlots
    BY <1>2, <1>3, <1>4, <1>5, <1>6, <1>7, <1>8, SlotsAssumption
  <1> QED
    BY <1>4, <1>6, <1>9, LowestFree

\* The loop after the first k contacts: those of them that are emplaced have
\* got their slots.
EmplacedUpTo(m, k) == {id \in Emplaced(m) : Place(m, id) <= k}

PlacedUpTo(m, k, next) ==
    /\ next \in [DOMAIN slots \cup EmplacedUpTo(m, k) -> Slots]
    /\ \A id \in DOMAIN slots : next[id] = slots[id]
    /\ \A id \in EmplacedUpTo(m, k) : AllocateSlot(next[id], UsedSlots(m, id, next))

LEMMA PlaceOneMore ==
    ASSUME NEW m \in Messages, m.type = "FRAME", SessionTypeOK, SlotsInjective,
           NEW k \in Nat, NEW before, PlacedUpTo(m, k, before)
    PROVE  \E next : PlacedUpTo(m, k + 1, next)
  <1>1. /\ \A id \in Emplaced(m) : id \in New(m) /\ id \notin DOMAIN slots
        /\ \A id \in New(m) : Place(m, id) \in Nat
        /\ \A a, b \in New(m) : Place(m, a) = Place(m, b) => a = b
    <2>1. \A id \in New(m) : Place(m, id) \in Nat
      BY NewCounted, WireAssumption
    <2>2. \A id \in Emplaced(m) : id \in New(m) /\ id \notin DOMAIN slots
      BY DEF Emplaced, New
    <2> QED
      BY <2>1, <2>2, NewCounted
  <1>2. CASE ~\E id \in Emplaced(m) : Place(m, id) = k + 1
    <2>1. EmplacedUpTo(m, k + 1) = EmplacedUpTo(m, k)
      BY <1>1, <1>2 DEF EmplacedUpTo
    <2>2. PlacedUpTo(m, k + 1, before)
      BY <2>1 DEF PlacedUpTo
    <2> QED
      BY <2>2
  <1>3. CASE \E id \in Emplaced(m) : Place(m, id) = k + 1
    <2>1. PICK new \in Emplaced(m) : Place(m, new) = k + 1
      BY <1>3
    <2>2. PICK s \in Slots : AllocateSlot(s, UsedSlots(m, new, before))
      BY SlotIsFree
    <2>3. /\ EmplacedUpTo(m, k + 1) = EmplacedUpTo(m, k) \cup {new}
          /\ new \notin EmplacedUpTo(m, k) /\ new \notin DOMAIN slots
      BY <1>1, <2>1 DEF EmplacedUpTo
    <2> DEFINE next == [id \in DOMAIN slots \cup EmplacedUpTo(m, k + 1) |->
                           IF id = new THEN s ELSE before[id]]
    <2>4. next \in [DOMAIN slots \cup EmplacedUpTo(m, k + 1) -> Slots]
      BY <2>2, <2>3 DEF PlacedUpTo
    <2>5. /\ next[new] = s
          /\ \A id \in DOMAIN slots \cup EmplacedUpTo(m, k) : next[id] = before[id]
      BY <2>3
    <2> HIDE DEF next
    <2>6. ASSUME NEW id \in EmplacedUpTo(m, k + 1)
          PROVE  UsedSlots(m, id, next) = UsedSlots(m, id, before)
      <3>1. \A other \in NewBefore(m, id) : other \in EmplacedUpTo(m, k)
        <4>1. /\ id \in Emplaced(m) /\ id \in New(m) /\ Place(m, id) \in Nat
              /\ Place(m, id) <= k + 1
          BY <1>1, <2>6 DEF EmplacedUpTo
        <4>2. ASSUME NEW other \in NewBefore(m, id)
              PROVE  other \in EmplacedUpTo(m, k)
          <5>1. other \in Emplaced(m)
            BY <4>1, EmplacedFirst
          <5>2. Place(m, other) < Place(m, id) /\ Place(m, other) \in Nat
            BY <1>1, <5>1 DEF NewBefore
          <5> QED
            BY <4>1, <5>1, <5>2 DEF EmplacedUpTo
        <4> QED
          BY <4>2
      <3>2. \A other \in NewBefore(m, id) : next[other] = before[other]
        BY <2>5, <3>1
      <3> QED
        BY <3>2 DEF UsedSlots
    <2>7. \A id \in EmplacedUpTo(m, k + 1) : AllocateSlot(next[id], UsedSlots(m, id, next))
      <3>1. AllocateSlot(next[new], UsedSlots(m, new, next))
        BY <2>2, <2>3, <2>5, <2>6
      <3>2. \A id \in EmplacedUpTo(m, k) : AllocateSlot(next[id], UsedSlots(m, id, next))
        BY <2>3, <2>5, <2>6 DEF PlacedUpTo
      <3> QED
        BY <2>3, <3>1, <3>2
    <2>8. \A id \in DOMAIN slots : next[id] = slots[id]
      BY <2>5 DEF PlacedUpTo
    <2> QED
      BY <2>4, <2>7, <2>8 DEF PlacedUpTo
  <1> QED
    BY <1>2, <1>3
\* There is a way to place the contacts of a frame.
LEMMA MappingExists ==
    ASSUME NEW m \in Messages, m.type = "FRAME", SessionTypeOK, SlotsInjective
    PROVE  Mappings(m) # {}
  <1> DEFINE Undone == {k \in Nat : ~\E next : PlacedUpTo(m, k, next)}
  <1>1. \A id \in Emplaced(m) : id \in New(m) /\ Place(m, id) \in 1..MaxWireContacts
    BY NewCounted DEF Emplaced
  <1>2. Undone = {}
    <2>1. SUFFICES ASSUME Undone # {} PROVE FALSE
      OBVIOUS
    <2>2. PICK k \in Undone : \A j \in Undone : k <= j
      <3>1. Undone \in SUBSET Nat
        OBVIOUS
      <3> HIDE DEF Undone
      <3> QED
        BY <2>1, <3>1, LeastNumber
    <2>3. CASE k = 0
      <3>1. EmplacedUpTo(m, 0) = {}
        BY <1>1, WireAssumption DEF EmplacedUpTo
      <3>2. PlacedUpTo(m, 0, slots)
        BY <3>1 DEF PlacedUpTo, SessionTypeOK
      <3> QED
        BY <2>3, <3>2
    <2>4. CASE k # 0
      <3>1. k \in Nat /\ k - 1 \in Nat /\ k - 1 + 1 = k /\ ~(k <= k - 1)
        BY <2>2, <2>4
      <3>2. PICK before : PlacedUpTo(m, k - 1, before)
        BY <2>2, <3>1
      <3>3. \E next : PlacedUpTo(m, k, next)
        <4> HIDE DEF Undone
        <4>1. \E next : PlacedUpTo(m, (k - 1) + 1, next)
          BY <3>1, <3>2, PlaceOneMore
        <4> QED
          BY <3>1, <4>1
      <3> QED
        BY <3>3
    <2> QED
      BY <2>3, <2>4
  <1>3. MaxWireContacts \in Nat
    BY WireAssumption
  <1>4. PICK next : PlacedUpTo(m, MaxWireContacts, next)
    BY <1>2, <1>3
  <1>5. EmplacedUpTo(m, MaxWireContacts) = Emplaced(m)
    BY <1>1, <1>3 DEF EmplacedUpTo
  <1> QED
    BY <1>4, <1>5 DEF PlacedUpTo, Mappings

\* And only one: the first contact that two mappings place differently would
\* find the same slots in use.
LEMMA MappingIsOne ==
    ASSUME NEW m \in Messages, m.type = "FRAME", SessionTypeOK, SlotsInjective,
           NEW a \in Mappings(m), NEW b \in Mappings(m)
    PROVE  a = b
  <1> DEFINE Differ == {id \in Emplaced(m) : a[id] # b[id]}
             Places == {Place(m, id) : id \in Differ}
  <1>1. /\ a \in [DOMAIN slots \cup Emplaced(m) -> Slots]
        /\ b \in [DOMAIN slots \cup Emplaced(m) -> Slots]
        /\ \A id \in DOMAIN slots : a[id] = b[id]
        /\ \A id \in Emplaced(m) : /\ AllocateSlot(a[id], UsedSlots(m, id, a))
                                   /\ AllocateSlot(b[id], UsedSlots(m, id, b))
    BY DEF Mappings
  <1>2. \A id \in Emplaced(m) : id \in New(m) /\ Place(m, id) \in Nat
    BY NewCounted, WireAssumption DEF Emplaced
  <1>3. Differ = {}
    <2>1. SUFFICES ASSUME Differ # {} PROVE FALSE
      OBVIOUS
    <2>2. Places \in SUBSET Nat /\ Places # {}
      BY <1>2, <2>1
    <2>3. PICK first \in Places : \A place \in Places : first <= place
      <3> HIDE DEF Places
      <3> QED
        BY <2>2, LeastNumber
    <2>4. PICK id \in Differ : first = Place(m, id)
      OBVIOUS
    <2>5. \A other \in NewBefore(m, id) : a[other] = b[other]
      <3>1. ASSUME NEW other \in NewBefore(m, id)
            PROVE  a[other] = b[other]
        <4>1. other \in Emplaced(m)
          BY EmplacedFirst
        <4>2. Place(m, other) < first /\ Place(m, other) \in Nat /\ first \in Nat
          BY <1>2, <2>4, <4>1 DEF NewBefore
        <4>3. other \notin Differ
          BY <2>3, <4>2
        <4> QED
          BY <4>1, <4>3
      <3> QED
        BY <3>1
    <2>6. UsedSlots(m, id, a) = UsedSlots(m, id, b)
      BY <2>5 DEF UsedSlots
    <2>7. a[id] = b[id]
      BY <1>1, <2>6, LowestFreeIsOne
    <2> QED
      BY <2>7
  <1>4. \A id \in DOMAIN slots \cup Emplaced(m) : a[id] = b[id]
    BY <1>1, <1>3
  <1> QED
    BY <1>1, <1>4

\* The last new contact of a frame has all the others before it.
LEMMA LastNew ==
    ASSUME NEW m \in Messages, m.type = "FRAME", New(m) # {}
    PROVE  \E id \in New(m) : NewBefore(m, id) = New(m) \ {id}
  <1> DEFINE After == {MaxWireContacts - Place(m, id) : id \in New(m)}
  <1>1. \A id \in New(m) : /\ Place(m, id) \in Nat
                           /\ MaxWireContacts - Place(m, id) \in Nat
    BY NewCounted, WireAssumption
  <1>2. After \in SUBSET Nat /\ After # {}
    BY <1>1
  <1>3. PICK least \in After : \A rest \in After : least <= rest
    <2> HIDE DEF After
    <2> QED
      BY <1>2, LeastNumber
  <1>4. PICK id \in New(m) : least = MaxWireContacts - Place(m, id)
    OBVIOUS
  <1>5. \A other \in New(m) : Place(m, other) <= Place(m, id)
    BY <1>1, <1>3, <1>4, WireAssumption
  <1>6. \A other \in New(m) \ {id} : Place(m, other) < Place(m, id)
    BY <1>1, <1>5, NewCounted
  <1> QED
    BY <1>1, <1>6 DEF NewBefore

\* A frame is too much exactly when its new contacts and those in slots_,
\* which it may release, are together more than the slots.
LEMMA OversizedCounts ==
    ASSUME NEW m \in Messages, m.type = "FRAME", SessionTypeOK, SlotsInjective
    PROVE  Oversized(m) <=> Cardinality(DOMAIN slots \cup Present(m)) > MaxSlots
  <1> DEFINE d == Cardinality(DOMAIN slots)
             n == Cardinality(New(m))
  <1>1. /\ IsFiniteSet(New(m)) /\ IsFiniteSet(DOMAIN slots)
        /\ d \in Nat /\ d <= MaxSlots /\ n \in Nat /\ MaxSlots \in Nat
    BY NewCounted, SlotsCounted, FS_CardinalityType, SlotsAssumption
  <1>2. Cardinality(DOMAIN slots \cup Present(m)) = d + n
    <2>1. DOMAIN slots \cup Present(m) = DOMAIN slots \cup New(m)
      BY DEF New
    <2>2. DOMAIN slots \cap New(m) = {}
      BY DEF New
    <2>3. Cardinality({}) = 0
      BY FS_EmptySet
    <2> QED
      BY <1>1, <2>1, <2>2, <2>3, FS_Union
  <1>3. \A id \in New(m) : /\ Cardinality(New(m) \ {id}) = n - 1
                           /\ IsFiniteSet(New(m) \ {id})
    BY <1>1, FS_RemoveElement
  <1>4. ASSUME Oversized(m) PROVE d + n > MaxSlots
    <2>1. PICK id \in New(m) : ~HasRoom(m, id)
      BY <1>4 DEF Oversized
    <2>2. NewBefore(m, id) \in SUBSET (New(m) \ {id}) /\ Cardinality(NewBefore(m, id)) \in Nat
      BY NewCounted
    <2>3. Cardinality(NewBefore(m, id)) <= n - 1
      <3> DEFINE rest == New(m) \ {id}
      <3>1. Cardinality(rest) = n - 1 /\ IsFiniteSet(rest)
        BY <1>3
      <3>2. NewBefore(m, id) \in SUBSET rest
        BY <2>2
      <3> HIDE DEF d, n, rest
      <3>3. Cardinality(NewBefore(m, id)) <= Cardinality(rest)
        BY <3>1, <3>2, FS_Subset
      <3> QED
        BY <3>1, <3>3
    <2>4. d + Cardinality(NewBefore(m, id)) >= MaxSlots
      BY <1>1, <2>1, <2>2 DEF HasRoom
    <2> HIDE DEF d, n
    <2> QED
      BY <1>1, <2>2, <2>3, <2>4
  <1>5. ASSUME d + n > MaxSlots PROVE Oversized(m)
    <2>1. New(m) # {}
      <3>1. New(m) = {} => n = 0
        BY FS_EmptySet
      <3> HIDE DEF d, n
      <3> QED
        BY <1>1, <1>5, <3>1
    <2>2. PICK id \in New(m) : NewBefore(m, id) = New(m) \ {id}
      BY <2>1, LastNew
    <2>3. Cardinality(NewBefore(m, id)) = n - 1
      BY <1>3, <2>2
    <2>4. ~(d + (n - 1) < MaxSlots)
      <3> HIDE DEF d, n
      <3> QED
        BY <1>1, <1>5
    <2>5. ~HasRoom(m, id)
      BY <2>3, <2>4 DEF HasRoom
    <2> QED
      BY <2>5 DEF Oversized
  <1> HIDE DEF d, n
  <1> QED
    BY <1>2, <1>4, <1>5

LEMMA ListingIsFrame ==
    ASSUME NEW list \in ContactLists
    PROVE  Listing(list) \in Messages /\ Listing(list).type = "FRAME"
  BY SeqAssumption DEF Listing, Messages

(* Whatever came down and went up before: as long as the map has room      *)
(* there is a lowest free slot, so AllocateSlot never throws               *)
(* (TouchSession.cpp:165-174), and every frame has exactly one placement.  *)
THEOREM EveryContactIsPlaced == SessionSpec => []SlotAlwaysFound
  <1>1. SessionInv => SlotAlwaysFound
    <2>1. ASSUME SessionInv, NEW list \in ContactLists
          PROVE  \E next \in Mappings(Listing(list)) : Mappings(Listing(list)) = {next}
      <3>1. PICK next \in Mappings(Listing(list)) : TRUE
        BY <2>1, ListingIsFrame, MappingExists DEF SessionInv
      <3>2. \A other \in Mappings(Listing(list)) : other = next
        BY <2>1, ListingIsFrame, MappingIsOne DEF SessionInv
      <3> QED
        BY <3>2
    <2> QED
      BY <2>1 DEF SlotAlwaysFound
  <1> QED
    BY <1>1, SessionInvariant, PTL

(* "More than five active contacts" is thrown exactly for a frame whose    *)
(* contacts, together with those of the frame before, need more slots than *)
(* there are, in whichever order they are listed (TouchSession.cpp:58).    *)
THEOREM RefusalIsByNumber == SessionSpec => []RefusedByNumberOnly
  <1>1. SessionInv => RefusedByNumberOnly
    BY ListingIsFrame, OversizedCounts DEF SessionInv, RefusedByNumberOnly
  <1> QED
    BY <1>1, SessionInvariant, PTL
=============================================================================
