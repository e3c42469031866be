---------------------------- MODULE TouchSession ----------------------------
(***************************************************************************)
(* The protocol session of the Windows receiver: the class TouchSession of *)
(* windows/receiver/TouchSession.{h,cpp}.  One object lives as long as one *)
(* TCP connection.  It checks the HELLO, RESET, FRAME... order and the     *)
(* sequence numbers, gives each contact identifier of the Mac the lowest   *)
(* free HID slot, turns each complete FRAME into the report to submit to   *)
(* the driver, and releases everything on RESET, disconnect and timeout.   *)
(*                                                                         *)
(* A call of the class is one action.  Its return value (a std::optional   *)
(* frame) is the variable output, its exception the variable error.        *)
(* Floats, scan times and the report's sequence number are left out:       *)
(* no decision of the class reads them.                                    *)
(***************************************************************************)
EXTENDS Integers, FiniteSets, Sequences

CONSTANTS
    Ids,             \* contact identifiers the Mac may send (32-bit numbers)
    Positions,       \* contact coordinates
    MaxSlots,        \* MTP_HID_MAX_CONTACTS, 5
    MaxWireContacts, \* kMaxContacts of Mtp1.h, 10
    SeqMod,          \* sequence numbers wrap at 2^32
    FrameTimeout,    \* kFrameTimeout, in receive timeouts: 200 ms / 50 ms
    AgeLimit         \* bound: ages of this many ticks and more are not told apart

ASSUME SlotsAssumption == MaxSlots \in Nat \ {0}
ASSUME WireAssumption  == MaxWireContacts \in Nat
ASSUME SeqAssumption   == SeqMod \in Nat \ {0, 1}
ASSUME TimeAssumption  == /\ FrameTimeout \in Nat \ {0}
                          /\ AgeLimit \in Nat
                          /\ FrameTimeout <= AgeLimit

VARIABLES
    hello_seen, reset_seen, sequence_seen, button_down, previous_sequence,
    slots,             \* identifier -> slot, for the contacts being tracked
    previous_contacts, \* slot -> contact last reported down in that slot
    age,               \* ticks since last_frame_time_
    output,            \* the frame the last call returned: {frame} or {}
    error              \* the exception the last call threw, or "none"

sessionVars == <<hello_seen, reset_seen, sequence_seen, button_down,
                 previous_sequence, slots, previous_contacts, age, output, error>>

-----------------------------------------------------------------------------
Slots   == 0 .. (MaxSlots - 1)
Contact == [id : Ids, tip : BOOLEAN, pos : Positions]

\* What DecodeMessage lets through: at most kMaxContacts, no identifier twice.
ContactLists ==
    {list \in UNION {[1..n -> Contact] : n \in 0..MaxWireContacts} :
        \A i, j \in DOMAIN list : list[i].id = list[j].id => i = j}

Messages ==
    [type : {"HELLO", "RESET"}, seq : 0..(SeqMod - 1), button : {FALSE},
     contacts : {<< >>}]
    \cup
    [type : {"FRAME"}, seq : 0..(SeqMod - 1), button : BOOLEAN,
     contacts : ContactLists]

\* A report entry; reports are functions from the slots they mention.
Entry == [tip : BOOLEAN, pos : Positions]
Frame == [reset : BOOLEAN, button : BOOLEAN,
          contacts : UNION {[reported -> Entry] : reported \in SUBSET Slots}]

Errors == {"none", "sequence discontinuity", "unexpected HELLO",
           "message received before HELLO", "FRAME received before RESET",
           "more than five active contacts"}

Nothing == [x \in {} |-> 0]

SlotRange(f) == {f[x] : x \in DOMAIN f}

\* Mutant: a button held without a contact does not count.
HasActiveContacts_ContactsOnly == slots # Nothing

HasActiveContacts == slots # Nothing \/ button_down

-----------------------------------------------------------------------------
NewSession ==
    /\ hello_seen = FALSE
    /\ reset_seen = FALSE
    /\ sequence_seen = FALSE
    /\ button_down = FALSE
    /\ previous_sequence = 0
    /\ slots = Nothing
    /\ previous_contacts = Nothing
    /\ age = 0
    /\ output = {}
    /\ error = "none"

\* A new session object, as a step.
Construct ==
    /\ hello_seen' = FALSE
    /\ reset_seen' = FALSE
    /\ sequence_seen' = FALSE
    /\ button_down' = FALSE
    /\ previous_sequence' = 0
    /\ slots' = Nothing
    /\ previous_contacts' = Nothing
    /\ age' = 0
    /\ output' = {}
    /\ error' = "none"

Throw(text) == output' = {} /\ error' = text

Return(frames) == output' = frames /\ error' = "none"

\* TouchSession::ReleaseAll: every contact reported down is reported up, where
\* it was, and the session holds nothing any more.
ReleaseFrame ==
    [reset |-> TRUE, button |-> FALSE,
     contacts |-> [s \in DOMAIN previous_contacts |->
                      [tip |-> FALSE, pos |-> previous_contacts[s].pos]]]

\* Mutants: a release that forgets one of the three resets.
ReleaseAll_KeepsContacts ==
    /\ slots' = Nothing
    /\ UNCHANGED previous_contacts
    /\ button_down' = FALSE

ReleaseAll_KeepsButton ==
    /\ slots' = Nothing
    /\ previous_contacts' = Nothing
    /\ UNCHANGED button_down

ReleaseAll ==
    /\ slots' = Nothing
    /\ previous_contacts' = Nothing
    /\ button_down' = FALSE

-----------------------------------------------------------------------------
(* The contact loop of Process.                                            *)

Place(m, id) == CHOOSE i \in DOMAIN m.contacts : m.contacts[i].id = id
ContactOf(m, id) == m.contacts[Place(m, id)]

\* The set present of the code: identifiers sent with TIP.
Present(m) == {m.contacts[i].id : i \in {j \in DOMAIN m.contacts : m.contacts[j].tip}}

New(m) == Present(m) \ DOMAIN slots
NewBefore(m, id) == {other \in New(m) : Place(m, other) < Place(m, id)}

\* Mutants: one entry too many; every contact listed before id counts.
HasRoom_OneMore(m, id) == Cardinality(DOMAIN slots) + Cardinality(NewBefore(m, id)) <= MaxSlots
HasRoom_ByPlace(m, id) == Cardinality(DOMAIN slots) + Place(m, id) - 1 < MaxSlots

\* Whether the map still has room when the loop comes to the new contact id:
\* the contacts that leave in this frame are erased only after the loop.
HasRoom(m, id) == Cardinality(DOMAIN slots) + Cardinality(NewBefore(m, id)) < MaxSlots
Oversized(m) == \E id \in New(m) : ~HasRoom(m, id)
Emplaced(m) == {id \in New(m) : HasRoom(m, id)}
Leaving(m) == DOMAIN slots \ Present(m)

\* TouchSession::AllocateSlot over the slots in use.
AllocateSlot(s, used) == s \notin used /\ \A lower \in 0..(s - 1) : lower \in used

\* Mutants: contacts emplaced by this frame, or about to leave, do not count.
UsedSlots_OldOnly(m, id, next) == SlotRange(slots)
UsedSlots_Staying(m, id, next) ==
    {slots[other] : other \in DOMAIN slots \cap Present(m)}
        \cup {next[other] : other \in NewBefore(m, id)}

UsedSlots(m, id, next) == SlotRange(slots) \cup {next[other] : other \in NewBefore(m, id)}

\* Mutant: every frame hands out the slots anew.
Mappings_Anew(m) ==
    {next \in [DOMAIN slots \cup Emplaced(m) -> Slots] :
        \A a, b \in DOMAIN next : next[a] = next[b] => a = b}

\* The values slots_ can have after the loop (there is exactly one).
Mappings(m) ==
    {next \in [DOMAIN slots \cup Emplaced(m) -> Slots] :
        /\ \A id \in DOMAIN slots : next[id] = slots[id]
        /\ \A id \in Emplaced(m) : AllocateSlot(next[id], UsedSlots(m, id, next))}

\* next_contacts: present contacts as sent, leaving ones lifted where they were.
DownSlots(m, next) == {next[id] : id \in Present(m)}
\* Mutant: only contacts the frame still lists, without TIP, are lifted.
LiftedSlots_ListedOnly(m, next) ==
    {next[id] : id \in Leaving(m) \cap {m.contacts[i].id : i \in DOMAIN m.contacts}}
        \cap DOMAIN previous_contacts

LiftedSlots(m, next) == {next[id] : id \in Leaving(m)} \cap DOMAIN previous_contacts
HolderOf(m, next, s) == CHOOSE id \in Present(m) : next[id] = s

FrameFor(m, next) ==
    [reset |-> FALSE, button |-> m.button,
     contacts |->
       [s \in DownSlots(m, next) \cup LiftedSlots(m, next) |->
          IF s \in LiftedSlots(m, next)
          THEN [tip |-> FALSE, pos |-> previous_contacts[s].pos]
          ELSE [tip |-> TRUE, pos |-> ContactOf(m, HolderOf(m, next, s)).pos]]]

-----------------------------------------------------------------------------
(* TouchSession::Process, one action per way through it.                   *)

Discontinuity(m) == sequence_seen /\ m.seq # (previous_sequence + 1) % SeqMod

RejectSequence(m) ==
    /\ Discontinuity(m)
    /\ Throw("sequence discontinuity")
    /\ UNCHANGED <<hello_seen, reset_seen, sequence_seen, button_down,
                   previous_sequence, slots, previous_contacts, age>>

\* Mutant: the number expected next is stored, without wrapping.
AcceptSequence_StoresNext(m) ==
    /\ ~Discontinuity(m)
    /\ sequence_seen' = TRUE
    /\ previous_sequence' = m.seq + 1

AcceptSequence(m) ==
    /\ ~Discontinuity(m)
    /\ sequence_seen' = TRUE
    /\ previous_sequence' = m.seq

ProcessHello(m) ==
    /\ m.type = "HELLO"
    /\ AcceptSequence(m)
    /\ IF hello_seen \/ reset_seen
       THEN Throw("unexpected HELLO") /\ UNCHANGED hello_seen
       ELSE Return({}) /\ hello_seen' = TRUE
    /\ UNCHANGED <<reset_seen, button_down, slots, previous_contacts, age>>

RejectEarly(m) ==
    /\ AcceptSequence(m)
    /\ \/ /\ m.type # "HELLO" /\ ~hello_seen
          /\ Throw("message received before HELLO")
       \/ /\ m.type = "FRAME" /\ hello_seen /\ ~reset_seen
          /\ Throw("FRAME received before RESET")
    /\ UNCHANGED <<hello_seen, reset_seen, button_down, slots, previous_contacts, age>>

ProcessReset(m) ==
    /\ m.type = "RESET" /\ hello_seen
    /\ AcceptSequence(m)
    /\ reset_seen' = TRUE
    /\ ReleaseAll
    /\ Return({ReleaseFrame})
    /\ UNCHANGED <<hello_seen, age>>

\* Mutant: a FRAME is taken before the first RESET.
ReadyForFrame_WithoutReset(m) == m.type = "FRAME" /\ hello_seen

ReadyForFrame(m) == m.type = "FRAME" /\ hello_seen /\ reset_seen

\* The throw in the middle of the loop keeps what the loop has done so far.
RejectOversized(m) ==
    /\ ReadyForFrame(m)
    /\ Oversized(m)
    /\ AcceptSequence(m)
    /\ button_down' = m.button
    /\ \E next \in Mappings(m) : slots' = next
    /\ Throw("more than five active contacts")
    /\ UNCHANGED <<hello_seen, reset_seen, previous_contacts, age>>

Forget(m, next) == [id \in Present(m) |-> next[id]]

Remember(m, next) ==
    [s \in DownSlots(m, next) |-> ContactOf(m, HolderOf(m, next, s))]

AcceptFrame(m) ==
    /\ ReadyForFrame(m)
    /\ ~Oversized(m)
    /\ AcceptSequence(m)
    /\ button_down' = m.button
    /\ \E next \in Mappings(m) :
          /\ slots' = Forget(m, next)
          /\ previous_contacts' = Remember(m, next)
          /\ Return({FrameFor(m, next)})
    /\ age' = 0
    /\ UNCHANGED <<hello_seen, reset_seen>>

Process(m) ==
    \/ RejectSequence(m)
    \/ ProcessHello(m)
    \/ RejectEarly(m)
    \/ ProcessReset(m)
    \/ RejectOversized(m)
    \/ AcceptFrame(m)

-----------------------------------------------------------------------------
OnDisconnect ==
    /\ ReleaseAll
    /\ Return(IF HasActiveContacts THEN {ReleaseFrame} ELSE {})
    /\ hello_seen' = FALSE
    /\ reset_seen' = FALSE
    /\ sequence_seen' = FALSE
    /\ UNCHANGED <<previous_sequence, age>>

Older(a, ticks) == IF a + ticks < AgeLimit THEN a + ticks ELSE AgeLimit

\* Mutant: one receive timeout late.
TimedOut_OneLate(now) == HasActiveContacts /\ now > FrameTimeout

\* TouchSession::OnTimeout at a time when the last frame is now ticks old.
TimedOut(now) == HasActiveContacts /\ now >= FrameTimeout

OnTimeout(now) ==
    /\ age' = now
    /\ IF TimedOut(now)
       THEN ReleaseAll /\ Return({ReleaseFrame})
       ELSE Return({}) /\ UNCHANGED <<slots, previous_contacts, button_down>>
    /\ UNCHANGED <<hello_seen, reset_seen, sequence_seen, previous_sequence>>

-----------------------------------------------------------------------------
(* The class under any legal sequence of calls: main() calls nothing but   *)
(* OnDisconnect once a call has thrown, and only then makes a new object.  *)

SessionInit == NewSession

SessionNext ==
    \/ error = "none" /\ \E m \in Messages : Process(m)
    \/ error = "none" /\ \E ticks \in {0, 1} : OnTimeout(Older(age, ticks))
    \/ OnDisconnect
    \/ ~sequence_seen /\ Construct

SessionSpec == SessionInit /\ [][SessionNext]_sessionVars

-----------------------------------------------------------------------------
(* Every session variable has its type.                                    *)
SessionTypeOK ==
    /\ hello_seen \in BOOLEAN
    /\ reset_seen \in BOOLEAN
    /\ sequence_seen \in BOOLEAN
    /\ button_down \in BOOLEAN
    /\ previous_sequence \in 0..(SeqMod - 1)
    /\ DOMAIN slots \subseteq Ids
    /\ slots \in [DOMAIN slots -> Slots]
    /\ DOMAIN previous_contacts \subseteq Slots
    /\ previous_contacts \in [DOMAIN previous_contacts -> Contact]
    /\ age \in 0..AgeLimit
    /\ output \subseteq Frame
    /\ error \in Errors

(* No two contacts share a HID slot, whatever order contacts came and went *)
(* in, also between a throw in the middle of the contact loop and the      *)
(* disconnect: the emplace of TouchSession.cpp:62 never reuses a slot of   *)
(* slots_.                                                                 *)
SlotsInjective ==
    \A a, b \in DOMAIN slots : slots[a] = slots[b] => a = b

(* The two tables of the class agree: previous_contacts_ describes exactly *)
(* the slots in use and the contact that holds each of them.  The lift of  *)
(* TouchSession.cpp:73 is skipped, and a contact sticks on Windows, when   *)
(* they do not.                                                            *)
PreviousMatchesSlots ==
    error = "none" =>
        /\ DOMAIN previous_contacts = SlotRange(slots)
        /\ \A id \in DOMAIN slots : /\ previous_contacts[slots[id]].id = id
                                    /\ previous_contacts[slots[id]].tip

(* A frame the class returns describes the state it leaves: what it        *)
(* reports down is what later calls can lift, and its button is the one    *)
(* later releases clear.                                                   *)
ReportIsState ==
    \A frame \in output :
        /\ {s \in DOMAIN frame.contacts : frame.contacts[s].tip} = DOMAIN previous_contacts
        /\ frame.button = button_down
        /\ \A s \in DOMAIN previous_contacts :
              frame.contacts[s].pos = previous_contacts[s].pos

(* Contacts are tracked and the button is held only inside a session that  *)
(* has seen HELLO and RESET, so a release always follows a RESET report.   *)
TouchOnlyAfterHandshake ==
    HasActiveContacts => hello_seen /\ reset_seen /\ sequence_seen

(* A contact keeps its slot as long as it stays down, and a slot never     *)
(* passes from one contact to another inside one report: the report would  *)
(* move a contact that was never lifted.  The code erases leaving contacts *)
(* only after AllocateSlot has run (TouchSession.cpp:50-104).              *)
SlotOwnershipStable ==
    [][\A a \in DOMAIN slots, b \in DOMAIN slots' :
          (slots[a] = slots'[b]) <=> (a = b)]_sessionVars

(* When the session forgets a contact it had reported down, the same call  *)
(* returns a report that lifts the contact where it was: after Process,    *)
(* ReleaseAll and the throws alike (TouchSession.cpp:69-104, 132-152).     *)
ForgottenIsLifted ==
    [][\A s \in DOMAIN previous_contacts \ DOMAIN previous_contacts' :
          \E frame \in output' :
             /\ s \in DOMAIN frame.contacts
             /\ frame.contacts[s] = [tip |-> FALSE, pos |-> previous_contacts[s].pos]]_sessionVars

\* A FRAME that lists these contacts; its number and button place nothing.
Listing(list) == [type |-> "FRAME", seq |-> 0, button |-> FALSE, contacts |-> list]

(* AllocateSlot finds a slot whenever the map has room, and there is one   *)
(* way to place the contacts of a frame: "no free HID contact slot"        *)
(* (TouchSession.cpp:173) is never thrown, whatever slots came free in     *)
(* which order and in the state an earlier throw has left, too.            *)
SlotAlwaysFound ==
    \A list \in ContactLists :
        \E next \in Mappings(Listing(list)) : Mappings(Listing(list)) = {next}

(* Whether a frame is refused for its number depends on the contacts it    *)
(* leaves, keeps and brings and on nothing else: not on the order it lists *)
(* them in, nor on the slots they have (TouchSession.cpp:50-67).           *)
RefusedByNumberOnly ==
    \A list \in ContactLists :
        Oversized(Listing(list))
            <=> Cardinality(DOMAIN slots \cup Present(Listing(list))) > MaxSlots

(* "More than five active contacts" (TouchSession.cpp:59): a FRAME with    *)
(* at most MaxSlots contacts down is never refused for their number.       *)
FullFrameAccepted ==
    \A m \in Messages :
        m.type = "FRAME" /\ Cardinality(Present(m)) <= MaxSlots => ~Oversized(m)
=============================================================================
