----------------------------- MODULE Mtp1Codec ------------------------------
(***************************************************************************)
(* One MTP1 message on its way: what the agent makes of a list of touches  *)
(* (mac/Agent/main.c), the encoder (protocol/TouchFrame.c), and the three  *)
(* programs that read messages: tp_decode_message of the same file,        *)
(* DecodeMessage of the receiver (windows/receiver/Mtp1.cpp) and           *)
(* tools/debug_receiver.py.                                                *)
(*                                                                         *)
(* A message is the record of its fields, each with the values the readers *)
(* tell apart; flag words are sets of flags, times and numbers are left    *)
(* out.  The contacts are what follows the header, whatever the header     *)
(* says.  A result is {value}, or {} for a refusal.                        *)
(***************************************************************************)
EXTENDS Integers, SequencesExt

CONSTANTS
    HeaderSize,  \* 36
    ContactSize, \* 44
    MaxContacts, \* 10
    Ids          \* contact identifiers

-----------------------------------------------------------------------------
HELLO == 1
FRAME == 2
RESET == 3

FrameFlags   == {"button"}
ContactFlags == {"in_range", "tip", "confidence"}

\* Any bytes a reader may be given, in the classes the readers look at.
WireContacts == [id : Ids, flags : {ContactFlags, {"unknown"}}, reserved : {0, 1},
                 finite : BOOLEAN]
WireMessages ==
    [magic : BOOLEAN, version : {1, 2}, type : 0..4,
     payload : {n * ContactSize : n \in 0..MaxContacts + 1} \cup {1},
     count : 0..MaxContacts + 1,
     flags : {{}, FrameFlags, {"unknown"}},
     contacts : BoundedSeq(WireContacts, MaxContacts)]

Length(w) == HeaderSize + Len(w.contacts) * ContactSize

\* What a reader hands on of a contact.
Value(contact) == [id |-> contact.id, flags |-> contact.flags, finite |-> contact.finite]
Values(contacts) == [i \in DOMAIN contacts |-> Value(contacts[i])]

-----------------------------------------------------------------------------
(* The agent.                                                              *)

\* The states of MTTouch are 0 to 7.
flags_for_state(state) ==
    {"confidence"} \cup (IF state \in 1..6 THEN {"in_range"} ELSE {})
                   \cup (IF state \in {3, 4} THEN {"tip"} ELSE {})

Touches == [id : Ids, state : 0..7, finite : BOOLEAN]

\* contact_callback drops the frame, or fills one.
FrameOf(touches, button) ==
    IF Len(touches) > MaxContacts THEN {}
    ELSE {[flags |-> IF button THEN FrameFlags ELSE {},
           contacts |-> [i \in DOMAIN touches |->
                            [id |-> touches[i].id, flags |-> flags_for_state(touches[i].state),
                             finite |-> touches[i].finite]]]}

-----------------------------------------------------------------------------
(* The encoder.                                                            *)

Message(type, flags, contacts) ==
    [magic |-> TRUE, version |-> 1, type |-> type,
     payload |-> Len(contacts) * ContactSize, count |-> Len(contacts), flags |-> flags,
     contacts |-> [i \in DOMAIN contacts |->
                      [id |-> contacts[i].id, flags |-> contacts[i].flags, reserved |-> 0,
                       finite |-> contacts[i].finite]]]

\* Mutant: a control message carries what the frame holds.
tp_encode_message_KeepsFrame(type, frame) ==
    IF Len(frame.contacts) > MaxContacts \/ ~(frame.flags \subseteq FrameFlags) THEN {}
    ELSE {Message(type, frame.flags, frame.contacts)}

tp_encode_message(type, frame) ==
    IF Len(frame.contacts) > MaxContacts \/ type \notin {HELLO, FRAME, RESET} THEN {}
    ELSE IF type # FRAME THEN {Message(type, {}, << >>)}
    ELSE IF ~(frame.flags \subseteq FrameFlags) THEN {}
    ELSE {Message(type, frame.flags, frame.contacts)}

-----------------------------------------------------------------------------
(* The readers.                                                            *)

tp_decode_message(w) ==
    IF /\ w.magic /\ w.version = 1
       /\ w.type \in HELLO..RESET
       /\ w.count <= MaxContacts
       /\ w.payload = w.count * ContactSize
       /\ Length(w) = HeaderSize + w.payload
       /\ w.flags \subseteq FrameFlags
       /\ w.type # FRAME => w.count = 0 /\ w.flags = {}
    THEN {[type |-> w.type, flags |-> w.flags, contacts |-> Values(w.contacts)]}
    ELSE {}

\* Mutant: a control message may have contacts.
ValidateHeader_AnyContacts(w) ==
    /\ w.magic /\ w.version = 1
    /\ w.type \in {HELLO, FRAME, RESET}
    /\ w.flags \subseteq FrameFlags /\ (w.type # FRAME => w.flags = {})
    /\ w.count <= MaxContacts /\ w.payload = w.count * ContactSize

\* ValidateHeader does not throw; it returns HeaderSize + w.payload.
ValidateHeader(w) ==
    /\ w.magic /\ w.version = 1
    /\ w.type \in {HELLO, FRAME, RESET}
    /\ w.flags \subseteq FrameFlags /\ (w.type # FRAME => w.flags = {})
    /\ w.count <= MaxContacts /\ w.payload = w.count * ContactSize
    /\ w.type # FRAME => w.count = 0

ValidContacts(contacts) ==
    \A i \in DOMAIN contacts :
        /\ contacts[i].reserved = 0
        /\ contacts[i].flags \subseteq ContactFlags
        /\ contacts[i].finite
        /\ \A j \in 1..(i - 1) : contacts[j].id # contacts[i].id

DecodeMessage(w) ==
    IF /\ ValidateHeader(w)
       /\ Length(w) = HeaderSize + w.payload
       /\ ValidContacts(w.contacts)
    THEN {[type |-> w.type, flags |-> w.flags, contacts |-> Values(w.contacts)]}
    ELSE {}

\* It reads as many bytes as the header says, and looks at little else.
debug_receiver(w) ==
    /\ w.magic /\ w.version = 1
    /\ w.payload = w.count * ContactSize
    /\ Length(w) >= HeaderSize + w.payload

-----------------------------------------------------------------------------
\* What a reader makes of a message the agent encodes, if anything.
Sent(type, frame) ==
    IF type = FRAME THEN [type |-> type, flags |-> frame.flags, contacts |-> frame.contacts]
    ELSE [type |-> type, flags |-> {}, contacts |-> << >>]

Presentable(contacts) ==
    /\ \A i \in DOMAIN contacts : contacts[i].finite
    /\ \A i, j \in DOMAIN contacts : contacts[i].id = contacts[j].id => i = j

(* Encoder and readers speak the same protocol: every frame that           *)
(* contact_callback fills is encoded (a failure would count as an overflow *)
(* and reconnect, main.c:164-175), read back as it was by the C decoder,   *)
(* and by the receiver unless the framework gave an identifier twice or a  *)
(* number that is not finite; HELLO and RESET are empty whatever frame     *)
(* they are encoded from (TouchFrame.c:59-60).                             *)
AgentUnderstood ==
    \A touches \in BoundedSeq(Touches, MaxContacts), button \in BOOLEAN, type \in HELLO..RESET :
        \E frame \in FrameOf(touches, button) : \E w \in tp_encode_message(type, frame) :
            LET sent == Sent(type, frame)
            IN /\ tp_decode_message(w) = {sent}
               /\ DecodeMessage(w) = IF Presentable(sent.contacts) THEN {sent} ELSE {}

(* The three readers never disagree about a message they all take: the     *)
(* receiver is the strictest, it refuses a message the C decoder takes for *)
(* its contacts only, both read the same values, and the debugging tool    *)
(* takes whatever they do (Mtp1.cpp:49-124, TouchFrame.c:100-146).         *)
ReadersAgree ==
    \A w \in WireMessages :
        /\ DecodeMessage(w) = IF ValidContacts(w.contacts) THEN tp_decode_message(w) ELSE {}
        /\ tp_decode_message(w) # {} => debug_receiver(w)
=============================================================================
