-------------------------- MODULE Mtp1CodecProofs --------------------------
(***************************************************************************)
(* Proofs about one MTP1 message: the encoder and the readers agree for    *)
(* every size of header and contact, every maximum and any identifiers;    *)
(* and what the receiver's decoder hands on is what its session and its    *)
(* stream decoder rely on.  Only definitions are involved, so there is no  *)
(* invariant: each theorem is about every message and every list.          *)
(***************************************************************************)
EXTENDS MCStreamDecoder, TLAPS

-----------------------------------------------------------------------------
(* Lists and lengths.                                                      *)

LEMMA BoundedIsSeq ==
    ASSUME NEW S, NEW n \in Nat, NEW s \in BoundedSeq(S, n)
    PROVE  s \in Seq(S) /\ Len(s) \in Nat /\ Len(s) <= n /\ DOMAIN s = 1..Len(s)
  BY DEF BoundedSeq, SeqOf

LEMMA PayloadIsNat == \A n \in Nat : n * ContactSize \in Nat
  BY SizesAssumption

\* A payload has one number of contacts.
LEMMA OneCount ==
    ASSUME NEW a \in Nat, NEW b \in Nat, a * ContactSize = b * ContactSize
    PROVE  a = b
  <1>1. ASSUME NEW i \in Nat, NEW j \in Nat, i < j
        PROVE  i * ContactSize < j * ContactSize
    <2>1. PICK k \in Nat \ {0} : j = i + k
      <3>1. j - i \in Nat \ {0} /\ j = i + (j - i)
        BY <1>1
      <3> QED
        BY <3>1
    <2>2. j * ContactSize = i * ContactSize + k * ContactSize
      BY <2>1, SizesAssumption
    <2>3. k * ContactSize > 0
      BY SizesAssumption
    <2> QED
      BY <2>2, <2>3, PayloadIsNat
  <1>2. a < b \/ b < a \/ a = b
    OBVIOUS
  <1> QED
    BY <1>1, <1>2, PayloadIsNat

\* The length a header announces is the length of the message only when the
\* count it announces is the number of contacts that follow.
LEMMA LengthIsCount ==
    ASSUME NEW n \in Nat, NEW count \in Nat,
           HeaderSize + n * ContactSize = HeaderSize + count * ContactSize
    PROVE  n = count
  <1>1. n * ContactSize = count * ContactSize
    BY SizesAssumption, PayloadIsNat
  <1> QED
    BY <1>1, OneCount
LEMMA LengthType ==
    ASSUME NEW w, Len(w.contacts) \in Nat
    PROVE  Length(w) \in Nat /\ Length(w) = HeaderSize + Len(w.contacts) * ContactSize
  BY SizesAssumption, PayloadIsNat DEF Length

LEMMA WireType ==
    ASSUME NEW w \in WireMessages
    PROVE  /\ w.contacts \in Seq(WireContacts) /\ Len(w.contacts) \in Nat
           /\ w.count \in Nat /\ w.type \in 0..4 /\ Length(w) \in Nat
  <1>1. /\ w.contacts \in BoundedSeq(WireContacts, MaxContacts)
        /\ w.count \in 0..MaxContacts + 1 /\ w.type \in 0..4
    BY DEF WireMessages
  <1>2. w.contacts \in Seq(WireContacts) /\ Len(w.contacts) \in Nat
    BY <1>1, BoundedIsSeq, SizesAssumption
  <1> QED
    BY <1>1, <1>2, LengthType, SizesAssumption

-----------------------------------------------------------------------------
(* The readers.                                                            *)

(* Mtp1.cpp and TouchFrame.c refuse the same messages but for their        *)
(* contacts, and the debugging tool takes whatever they do (Mtp1.cpp:      *)
(* 49-124, TouchFrame.c:100-146), whatever the sizes and the identifiers.  *)
THEOREM ReadersNeverDisagree == ReadersAgree
  <1> SUFFICES ASSUME NEW w \in WireMessages
               PROVE  /\ DecodeMessage(w) = IF ValidContacts(w.contacts)
                                            THEN tp_decode_message(w) ELSE {}
                      /\ tp_decode_message(w) # {} => debug_receiver(w)
    BY DEF ReadersAgree
  <1>1. w.type \in {HELLO, FRAME, RESET} <=> w.type \in HELLO..RESET
    BY WireType DEF HELLO, FRAME, RESET
  <1>2. ASSUME ValidContacts(w.contacts)
        PROVE  DecodeMessage(w) = tp_decode_message(w)
    <2> DEFINE value == {[type |-> w.type, flags |-> w.flags, contacts |-> Values(w.contacts)]}
    <2>1. DecodeMessage(w) = IF ValidateHeader(w) /\ Length(w) = HeaderSize + w.payload
                             THEN value ELSE {}
      BY <1>2 DEF DecodeMessage
    <2>2. tp_decode_message(w) = IF ValidateHeader(w) /\ Length(w) = HeaderSize + w.payload
                                 THEN value ELSE {}
      BY <1>1 DEF tp_decode_message, ValidateHeader
    <2> QED
      BY <2>1, <2>2
  <1>3. ~ValidContacts(w.contacts) => DecodeMessage(w) = {}
    BY DEF DecodeMessage
  <1>4. ASSUME tp_decode_message(w) # {} PROVE debug_receiver(w)
    <2>1. /\ w.magic /\ w.version = 1 /\ w.payload = w.count * ContactSize
          /\ Length(w) = HeaderSize + w.payload
      BY <1>4 DEF tp_decode_message
    <2>2. Length(w) >= HeaderSize + w.payload
      BY <2>1, WireType
    <2> QED
      BY <2>1, <2>2 DEF debug_receiver
  <1> QED
    BY <1>2, <1>3, <1>4
-----------------------------------------------------------------------------
(* What the agent fills and the encoder makes of it.                       *)

Fields == [id : Ids, flags : SUBSET ContactFlags, finite : BOOLEAN]

LEMMA FlagsOfState == \A state \in 0..7 : flags_for_state(state) \subseteq ContactFlags
  BY DEF flags_for_state, ContactFlags

LEMMA FilledFrame ==
    ASSUME NEW touches \in BoundedSeq(Touches, MaxContacts), NEW button \in BOOLEAN
    PROVE  \E frame : /\ FrameOf(touches, button) = {frame}
                      /\ frame.flags \subseteq FrameFlags
                      /\ frame.contacts \in Seq(Fields)
                      /\ Len(frame.contacts) \in Nat /\ Len(frame.contacts) <= MaxContacts
  <1> DEFINE contacts == [i \in DOMAIN touches |->
                             [id |-> touches[i].id, flags |-> flags_for_state(touches[i].state),
                              finite |-> touches[i].finite]]
             frame == [flags |-> IF button THEN FrameFlags ELSE {}, contacts |-> contacts]
  <1>1. /\ touches \in Seq(Touches) /\ DOMAIN touches = 1..Len(touches)
        /\ Len(touches) \in Nat /\ Len(touches) <= MaxContacts
    BY BoundedIsSeq, SizesAssumption
  <1>2. contacts \in Seq(Fields) /\ Len(contacts) = Len(touches)
    <2>1. \A i \in 1..Len(touches) : contacts[i] \in Fields
      <3> SUFFICES ASSUME NEW i \in 1..Len(touches) PROVE contacts[i] \in Fields
        OBVIOUS
      <3>1. touches[i] \in Touches
        BY <1>1
      <3>2. touches[i].id \in Ids /\ touches[i].state \in 0..7 /\ touches[i].finite \in BOOLEAN
        BY <3>1 DEF Touches
      <3> QED
        BY <1>1, <3>2, FlagsOfState DEF Fields
    <2>2. contacts \in [1..Len(touches) -> Fields]
      BY <1>1, <2>1
    <2> HIDE DEF contacts
    <2> QED
      BY <1>1, <2>2
  <1>3. FrameOf(touches, button) = {frame}
    BY <1>1, SizesAssumption DEF FrameOf
  <1>4. frame.flags \subseteq FrameFlags /\ frame.contacts = contacts
    OBVIOUS
  <1> HIDE DEF frame, contacts
  <1> QED
    BY <1>1, <1>2, <1>3, <1>4

\* A message that the encoder fills passes every test of a header, and both
\* decoders read from it what was put in.
LEMMA FilledMessage ==
    ASSUME NEW type \in HELLO..RESET, NEW flags \in SUBSET FrameFlags, NEW contacts \in Seq(Fields),
           Len(contacts) \in Nat, Len(contacts) <= MaxContacts,
           type # FRAME => flags = {} /\ contacts = << >>
    PROVE  \A w, read : /\ w = Message(type, flags, contacts)
                        /\ read = [type |-> type, flags |-> flags, contacts |-> contacts]
                        => /\ tp_decode_message(w) = {read}
                           /\ DecodeMessage(w) = IF Presentable(contacts) THEN {read} ELSE {}
  <1> DEFINE w == Message(type, flags, contacts)
             read == [type |-> type, flags |-> flags, contacts |-> contacts]
  <1>1. /\ w.magic /\ w.version = 1 /\ w.type = type /\ w.flags = flags
        /\ w.count = Len(contacts) /\ w.payload = Len(contacts) * ContactSize
        /\ w.contacts = [i \in DOMAIN contacts |->
                            [id |-> contacts[i].id, flags |-> contacts[i].flags, reserved |-> 0,
                             finite |-> contacts[i].finite]]
    BY DEF Message
  <1>2. DOMAIN contacts = 1..Len(contacts) /\ \A i \in DOMAIN contacts : contacts[i] \in Fields
    OBVIOUS
  <1>3. DOMAIN w.contacts = DOMAIN contacts /\ Len(w.contacts) = Len(contacts)
    BY <1>1, <1>2
  <1>4. Length(w) = HeaderSize + w.payload
    BY <1>1, <1>3 DEF Length
  <1>5. Values(w.contacts) = contacts
    <2>1. \A i \in DOMAIN contacts : Value(w.contacts[i]) = contacts[i]
      <3> SUFFICES ASSUME NEW i \in DOMAIN contacts PROVE Value(w.contacts[i]) = contacts[i]
        OBVIOUS
      <3>1. contacts[i] = [id |-> contacts[i].id, flags |-> contacts[i].flags,
                           finite |-> contacts[i].finite]
        BY <1>2 DEF Fields
      <3> QED
        BY <1>1, <3>1 DEF Value
    <2> HIDE DEF w
    <2>2. Values(w.contacts) = [i \in DOMAIN contacts |-> contacts[i]]
      BY <1>3, <2>1 DEF Values
    <2>3. contacts = [i \in DOMAIN contacts |-> contacts[i]]
      OBVIOUS
    <2> QED
      BY <2>2, <2>3
  <1>6. type # FRAME => Len(contacts) = 0
    OBVIOUS
  <1>7. ValidContacts(w.contacts) <=> Presentable(contacts)
    <2>1. \A i \in DOMAIN contacts : /\ w.contacts[i].id = contacts[i].id
                                     /\ w.contacts[i].flags = contacts[i].flags
                                     /\ w.contacts[i].finite = contacts[i].finite
                                     /\ w.contacts[i].reserved = 0
                                     /\ contacts[i].flags \subseteq ContactFlags
      BY <1>1, <1>2 DEF Fields
    <2> HIDE DEF w
    <2>2. ASSUME ValidContacts(w.contacts) PROVE Presentable(contacts)
      <3>1. \A i \in DOMAIN contacts : contacts[i].finite
        BY <1>3, <2>1, <2>2 DEF ValidContacts
      <3>2. \A i, j \in DOMAIN contacts : j < i => contacts[j].id # contacts[i].id
        BY <1>2, <1>3, <2>1, <2>2 DEF ValidContacts
      <3>3. \A i, j \in DOMAIN contacts : i = j \/ i < j \/ j < i
        BY <1>2
      <3> QED
        BY <3>1, <3>2, <3>3 DEF Presentable
    <2>3. ASSUME Presentable(contacts) PROVE ValidContacts(w.contacts)
      <3> SUFFICES ASSUME NEW i \in DOMAIN contacts
                   PROVE  /\ w.contacts[i].reserved = 0
                          /\ w.contacts[i].flags \subseteq ContactFlags
                          /\ w.contacts[i].finite
                          /\ \A j \in 1..(i - 1) : w.contacts[j].id # w.contacts[i].id
        BY <1>3 DEF ValidContacts
      <3>1. \A j \in 1..(i - 1) : j \in DOMAIN contacts /\ j # i
        BY <1>2
      <3> QED
        BY <2>1, <2>3, <3>1 DEF Presentable
    <2> QED
      BY <2>2, <2>3
  <1>8. type \in {HELLO, FRAME, RESET}
    BY DEF HELLO, FRAME, RESET
  <1> HIDE DEF w
  <1>9. tp_decode_message(w) = {read}
    BY <1>1, <1>4, <1>5, <1>6 DEF tp_decode_message
  <1>10. ValidateHeader(w)
    BY <1>1, <1>6, <1>8 DEF ValidateHeader
  <1>11. DecodeMessage(w) = IF Presentable(contacts) THEN {read} ELSE {}
    BY <1>1, <1>4, <1>5, <1>7, <1>10 DEF DecodeMessage
  <1> HIDE DEF read
  <1>12. \A u, v : u = w /\ v = read =>
            /\ tp_decode_message(u) = {v}
            /\ DecodeMessage(u) = IF Presentable(contacts) THEN {v} ELSE {}
    BY <1>9, <1>11
  <1> QED
    BY <1>12 DEF w, read
(* Every frame contact_callback fills is encoded, read back as it was by   *)
(* tp_decode_message, and by the receiver's DecodeMessage unless the       *)
(* framework gave an identifier twice or a number that is not finite;      *)
(* HELLO and RESET come out empty (main.c:400-422, TouchFrame.c:48-146).   *)
THEOREM AgentIsUnderstood == AgentUnderstood
  <1> SUFFICES ASSUME NEW touches \in BoundedSeq(Touches, MaxContacts), NEW button \in BOOLEAN,
                      NEW type \in HELLO..RESET
               PROVE  \E frame \in FrameOf(touches, button) :
                        \E w \in tp_encode_message(type, frame) :
                          LET sent == Sent(type, frame)
                          IN  /\ tp_decode_message(w) = {sent}
                              /\ DecodeMessage(w) = IF Presentable(sent.contacts)
                                                    THEN {sent} ELSE {}
    BY DEF AgentUnderstood
  <1>1. PICK frame : /\ FrameOf(touches, button) = {frame}
                     /\ frame.flags \subseteq FrameFlags
                     /\ frame.contacts \in Seq(Fields)
                     /\ Len(frame.contacts) \in Nat /\ Len(frame.contacts) <= MaxContacts
    BY FilledFrame
  <1>2. CASE type = FRAME
    <2>1. tp_encode_message(type, frame) = {Message(type, frame.flags, frame.contacts)}
      BY <1>1, <1>2, SizesAssumption DEF tp_encode_message, FRAME
    <2>2. Sent(type, frame) = [type |-> type, flags |-> frame.flags, contacts |-> frame.contacts]
      BY <1>2 DEF Sent
    <2> DEFINE sent == Sent(type, frame)
               w == Message(type, frame.flags, frame.contacts)
    <2>3. /\ tp_decode_message(w) = {sent}
          /\ DecodeMessage(w) = IF Presentable(frame.contacts) THEN {sent} ELSE {}
      <3> HIDE DEF sent, w
      <3>1. frame.flags \in SUBSET FrameFlags
        BY <1>1
      <3>2. \A u, v : /\ u = Message(type, frame.flags, frame.contacts)
                     /\ v = [type |-> type, flags |-> frame.flags, contacts |-> frame.contacts]
                     => /\ tp_decode_message(u) = {v}
                        /\ DecodeMessage(u) = IF Presentable(frame.contacts) THEN {v} ELSE {}
        BY <1>1, <1>2, <3>1, FilledMessage
      <3> QED
        BY <2>2, <3>2 DEF w, sent
    <2>4. sent.contacts = frame.contacts
      BY <2>2
    <2>5. frame \in FrameOf(touches, button) /\ w \in tp_encode_message(type, frame)
      BY <1>1, <2>1
    <2> HIDE DEF sent, w
    <2> QED
      BY <2>3, <2>4, <2>5 DEF sent
  <1>3. CASE type # FRAME
    <2>1. tp_encode_message(type, frame) = {Message(type, {}, << >>)}
      BY <1>1, <1>3, SizesAssumption DEF tp_encode_message, HELLO, FRAME, RESET
    <2>2. Sent(type, frame) = [type |-> type, flags |-> {}, contacts |-> << >>]
      BY <1>3 DEF Sent
    <2>3. << >> \in Seq(Fields) /\ Len(<< >>) = 0 /\ 0 <= MaxContacts
      BY SizesAssumption
    <2> DEFINE sent == Sent(type, frame)
               w == Message(type, {}, << >>)
    <2>4. /\ tp_decode_message(w) = {sent}
          /\ DecodeMessage(w) = IF Presentable(<< >>) THEN {sent} ELSE {}
      <3> HIDE DEF sent, w
      <3>1. {} \in SUBSET FrameFlags
        OBVIOUS
      <3>2. \A u, v : /\ u = Message(type, {}, << >>)
                     /\ v = [type |-> type, flags |-> {}, contacts |-> << >>]
                     => /\ tp_decode_message(u) = {v}
                        /\ DecodeMessage(u) = IF Presentable(<< >>) THEN {v} ELSE {}
        BY <2>3, <3>1, FilledMessage
      <3> QED
        BY <2>2, <3>2 DEF w, sent
    <2>5. sent.contacts = << >>
      BY <2>2
    <2>6. frame \in FrameOf(touches, button) /\ w \in tp_encode_message(type, frame)
      BY <1>1, <2>1
    <2> HIDE DEF sent, w
    <2> QED
      BY <2>4, <2>5, <2>6 DEF sent
  <1> QED
    BY <1>2, <1>3

(* The invariant of the stream decoder's run, for every value of the       *)
(* constants: the message whose header is in the buffer means one thing.   *)
THEOREM OneProtocolAlways == Spec => []OneProtocol
  <1>1. OneProtocol
    BY AgentIsUnderstood, ReadersNeverDisagree DEF OneProtocol
  <1> QED
    BY <1>1, PTL

-----------------------------------------------------------------------------
(* What the components beside the codec rely on.                           *)

(* A header that ValidateHeader accepts fixes the bytes ParseAvailable     *)
(* waits for: they are those of a message of StreamDecoder, no more than   *)
(* one message can have, and once they are there only the contacts can     *)
(* still be refused: Wires and Faults leave nothing out (Mtp1.cpp:49-124,  *)
(* 139-162).                                                               *)
THEOREM HeaderFixesMessage ==
    ASSUME NEW w, w.count \in Nat, ValidateHeader(w)
    PROVE  /\ \A fault \in Faults :
                LET m == [count |-> w.count, fault |-> fault]
                IN  m \in Wires /\ Size(m) = HeaderSize + w.payload /\ Size(m) <= kMaxMessageSize
           /\ Length(w) = HeaderSize + w.payload =>
                (DecodeMessage(w) = {} <=> ~ValidContacts(w.contacts))
  <1>1. w.count <= MaxContacts /\ w.payload = w.count * ContactSize
    BY DEF ValidateHeader
  <1>2. ASSUME NEW fault \in Faults
        PROVE  LET m == [count |-> w.count, fault |-> fault]
               IN  m \in Wires /\ Size(m) = HeaderSize + w.payload /\ Size(m) <= kMaxMessageSize
    <2> DEFINE m == [count |-> w.count, fault |-> fault]
    <2>1. m \in Wires
      BY <1>1, SizesAssumption DEF Wires
    <2>2. Size(m) = HeaderSize + w.payload
      BY <1>1 DEF Size
    <2>3. w.count * ContactSize <= MaxContacts * ContactSize
      <3>1. PICK k \in Nat : MaxContacts = w.count + k
        <4>1. MaxContacts - w.count \in Nat /\ MaxContacts = w.count + (MaxContacts - w.count)
          BY <1>1, SizesAssumption
        <4> QED
          BY <4>1
      <3>2. MaxContacts * ContactSize = w.count * ContactSize + k * ContactSize
        BY <3>1, SizesAssumption
      <3> QED
        BY <3>2, PayloadIsNat
    <2>4. Size(m) <= kMaxMessageSize
      BY <1>1, <2>2, <2>3, PayloadIsNat, SizesAssumption DEF kMaxMessageSize
    <2> QED
      BY <2>1, <2>2, <2>4
  <1>3. Length(w) = HeaderSize + w.payload =>
          (DecodeMessage(w) = {} <=> ~ValidContacts(w.contacts))
    BY DEF DecodeMessage
  <1> QED
    BY <1>2, <1>3

(* A message of any length that DecodeMessage hands on is one the session  *)
(* is written for: as many contacts as announced and never more than       *)
(* kMaxContacts, no identifier twice, finite numbers and known flags; and  *)
(* HELLO and RESET carry no contact and no button (Mtp1.cpp:49-124;        *)
(* ContactLists and Messages of TouchSession).                             *)
THEOREM DecodedIsSessionInput ==
    ASSUME NEW w, w.contacts \in Seq(WireContacts), w.count \in Nat, NEW m \in DecodeMessage(w)
    PROVE  /\ m.type \in {HELLO, FRAME, RESET}
           /\ m.contacts \in Seq(Fields)
           /\ Len(m.contacts) = w.count /\ Len(m.contacts) <= MaxContacts
           /\ Presentable(m.contacts)
           /\ m.type # FRAME => m.contacts = << >> /\ m.flags = {}
  <1>1. /\ ValidateHeader(w) /\ Length(w) = HeaderSize + w.payload /\ ValidContacts(w.contacts)
        /\ m = [type |-> w.type, flags |-> w.flags, contacts |-> Values(w.contacts)]
    BY DEF DecodeMessage
  <1>2. /\ w.type \in {HELLO, FRAME, RESET} /\ w.count <= MaxContacts
        /\ w.payload = w.count * ContactSize
        /\ w.type # FRAME => w.count = 0 /\ w.flags = {}
    BY <1>1 DEF ValidateHeader
  <1>3. Len(w.contacts) = w.count
    BY <1>1, <1>2, LengthType, LengthIsCount
  <1>4. DOMAIN w.contacts = 1..w.count /\ \A i \in 1..w.count : w.contacts[i] \in WireContacts
    BY <1>3
  <1>5. \A i \in 1..w.count :
           /\ w.contacts[i].id \in Ids /\ w.contacts[i].flags \in SUBSET ContactFlags
           /\ w.contacts[i].finite \in BOOLEAN /\ w.contacts[i].finite
           /\ \A j \in 1..(i - 1) : w.contacts[j].id # w.contacts[i].id
    BY <1>1, <1>4 DEF ValidContacts, WireContacts
  <1> DEFINE read == Values(w.contacts)
  <1>6. read = [i \in 1..w.count |-> Value(w.contacts[i])]
    BY <1>4 DEF Values
  <1>7. \A i \in 1..w.count :
           /\ read[i] \in Fields
           /\ read[i].id = w.contacts[i].id /\ read[i].finite = w.contacts[i].finite
    <2> TAKE i \in 1..w.count
    <2>1. read[i] = Value(w.contacts[i])
      BY <1>6
    <2> HIDE DEF read
    <2> QED
      BY <1>5, <2>1 DEF Value, Fields
  <1> HIDE DEF read
  <1>8. read \in Seq(Fields) /\ Len(read) = w.count /\ DOMAIN read = 1..w.count
    <2>1. read \in [1..w.count -> Fields]
      BY <1>6, <1>7
    <2> QED
      BY <2>1
  <1>9. Presentable(read)
    <2>1. \A i \in DOMAIN read : read[i].finite
      BY <1>5, <1>7, <1>8
    <2>2. ASSUME NEW i \in 1..w.count, NEW j \in 1..w.count, read[i].id = read[j].id
          PROVE  i = j
      <3>1. ~(i < j) /\ ~(j < i)
        BY <1>5, <1>7, <2>2
      <3> QED
        BY <3>1
    <2> QED
      BY <1>8, <2>1, <2>2 DEF Presentable
  <1>10. w.count = 0 => read = << >>
    BY <1>8
  <1> QED
    BY <1>1, <1>2, <1>8, <1>9, <1>10 DEF read
=============================================================================
