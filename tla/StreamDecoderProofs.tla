------------------------ MODULE StreamDecoderProofs ------------------------
(***************************************************************************)
(* For every size of headers, contacts and receives and every stream: the  *)
(* decoder's buffer stays within its limit, the limit refuses a peer only  *)
(* when one recv brings more than the longest message, and the decoder     *)
(* never loses its place in the stream.                                    *)
(*                                                                         *)
(* The limit is harmless between receives because the loop of              *)
(* ParseAvailable leaves less than one message behind; Leftover says so,   *)
(* and with TypeOK it is inductive.                                        *)
(***************************************************************************)
EXTENDS StreamDecoder, SequenceTheorems, WellFoundedInduction, TLAPS

Leftover == pc \in {"pop", "recv"} => buffer < kMaxMessageSize

DecoderInv == TypeOK /\ Leftover /\ LimitOnlyOnBurst

(* A message on the wire has a header and is no longer than the longest.   *)
LEMMA SizeBounds ==
    ASSUME NEW m \in Wires
    PROVE  /\ Size(m) \in Nat
           /\ HeaderSize <= Size(m)
           /\ Size(m) <= kMaxMessageSize
<1> m.count \in Nat /\ m.count <= MaxContacts  BY SizesAssumption DEF Wires
<1>1. m.count * ContactSize \in Nat  BY SizesAssumption
<1>2. m.count * ContactSize <= MaxContacts * ContactSize  BY SizesAssumption
<1> QED  BY <1>1, <1>2, SizesAssumption DEF Size, kMaxMessageSize

LEMMA MaxIsNat == kMaxMessageSize \in Nat /\ HeaderSize <= kMaxMessageSize /\ HeaderSize \in Nat \ {0}
<1>1. MaxContacts * ContactSize \in Nat  BY SizesAssumption
<1> QED  BY <1>1, SizesAssumption DEF kMaxMessageSize

(* The loop looks at a message of the wire.                                *)
LEMMA HeadOnWire ==
    ASSUME TypeOK, wire # << >>
    PROVE  Head(wire) \in Wires /\ Tail(wire) \in Seq(Wires) /\ Len(Tail(wire)) <= MaxInFlight
<1>1. wire \in Seq(Wires) /\ Len(wire) <= MaxInFlight  BY DEF TypeOK
<1>2. Head(wire) \in Wires /\ Tail(wire) \in Seq(Wires) /\ Len(Tail(wire)) = Len(wire) - 1
      BY <1>1, HeadTailProperties, Zenon
<1>3. Len(wire) \in Nat  BY <1>1
<1> QED  BY <1>1, <1>2, <1>3, FlightAssumption

LEMMA RecvInv ==
    ASSUME DecoderInv, NEW n \in 1..unread, n <= RecvSize, Recv(n)
    PROVE  DecoderInv'
<1> USE MaxIsNat
<1>1. TypeOK'
  <2>1. unread' \in Nat /\ received' \in 0..RecvSize
    <3>1. unread \in Nat  BY DEF DecoderInv, TypeOK
    <3>2. unread' = unread - n /\ received' = n  BY DEF Recv
    <3> QED  BY <3>1, <3>2, SizesAssumption
  <2>2. CASE TooMuch(n)  BY <2>1, <2>2 DEF DecoderInv, TypeOK, Recv, Throw
  <2>3. CASE ~TooMuch(n)
    <3>1. buffer' \in Nat /\ buffer' <= kMaxMessageSize * 2
          BY <2>3 DEF DecoderInv, TypeOK, Recv, TooMuch
    <3> QED  BY <2>1, <2>3, <3>1 DEF DecoderInv, TypeOK, Recv
  <2> QED  BY <2>2, <2>3
<1>2. Leftover'  BY DEF DecoderInv, Recv, Throw, Leftover
<1>3. LimitOnlyOnBurst'
  <2>1. CASE TooMuch(n)
    <3>1. buffer \in Nat /\ unread \in Nat  BY DEF DecoderInv, TypeOK
    <3>2. buffer < kMaxMessageSize  BY DEF DecoderInv, Leftover, Recv
    <3>3. buffer + n > kMaxMessageSize * 2  BY <2>1 DEF TooMuch
    <3>4. n > kMaxMessageSize  BY <3>1, <3>2, <3>3
    <3> QED  BY <3>4 DEF Recv, LimitOnlyOnBurst
  <2>2. CASE ~TooMuch(n)
        BY <2>2 DEF DecoderInv, TypeOK, Recv, LimitOnlyOnBurst
  <2> QED  BY <2>1, <2>2
<1> QED  BY <1>1, <1>2, <1>3 DEF DecoderInv

LEMMA ParseInv ==
    ASSUME DecoderInv, NoHeader \/ Incomplete \/ Refuse \/ Decode
    PROVE  DecoderInv'
<1> USE MaxIsNat DEF DecoderInv
<1>1. CASE NoHeader
      BY <1>1 DEF NoHeader, TypeOK, Leftover, LimitOnlyOnBurst
<1>2. CASE Incomplete
  <2>1. Head(wire) \in Wires  BY <1>2, HeadOnWire DEF Incomplete, HeaderBuffered
  <2>2. Size(Head(wire)) \in Nat /\ Size(Head(wire)) <= kMaxMessageSize
        BY <2>1, SizeBounds
  <2>3. buffer \in Nat /\ ~(buffer >= Size(Head(wire)))
        BY <1>2 DEF Incomplete, Complete, TypeOK
  <2>4. buffer < kMaxMessageSize  BY <2>2, <2>3
  <2> QED  BY <1>2, <2>4 DEF Incomplete, HeaderBuffered, TypeOK, Leftover, LimitOnlyOnBurst
<1>3. CASE Refuse
      BY <1>3 DEF Refuse, HeaderBuffered, Throw, TypeOK, Leftover, LimitOnlyOnBurst
<1>4. CASE Decode
  <2>1. wire # << >>  BY <1>4 DEF Decode, HeaderBuffered
  <2>2. wire' \in Seq(Wires) /\ Len(wire') <= MaxInFlight
        BY <1>4, <2>1, HeadOnWire DEF Decode
  <2>3. buffer' \in Nat /\ buffer' <= kMaxMessageSize * 2
    <3>1. Size(Head(wire)) \in Nat  BY <2>1, HeadOnWire, SizeBounds
    <3>2. buffer \in Nat /\ buffer <= kMaxMessageSize * 2  BY DEF TypeOK
    <3>3. buffer >= Size(Head(wire)) /\ buffer' = buffer - Size(Head(wire))
          BY <1>4 DEF Decode, Complete
    <3> QED  BY <3>1, <3>2, <3>3
  <2>4. messages' \in Nat
    <3>1. messages \in Nat  BY DEF TypeOK
    <3>2. messages' = messages + 1  BY <1>4 DEF Decode
    <3> QED  BY <3>1, <3>2
  <2>5. TypeOK'  BY <1>4, <2>2, <2>3, <2>4 DEF Decode, HeaderBuffered, TypeOK
  <2> QED  BY <1>4, <2>5 DEF Decode, HeaderBuffered, TypeOK, Leftover, LimitOnlyOnBurst
<1> QED  BY <1>1, <1>2, <1>3, <1>4

LEMMA DecoderStep == DecoderInv /\ [Next]_vars => DecoderInv'
<1> SUFFICES ASSUME DecoderInv, [Next]_vars PROVE DecoderInv'
    OBVIOUS
<1> USE MaxIsNat
<1>1. ASSUME NEW m \in Wires, Write(m) PROVE DecoderInv'
  <2>1. unread' \in Nat
    <3>1. Size(m) \in Nat  BY SizeBounds
    <3>2. unread \in Nat /\ unread' = unread + Size(m)
          BY <1>1 DEF Write, DecoderInv, TypeOK
    <3> QED  BY <3>1, <3>2
  <2>2. wire' \in Seq(Wires) /\ Len(wire') <= MaxInFlight
    <3>1. wire \in Seq(Wires)  BY DEF DecoderInv, TypeOK
    <3>2. wire' = Append(wire, m) /\ Len(wire) < MaxInFlight  BY <1>1 DEF Write
    <3>3. wire' \in Seq(Wires) /\ Len(wire') = Len(wire) + 1
          BY <3>1, <3>2, AppendProperties
    <3>4. Len(wire) \in Nat  BY <3>1
    <3> QED  BY <3>2, <3>3, <3>4, FlightAssumption
  <2> QED  BY <1>1, <2>1, <2>2 DEF Write, DecoderInv, TypeOK, Leftover, LimitOnlyOnBurst
<1>2. ASSUME NEW n \in 1..unread, n <= RecvSize, Recv(n) PROVE DecoderInv'
      BY <1>2, RecvInv
<1>3. CASE NoHeader \/ Incomplete \/ Refuse \/ Decode  BY <1>3, ParseInv
<1>4. CASE PopMessage
      BY <1>4 DEF PopMessage, DecoderInv, TypeOK, Leftover, LimitOnlyOnBurst
<1>5. CASE Drained
      BY <1>5 DEF Drained, DecoderInv, TypeOK, Leftover, LimitOnlyOnBurst
<1>6. CASE SessionThrows
      BY <1>6 DEF SessionThrows, Throw, DecoderInv, TypeOK, Leftover, LimitOnlyOnBurst
<1>7. CASE Reconnect
  <2>1. wire' \in Seq(Wires) /\ Len(wire') <= MaxInFlight
        BY <1>7, FlightAssumption DEF Reconnect
  <2>2. buffer' \in Nat /\ buffer' <= kMaxMessageSize * 2 /\ received' \in 0..RecvSize
        BY <1>7, SizesAssumption DEF Reconnect
  <2>3. TypeOK'  BY <1>7, <2>1, <2>2 DEF Reconnect, TypeOK
  <2>4. pc' = "recv" /\ buffer' = 0 /\ error' = "none"  BY <1>7 DEF Reconnect
  <2>5. 0 < kMaxMessageSize  OBVIOUS
  <2>6. Leftover' /\ LimitOnlyOnBurst'  BY <2>4, <2>5 DEF Leftover, LimitOnlyOnBurst
  <2> QED  BY <2>3, <2>6 DEF DecoderInv
<1>8. CASE UNCHANGED vars
      BY <1>8 DEF vars, DecoderInv, TypeOK, Leftover, LimitOnlyOnBurst
<1> QED  BY <1>1, <1>2, <1>3, <1>4, <1>5, <1>6, <1>7, <1>8 DEF Next

(* The invariant holds of every execution of the decoder.                  *)
THEOREM DecoderInvariant == Spec => []DecoderInv
<1>1. Init => DecoderInv
      BY MaxIsNat, FlightAssumption, SizesAssumption
      DEF Init, DecoderInv, TypeOK, Leftover, LimitOnlyOnBurst
<1> QED  BY <1>1, DecoderStep, PTL DEF Spec

(* Every variable of the decoder has its type and buffer_ never holds more *)
(* than two of the longest messages (Mtp1.cpp:127-130).                    *)
THEOREM DecoderTypeCorrect == Spec => []TypeOK
<1>1. DecoderInv => TypeOK  BY DEF DecoderInv
<1> QED  BY <1>1, DecoderInvariant, PTL

(* "stream buffer limit exceeded" is thrown only for a recv that brings    *)
(* more bytes than the longest message has (Mtp1.cpp:127-129).             *)
THEOREM LimitNeedsBurst == Spec => []LimitOnlyOnBurst
<1>1. DecoderInv => LimitOnlyOnBurst  BY DEF DecoderInv
<1> QED  BY <1>1, DecoderInvariant, PTL
-----------------------------------------------------------------------------
(* The place in the stream.  Total is recursive; here the same sum is a    *)
(* relation: at[i] is where the i-th message of s ends.                    *)

EndsAt(at, s) ==
    /\ at \in [0..Len(s) -> Int]
    /\ at[0] = 0
    /\ \A i \in 1..Len(s) : at[i] = at[i - 1] + Size(s[i])

\* The messages of s are n bytes long.
Bytes(s, n) == \E at \in [0..Len(s) -> Int] : EndsAt(at, s) /\ at[Len(s)] = n

LEMMA NoBytes == Bytes(<< >>, 0)
<1> DEFINE at == [i \in 0..0 |-> 0]
<1>1. Len(<< >>) = 0 /\ at \in [0..0 -> Int] /\ at[0] = 0  OBVIOUS
<1>2. \A i \in 1..Len(<< >>) : FALSE  BY <1>1
<1> QED  BY <1>1, <1>2 DEF EndsAt, Bytes

\* A message more is as many bytes more.
LEMMA AppendBytes ==
    ASSUME NEW s \in Seq(Wires), NEW m \in Wires, NEW b \in Int, Bytes(s, b)
    PROVE  Bytes(Append(s, m), b + Size(m))
<1>1. PICK at \in [0..Len(s) -> Int] : EndsAt(at, s) /\ at[Len(s)] = b  BY DEF Bytes
<1>2. PICK n \in Nat : n = Len(s)  OBVIOUS
<1>3. PICK t \in Seq(Wires) : t = Append(s, m)  OBVIOUS
<1>4. /\ Len(t) = n + 1
      /\ \A i \in 1..n : t[i] = s[i]
      /\ t[n + 1] = m
      BY <1>2, <1>3, AppendProperties
<1>5. PICK size \in Nat : size = Size(m)  BY SizeBounds
<1> DEFINE next == [i \in 0..(n + 1) |-> IF i = n + 1 THEN b + size ELSE at[i]]
<1>6. next \in [0..(n + 1) -> Int] /\ next[0] = 0 /\ next[n + 1] = b + size
  <2>1. \A i \in 0..(n + 1) : i = n + 1 \/ i \in 0..n  OBVIOUS
  <2>2. at[0] = 0 /\ 0 \in 0..(n + 1) /\ n + 1 \in 0..(n + 1) /\ n + 1 # 0
        BY <1>1 DEF EndsAt
  <2>3. at \in [0..n -> Int]  BY <1>1, <1>2
  <2> QED  BY <2>1, <2>2, <2>3
<1>7. \A i \in 1..(n + 1) : next[i] = next[i - 1] + Size(t[i])
  <2> TAKE i \in 1..(n + 1)
  <2>1. CASE i = n + 1
    <3>1. i - 1 \in 0..(n + 1) /\ i - 1 # n + 1 /\ i - 1 = n  BY <2>1
    <3>2. next[i - 1] = b  BY <1>1, <1>2, <3>1
    <3> QED  BY <1>4, <1>5, <1>6, <2>1, <3>2
  <2>2. CASE i # n + 1
    <3>1. /\ i \in 1..n /\ i \in 0..(n + 1)
          /\ i - 1 \in 0..(n + 1) /\ i - 1 # n + 1
          BY <2>2
    <3>2. next[i] = at[i] /\ next[i - 1] = at[i - 1]  BY <2>2, <3>1
    <3>3. at[i] = at[i - 1] + Size(s[i])  BY <1>1, <1>2, <3>1 DEF EndsAt
    <3> QED  BY <1>4, <3>1, <3>2, <3>3
  <2> QED  BY <2>1, <2>2
<1> HIDE DEF next
<1>8. EndsAt(next, t)  BY <1>4, <1>6, <1>7 DEF EndsAt
<1> QED  BY <1>3, <1>4, <1>5, <1>6, <1>8 DEF Bytes

\* The first message gone is as many bytes less.
LEMMA TailBytes ==
    ASSUME NEW s \in Seq(Wires), s # << >>, NEW b \in Int, Bytes(s, b)
    PROVE  Bytes(Tail(s), b - Size(Head(s)))
<1>1. PICK at \in [0..Len(s) -> Int] : EndsAt(at, s) /\ at[Len(s)] = b  BY DEF Bytes
<1>2. PICK n \in Nat : n + 1 = Len(s)
  <2>1. Len(s) \in Nat /\ Len(s) # 0  OBVIOUS
  <2> QED  BY <2>1
<1>3. PICK t \in Seq(Wires) : t = Tail(s)  BY HeadTailProperties, Zenon
<1>4. Head(s) = s[1] /\ Len(t) = n /\ \A i \in 1..n : t[i] = s[i + 1]
      BY <1>2, <1>3
<1>5. PICK size \in Nat : size = Size(s[1])
  <2>1. s[1] \in Wires  BY <1>2
  <2> QED  BY <2>1, SizeBounds
<1> DEFINE next == [i \in 0..n |-> at[i + 1] - size]
<1>6. /\ next \in [0..n -> Int] /\ next[0] = 0 /\ next[n] = b - size
  <2>1. at \in [0..(n + 1) -> Int]  BY <1>1, <1>2
  <2>2. \A i \in 0..n : i + 1 \in 0..(n + 1)  OBVIOUS
  <2>3. at[1] = size
    <3>1. 1 \in 1..Len(s) /\ 1 - 1 = 0  BY <1>2
    <3>2. at[1] = at[0] + size  BY <1>1, <1>5, <3>1 DEF EndsAt
    <3> QED  BY <1>1, <3>2 DEF EndsAt
  <2>4. next[0] = at[1] - size /\ next[n] = b - size  BY <1>1, <1>2
  <2> QED  BY <2>1, <2>2, <2>3, <2>4
<1>7. \A i \in 1..n : next[i] = next[i - 1] + Size(t[i])
  <2> TAKE i \in 1..n
  <2>1. i \in 0..n /\ i - 1 \in 0..n /\ i + 1 \in 1..Len(s) /\ (i - 1) + 1 = i
        BY <1>2
  <2>2. next[i] = at[i + 1] - size /\ next[i - 1] = at[i] - size  BY <2>1
  <2>3. at[i + 1] = at[i] + Size(s[i + 1])
    <3>1. (i + 1) - 1 = i  OBVIOUS
    <3> QED  BY <1>1, <2>1, <3>1 DEF EndsAt
  <2>4. at[i] \in Int /\ Size(s[i + 1]) \in Nat
    <3>1. i \in 0..Len(s) /\ s[i + 1] \in Wires  BY <1>2, <2>1
    <3> QED  BY <1>1, <3>1, SizeBounds
  <2> QED  BY <1>4, <2>2, <2>3, <2>4
<1> HIDE DEF next
<1>8. EndsAt(next, t)  BY <1>4, <1>6, <1>7 DEF EndsAt
<1> QED  BY <1>3, <1>4, <1>5, <1>6, <1>8 DEF Bytes
\* A number with a property has a smallest one with it.
LEMMA Smallest ==
    ASSUME NEW T \in SUBSET Nat, T # {}
    PROVE  \E x \in T : \A y \in T : x <= y
<1> DEFINE Less == OpToRel(<, Nat)
<1>1. IsWellFoundedOn(Less, Nat)  BY NatLessThanWellFounded
<1> HIDE DEF Less
<1>2. PICK x \in T : \A y \in T : ~(<<y, x>> \in Less)  BY <1>1, WFMin
<1>3. \A y \in T : ~(y < x)  BY <1>2 DEF Less, OpToRel
<1> QED  BY <1>3

\* The relation is a function: it is the total.
LEMMA BytesAreTotal ==
    ASSUME NEW s \in Seq(Wires), NEW b \in Int, Bytes(s, b)
    PROVE  b = Total(s)
<1>1. PICK n \in Nat : n = Len(s)  OBVIOUS
<1> DEFINE Sums(f) == f = [i \in 0..n |-> IF i = 0 THEN 0 ELSE f[i - 1] + Size(s[i])]
           ends == CHOOSE f : Sums(f)
<1>2. PICK at \in [0..n -> Int] : EndsAt(at, s) /\ at[n] = b  BY <1>1 DEF Bytes
<1>3. Sums(at)
  <2>1. \A i \in 0..n : at[i] = IF i = 0 THEN 0 ELSE at[i - 1] + Size(s[i])
    <3>1. \A i \in 0..n : i = 0 \/ i \in 1..n  OBVIOUS
    <3> QED  BY <1>1, <1>2, <3>1 DEF EndsAt
  <2> QED  BY <2>1
<1>4. Sums(ends)  BY <1>3
<1>5. \A i \in 0..n : ends[i] = IF i = 0 THEN 0 ELSE ends[i - 1] + Size(s[i])
      BY <1>4
<1> HIDE DEF ends
<1>6. \A i \in 0..n : ends[i] = at[i]
  <2> DEFINE T == {i \in 0..n : ends[i] # at[i]}
  <2>1. SUFFICES ASSUME T # {} PROVE FALSE  OBVIOUS
  <2>2. PICK x \in T : \A y \in T : x <= y
    <3>1. T \in SUBSET Nat  OBVIOUS
    <3> QED  BY <2>1, <3>1, Smallest
  <2>3. CASE x = 0  BY <1>2, <1>5, <2>2, <2>3 DEF EndsAt
  <2>4. CASE x # 0
    <3>1. x \in 0..n /\ x \in 1..Len(s) /\ x - 1 \in 0..n  BY <1>1, <2>2, <2>4
    <3>2. ends[x - 1] = at[x - 1]  BY <2>2, <3>1
    <3>3. at[x] = at[x - 1] + Size(s[x])  BY <1>2, <3>1 DEF EndsAt
    <3>4. ends[x] = ends[x - 1] + Size(s[x])  BY <1>5, <2>4, <3>1
    <3> QED  BY <2>2, <3>2, <3>3, <3>4
  <2> QED  BY <2>3, <2>4
<1>7. Total(s) = ends[n]  BY <1>1 DEF Total, ends
<1> QED  BY <1>2, <1>6, <1>7
\* The bytes buffered and unread are those of the messages on the wire.
InPlace ==
    error # "stream buffer limit exceeded" => Bytes(wire, buffer + unread)

\* What is left when the loop has ended is the beginning of a message.
BetweenMessages ==
    /\ pc \in {"pop", "recv"} =>
          buffer < HeaderSize \/ (wire # << >> /\ ~Complete(Head(wire)))
    /\ pc = "recv" => messages = 0

PlaceInv == InPlace /\ BetweenMessages

\* Writing behind the first message does not change what is complete.
LEMMA WriteInPlace ==
    ASSUME TypeOK, PlaceInv, NEW m \in Wires, Write(m)
    PROVE  PlaceInv'
<1>1. wire \in Seq(Wires) /\ buffer \in Nat /\ unread \in Nat  BY DEF TypeOK
<1>2. /\ wire' = Append(wire, m) /\ unread' = unread + Size(m)
      /\ UNCHANGED <<buffer, messages, pc, error>>
      BY DEF Write
<1>3. InPlace'
  <2>1. Size(m) \in Nat  BY SizeBounds
  <2>2. (buffer + unread) + Size(m) = buffer' + unread'  BY <1>1, <1>2, <2>1
  <2>3. CASE error # "stream buffer limit exceeded"
    <3>1. Bytes(wire, buffer + unread)  BY <2>3 DEF PlaceInv, InPlace
    <3>2. buffer + unread \in Int  BY <1>1
    <3>3. Bytes(Append(wire, m), (buffer + unread) + Size(m))
          BY <1>1, <3>1, <3>2, AppendBytes
    <3> QED  BY <1>2, <2>2, <3>3 DEF InPlace
  <2>4. CASE error = "stream buffer limit exceeded"  BY <1>2, <2>4 DEF InPlace
  <2> QED  BY <2>3, <2>4
<1>4. wire # << >> => wire' # << >> /\ Head(wire') = Head(wire)
  <2> SUFFICES ASSUME wire # << >> PROVE wire' # << >> /\ Head(wire') = Head(wire)
      OBVIOUS
  <2>1. Len(wire) \in Nat \ {0} /\ Head(wire) = wire[1]  BY <1>1
  <2>2. wire' \in Seq(Wires) /\ Len(wire') = Len(wire) + 1 /\ wire'[1] = wire[1]
        BY <1>1, <1>2, <2>1, AppendProperties
  <2> QED  BY <2>1, <2>2
<1>5. BetweenMessages'  BY <1>2, <1>4 DEF PlaceInv, BetweenMessages, Complete
<1> QED  BY <1>3, <1>5 DEF PlaceInv

LEMMA RecvInPlace ==
    ASSUME TypeOK, PlaceInv, NEW n \in 1..unread, Recv(n)
    PROVE  PlaceInv'
<1>1. buffer \in Nat /\ unread \in Nat /\ error = "none"  BY DEF TypeOK, Recv
<1>2. CASE TooMuch(n)
      BY <1>2 DEF Recv, Throw, PlaceInv, InPlace, BetweenMessages
<1>3. CASE ~TooMuch(n)
  <2>1. /\ wire' = wire /\ buffer' = buffer + n /\ unread' = unread - n
        /\ error' = error /\ pc' = "parse"
        BY <1>3 DEF Recv
  <2>2. buffer' + unread' = buffer + unread  BY <1>1, <2>1
  <2> QED  BY <1>1, <2>1, <2>2 DEF PlaceInv, InPlace, BetweenMessages
<1> QED  BY <1>2, <1>3

LEMMA DecodeInPlace ==
    ASSUME TypeOK, PlaceInv, Decode
    PROVE  PlaceInv'
<1>1. /\ wire \in Seq(Wires) /\ wire # << >> /\ buffer \in Nat /\ unread \in Nat
      /\ error = "none" /\ error' = error /\ pc' = "parse" /\ unread' = unread
      /\ wire' = Tail(wire) /\ buffer' = buffer - Size(Head(wire))
      BY DEF TypeOK, Decode, HeaderBuffered
<1>2. Size(Head(wire)) \in Nat  BY <1>1, HeadOnWire, SizeBounds
<1>3. Bytes(wire, buffer + unread)  BY <1>1 DEF PlaceInv, InPlace
<1>4. Bytes(Tail(wire), (buffer + unread) - Size(Head(wire)))  BY <1>1, <1>3, TailBytes
<1>5. (buffer + unread) - Size(Head(wire)) = buffer' + unread'  BY <1>1, <1>2
<1> QED  BY <1>1, <1>4, <1>5 DEF PlaceInv, InPlace, BetweenMessages

LEMMA PlaceStep ==
    ASSUME TypeOK, PlaceInv, [Next]_vars
    PROVE  PlaceInv'
<1>1. CASE NoHeader \/ Incomplete \/ Refuse
      BY <1>1 DEF NoHeader, Incomplete, Refuse, HeaderBuffered, Throw, Complete, PlaceInv,
                  InPlace, BetweenMessages, TypeOK
<1>2. CASE PopMessage \/ Drained \/ SessionThrows
      BY <1>2 DEF PopMessage, Drained, SessionThrows, Throw, Complete, PlaceInv, InPlace,
                  BetweenMessages, TypeOK
<1>3. CASE Reconnect
  <2>1. wire' = << >> /\ buffer' = 0 /\ unread' = 0 /\ messages' = 0 /\ pc' = "recv"
        BY <1>3 DEF Reconnect
  <2>2. Bytes(wire', buffer' + unread')  BY <2>1, NoBytes
  <2>3. buffer' < HeaderSize  BY <2>1, SizesAssumption
  <2> QED  BY <2>1, <2>2, <2>3 DEF PlaceInv, InPlace, BetweenMessages
<1>4. CASE UNCHANGED vars
      BY <1>4 DEF vars, Complete, PlaceInv, InPlace, BetweenMessages
<1> QED  BY <1>1, <1>2, <1>3, <1>4, WriteInPlace, RecvInPlace, DecodeInPlace DEF Next

LEMMA PlaceInvariant == Spec => []PlaceInv
<1>1. Init => PlaceInv
  <2> SUFFICES ASSUME Init PROVE PlaceInv  OBVIOUS
  <2>1. wire = << >> /\ buffer = 0 /\ unread = 0 /\ messages = 0  BY DEF Init
  <2>2. Bytes(wire, buffer + unread)  BY <2>1, NoBytes
  <2>3. buffer < HeaderSize  BY <2>1, SizesAssumption
  <2> QED  BY <2>1, <2>2, <2>3 DEF PlaceInv, InPlace, BetweenMessages
<1>2. TypeOK /\ PlaceInv /\ [Next]_vars => PlaceInv'  BY PlaceStep
<1> QED  BY <1>1, <1>2, DecoderTypeCorrect, PTL DEF Spec

(* For every cut of the stream by TCP, every size of messages and any      *)
(* number of them in flight: no byte is skipped or read twice, and when    *)
(* the decoder goes back to recv it has taken every message that has       *)
(* arrived as a whole (Mtp1.cpp:126-132, 148-159).                         *)
THEOREM DecoderStaysInStep == Spec => []InStep
<1>1. TypeOK /\ PlaceInv => InStep
  <2> SUFFICES ASSUME TypeOK, PlaceInv PROVE InStep  OBVIOUS
  <2>1. wire \in Seq(Wires) /\ buffer + unread \in Int
    <3>1. wire \in Seq(Wires) /\ buffer \in Nat /\ unread \in Nat  BY DEF TypeOK
    <3> QED  BY <3>1
  <2>2. error # "stream buffer limit exceeded" => buffer + unread = Total(wire)
        BY <2>1, BytesAreTotal DEF PlaceInv, InPlace
  <2>3. TakenWhole  BY DEF PlaceInv, BetweenMessages, TakenWhole
  <2> QED  BY <2>2, <2>3 DEF InStep
<1> QED  BY <1>1, PlaceInvariant, DecoderTypeCorrect, PTL

(* The loop of ParseAvailable looks only at bytes of a message that has    *)
(* been written: when a header is buffered, a message is there, so the     *)
(* model's guard that the wire is not empty excludes nothing               *)
(* (Mtp1.cpp:148-159).                                                     *)
THEOREM HeaderIsOfMessage ==
    Spec => [](pc = "parse" /\ buffer >= HeaderSize => HeaderBuffered)
<1>1. TypeOK /\ PlaceInv => (pc = "parse" /\ buffer >= HeaderSize => HeaderBuffered)
  <2> SUFFICES ASSUME TypeOK, PlaceInv, pc = "parse", buffer >= HeaderSize, wire = << >>
               PROVE  FALSE
      BY DEF HeaderBuffered
  <2>1. error = "none"  BY DEF TypeOK
  <2>2. PICK at \in [0..Len(wire) -> Int] : at[0] = 0 /\ at[Len(wire)] = buffer + unread
        BY <2>1 DEF PlaceInv, InPlace, Bytes, EndsAt
  <2>3. buffer \in Nat /\ unread \in Nat /\ Len(wire) = 0  BY DEF TypeOK
  <2>4. buffer + unread = 0  BY <2>2, <2>3
  <2> QED  BY <2>3, <2>4, SizesAssumption
<1> QED  BY <1>1, PlaceInvariant, DecoderTypeCorrect, PTL
=============================================================================
