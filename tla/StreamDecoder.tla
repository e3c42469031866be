--------------------------- MODULE StreamDecoder ---------------------------
(***************************************************************************)
(* From the bytes of a TCP connection to messages: the class StreamDecoder *)
(* of windows/receiver/Mtp1.{h,cpp} and the loop of main.cpp that feeds    *)
(* it.  recv splits and joins what the peer wrote as it likes.             *)
(*                                                                         *)
(* A message is its number of contacts and where decoding it fails, if     *)
(* anywhere; its bytes are only counted.  wire is what the peer has        *)
(* written and the decoder has not taken yet, so the bytes buffered are    *)
(* the first ones of wire and the bytes unread the last ones.              *)
(***************************************************************************)
EXTENDS Integers, Sequences

CONSTANTS
    HeaderSize,   \* kHeaderSize, 36
    ContactSize,  \* kContactSize, 44
    MaxContacts,  \* kMaxContacts, 10
    RecvSize,     \* the buffer of main.cpp:113, 4096
    MaxInFlight   \* bound: messages written and not decoded

ASSUME SizesAssumption == /\ HeaderSize \in Nat \ {0}
                          /\ ContactSize \in Nat \ {0}
                          /\ MaxContacts \in Nat
                          /\ RecvSize \in Nat \ {0}
ASSUME FlightAssumption == MaxInFlight \in Nat

VARIABLES
    wire,      \* messages written and not decoded, oldest first
    unread,    \* bytes of wire that recv has not returned yet
    buffer,    \* bytes in buffer_
    messages,  \* messages in messages_
    received,  \* bytes the last recv returned
    pc,        \* where the loop of main() is
    error      \* the exception that closed the connection, or "none"

vars == <<wire, unread, buffer, messages, received, pc, error>>

-----------------------------------------------------------------------------
kMaxMessageSize == HeaderSize + MaxContacts * ContactSize

\* Whether ValidateHeader or the rest of DecodeMessage refuses the message.
Faults == {"none", "header", "contacts"}
Wires == [count : 0..MaxContacts, fault : Faults]
Size(m) == HeaderSize + m.count * ContactSize

Init ==
    /\ wire = << >>
    /\ unread = 0
    /\ buffer = 0
    /\ messages = 0
    /\ received = 0
    /\ pc = "recv"
    /\ error = "none"

\* The peer writes a message; it never waits for the receiver.
Write(m) ==
    /\ Len(wire) < MaxInFlight
    /\ wire' = Append(wire, m)
    /\ unread' = unread + Size(m)
    /\ UNCHANGED <<buffer, messages, received, pc, error>>

Throw(text) == pc' = "closed" /\ error' = text

-----------------------------------------------------------------------------
(* StreamDecoder::Append.                                                  *)

\* Mutants: the limit is checked before the bytes come, or is one message.
TooMuch_BeforeAppend(n) == buffer > kMaxMessageSize * 2

TooMuch_OneMessage(n) == buffer + n > kMaxMessageSize

TooMuch(n) == buffer + n > kMaxMessageSize * 2

Recv(n) ==
    /\ pc = "recv"
    /\ unread' = unread - n
    /\ received' = n
    /\ IF TooMuch(n)
       THEN Throw("stream buffer limit exceeded") /\ UNCHANGED buffer
       ELSE buffer' = buffer + n /\ pc' = "parse" /\ UNCHANGED error
    /\ UNCHANGED <<wire, messages>>

-----------------------------------------------------------------------------
(* StreamDecoder::ParseAvailable, one action per way through its loop.     *)

\* The bytes buffered are the first ones of wire, which then is not empty.
HeaderBuffered == pc = "parse" /\ buffer >= HeaderSize /\ wire # << >>

Complete(m) == buffer >= Size(m)

NoHeader ==
    /\ pc = "parse" /\ buffer < HeaderSize
    /\ pc' = "pop"
    /\ UNCHANGED <<wire, unread, buffer, messages, received, error>>

Incomplete ==
    /\ HeaderBuffered
    /\ Head(wire).fault # "header" /\ ~Complete(Head(wire))
    /\ pc' = "pop"
    /\ UNCHANGED <<wire, unread, buffer, messages, received, error>>

\* The header is judged as soon as it is there, the contacts when all are.
Refuse ==
    /\ HeaderBuffered
    /\ \/ Head(wire).fault = "header"
       \/ Head(wire).fault = "contacts" /\ Complete(Head(wire))
    /\ Throw("malformed message")
    /\ UNCHANGED <<wire, unread, buffer, messages, received>>

\* Mutant: the loop is left after one message.
Decode_OnlyOne ==
    /\ HeaderBuffered
    /\ Head(wire).fault = "none" /\ Complete(Head(wire))
    /\ messages' = messages + 1
    /\ buffer' = buffer - Size(Head(wire))
    /\ wire' = Tail(wire)
    /\ pc' = "pop"
    /\ UNCHANGED <<unread, received, error>>

Decode ==
    /\ HeaderBuffered
    /\ Head(wire).fault = "none" /\ Complete(Head(wire))
    /\ messages' = messages + 1
    /\ buffer' = buffer - Size(Head(wire))
    /\ wire' = Tail(wire)
    /\ UNCHANGED <<unread, received, pc, error>>

\* while (decoder.HasMessage()) ... PopMessage(): the session gets a message.
PopMessage ==
    /\ pc = "pop" /\ messages > 0
    /\ messages' = messages - 1
    /\ UNCHANGED <<wire, unread, buffer, received, pc, error>>

Drained ==
    /\ pc = "pop" /\ messages = 0
    /\ pc' = "recv"
    /\ UNCHANGED <<wire, unread, buffer, messages, received, error>>

\* The session or Submit throws while messages are left: all are dropped.
SessionThrows ==
    /\ pc = "pop" /\ messages > 0
    /\ Throw("session")
    /\ UNCHANGED <<wire, unread, buffer, messages, received>>

\* After catch and accept: a new connection and a new decoder.
Reconnect ==
    /\ pc = "closed"
    /\ wire' = << >> /\ unread' = 0 /\ buffer' = 0 /\ messages' = 0
    /\ received' = 0 /\ pc' = "recv" /\ error' = "none"

-----------------------------------------------------------------------------
Next ==
    \/ \E m \in Wires : Write(m)
    \/ \E n \in 1..unread : n <= RecvSize /\ Recv(n)
    \/ NoHeader \/ Incomplete \/ Refuse \/ Decode
    \/ PopMessage \/ Drained \/ SessionThrows \/ Reconnect

Spec == Init /\ [][Next]_vars

-----------------------------------------------------------------------------
(* Every variable has its type, and buffer_ never outgrows its limit.      *)
TypeOK ==
    /\ wire \in Seq(Wires) /\ Len(wire) <= MaxInFlight
    /\ unread \in Nat
    /\ buffer \in Nat /\ buffer <= kMaxMessageSize * 2
    /\ messages \in Nat
    /\ received \in 0..RecvSize
    /\ pc \in {"recv", "parse", "pop", "closed"}
    /\ error \in {"none", "stream buffer limit exceeded", "malformed message", "session"}
    /\ pc = "closed" <=> error # "none"

\* The bytes of the messages of s; ends[i] is where the i-th of them ends.
Total(s) ==
    LET ends[i \in 0..Len(s)] == IF i = 0 THEN 0 ELSE ends[i - 1] + Size(s[i])
    IN  ends[Len(s)]

\* Nothing that has arrived as a whole waits for another recv.
TakenWhole == pc = "recv" => messages = 0 /\ (buffer < HeaderSize \/ ~Complete(Head(wire)))

(* Whatever way TCP cuts the stream, the decoder keeps its place in it: no *)
(* byte is skipped or read twice, and when it goes back to recv it has     *)
(* taken every message that has arrived as a whole (Mtp1.cpp:148-159).     *)
InStep ==
    /\ error # "stream buffer limit exceeded" => buffer + unread = Total(wire)
    /\ TakenWhole

(* A peer that writes nothing malformed is refused for the bytes in the    *)
(* buffer only when one recv brings more than a message can have: what     *)
(* waits in buffer_ is always less than one message (Mtp1.cpp:127-129).    *)
LimitOnlyOnBurst ==
    error = "stream buffer limit exceeded" => received > kMaxMessageSize

(* The receiver rejects "a message or connection when" one of the faults   *)
(* docs/WINDOWS_HANDOFF.md:43-53 lists is found, and recv may join         *)
(* messages (26): a stream without such a fault is not refused.            *)
LegalStreamAccepted ==
    error \in {"none", "session"} \/ \E i \in DOMAIN wire : wire[i].fault # "none"
=============================================================================
