------------------------------- MODULE Bridge -------------------------------
(***************************************************************************)
(* The two programs and the TCP connections between them: the agent's      *)
(* sender thread (mac/Agent/main.c), the receiver's loop                   *)
(* (windows/receiver/main.cpp) and what the network does to them.          *)
(*                                                                         *)
(* MacAgent and Receiver look at each program alone, access by access;     *)
(* here a callback, a connect and a send are one step each, and a session  *)
(* is whether it holds contacts.  What they leave out is the subject:      *)
(* connections that wait in the backlog, sends that block or vanish, paths *)
(* that break without a word to either side.                               *)
(***************************************************************************)
EXTENDS Integers, SequencesExt

CONSTANTS
    QueueCapacity, \* QUEUE_CAPACITY, 256
    SocketBuffer,  \* messages a connection takes before send() blocks
    Backlog,       \* the second argument of listen, 1
    DecoderLimit,  \* messages that fit into the limit of StreamDecoder::Append
    MaxFaults      \* bound: broken paths and stops of the receiver

ASSUME CapacityAssumption == QueueCapacity \in Nat \ {0} /\ SocketBuffer \in Nat \ {0}
ASSUME LimitAssumption    == Backlog \in Nat /\ DecoderLimit \in Nat /\ MaxFaults \in Nat

VARIABLES
    fingers,             \* on the trackpad: none, some (up to five), many
    running, connected, reconnect_requested, \* the agent's flags
    queue,               \* its MessageQueue
    pc, message,         \* its sender thread, and the frame it has popped
    sock,                \* what the Mac knows of its socket
    line,                \* the connections the receiver has or will accept
    rx,                  \* where the receiver is: down, accept or recv
    holds,               \* TouchSession::HasActiveContacts
    host,                \* whether Windows sees a contact
    faults               \* faults that have happened

agent    == <<running, connected, reconnect_requested, queue, pc, message>>
receiver == <<rx, holds, host>>
vars     == <<fingers, agent, sock, line, receiver, faults>>

-----------------------------------------------------------------------------
Frames   == {"none", "some", "many"}
Messages == {"reset"} \cup Frames  \* HELLO and RESET are one message

\* A connection: what the receiver can still read from it, and what follows:
\* more from the Mac (live), the end of the stream (fin), or silence (lost).
Links == [data : Seq(Messages), end : {"live", "fin", "lost"}]

\* none; open: the last connection of line; orphan: nobody reads it any more;
\* failing: TCP is finding that out; broken: the next send fails.
SocketStates == {"none", "open", "orphan", "failing", "broken"}

Init ==
    /\ fingers = "none"
    /\ running = TRUE /\ connected = FALSE /\ reconnect_requested = FALSE
    /\ queue = << >>
    /\ pc = "connect" /\ message = "none"
    /\ sock = "none"
    /\ line = << >>
    /\ rx = "accept" /\ holds = FALSE /\ host = FALSE
    /\ faults = 0

-----------------------------------------------------------------------------
(* contact_callback, when the fingers are f.                               *)

FrameIgnored(f) ==
    /\ ~connected
    /\ fingers' = f
    /\ UNCHANGED <<agent, sock, line, receiver, faults>>

FrameQueued(f) ==
    /\ connected
    /\ Len(queue) < QueueCapacity
    /\ fingers' = f
    /\ queue' = Append(queue, f)
    /\ UNCHANGED <<running, connected, reconnect_requested, pc, message, sock, line,
                   receiver, faults>>

\* Mutant: the newest frame is dropped and the session goes on.
FrameOverflows_Drops(f) ==
    /\ connected
    /\ Len(queue) = QueueCapacity
    /\ fingers' = f
    /\ UNCHANGED <<agent, sock, line, receiver, faults>>

FrameOverflows(f) ==
    /\ connected
    /\ Len(queue) = QueueCapacity
    /\ fingers' = f
    /\ connected' = FALSE
    /\ reconnect_requested' = TRUE
    /\ queue' = << >>
    /\ UNCHANGED <<running, pc, message, sock, line, receiver, faults>>

ContactFrame(f) == FrameIgnored(f) \/ FrameQueued(f) \/ FrameOverflows(f)

-----------------------------------------------------------------------------
(* The sender thread.                                                      *)

SenderGoes(from, to) == pc = from /\ pc' = to

\* Connections the receiver's socket takes: one accepted, Backlog waiting.
Room == Len(line) < Backlog + (IF rx = "recv" THEN 1 ELSE 0)

\* TCP completes the handshake whether or not accept has been called.  An
\* attempt that fails is repeated after a second and changes nothing.
Connect ==
    /\ running
    /\ rx # "down" /\ Room
    /\ SenderGoes("connect", "opening")
    /\ sock' = "open"
    /\ line' = Append(line, [data |-> << >>, end |-> "live"])
    /\ queue' = << >>
    /\ UNCHANGED <<fingers, running, connected, reconnect_requested, message, receiver, faults>>

\* send_all of m goes through, waits for room, vanishes, or fails.
Send(m, from, to, failed) ==
    \/ /\ sock = "open" /\ Len(Last(line).data) < SocketBuffer
       /\ SenderGoes(from, to)
       /\ line' = [line EXCEPT ![Len(line)].data = Append(@, m)]
       /\ UNCHANGED sock
    \/ /\ sock \in {"orphan", "failing"}
       /\ SenderGoes(from, to)
       /\ sock' = "failing"
       /\ UNCHANGED line
    \/ /\ sock = "broken"
       /\ SenderGoes(from, failed)
       /\ UNCHANGED <<sock, line>>

\* Mutant: the socket is forgotten, not closed.
Close_Leaks == sock' = "none" /\ UNCHANGED line

\* close(socket_fd): what has been sent is still delivered.
Close ==
    /\ sock' = "none"
    /\ line' = IF sock = "open" THEN [line EXCEPT ![Len(line)].end = "fin"] ELSE line

SendOpening ==
    /\ Send("reset", "opening", "open", "abandon")
    /\ UNCHANGED <<fingers, running, connected, reconnect_requested, queue, message,
                   receiver, faults>>

Abandon ==
    /\ SenderGoes("abandon", "connect")
    /\ Close
    /\ UNCHANGED <<fingers, running, connected, reconnect_requested, queue, message,
                   receiver, faults>>

Open ==
    /\ SenderGoes("open", "loop")
    /\ reconnect_requested' = FALSE
    /\ connected' = TRUE
    /\ UNCHANGED <<fingers, running, queue, message, sock, line, receiver, faults>>

Pop ==
    /\ running /\ ~reconnect_requested
    /\ queue # << >>
    /\ SenderGoes("loop", "send")
    /\ message' = Head(queue)
    /\ queue' = Tail(queue)
    /\ UNCHANGED <<fingers, running, connected, reconnect_requested, sock, line,
                   receiver, faults>>

SendFrame ==
    /\ Send(message, "send", "loop", "shut")
    /\ message' = "none"
    /\ UNCHANGED <<fingers, running, connected, reconnect_requested, queue, receiver, faults>>

\* Mutants: the loop is left for one of its two reasons only.
Leave_OnlyStopped ==
    /\ ~running
    /\ SenderGoes("loop", "shut")
    /\ UNCHANGED <<fingers, running, connected, reconnect_requested, queue, message, sock,
                   line, receiver, faults>>

Leave_OnlyReconnect ==
    /\ reconnect_requested
    /\ SenderGoes("loop", "shut")
    /\ UNCHANGED <<fingers, running, connected, reconnect_requested, queue, message, sock,
                   line, receiver, faults>>

Leave ==
    /\ ~running \/ reconnect_requested
    /\ SenderGoes("loop", "shut")
    /\ UNCHANGED <<fingers, running, connected, reconnect_requested, queue, message, sock,
                   line, receiver, faults>>

Shut ==
    /\ SenderGoes("shut", "connect")
    /\ connected' = FALSE
    /\ queue' = << >>
    /\ Close
    /\ UNCHANGED <<fingers, running, reconnect_requested, message, receiver, faults>>

\* The sender thread ends, main() joins it and the process exits.
Exit ==
    /\ ~running
    /\ SenderGoes("connect", "done")
    /\ UNCHANGED <<fingers, running, connected, reconnect_requested, queue, message, sock,
                   line, receiver, faults>>

Sender ==
    \/ Connect \/ SendOpening \/ Abandon \/ Open
    \/ Pop \/ SendFrame \/ Leave \/ Shut \/ Exit

stop_agent ==
    /\ running
    /\ running' = FALSE
    /\ UNCHANGED <<fingers, connected, reconnect_requested, queue, pc, message, sock, line,
                   receiver, faults>>

-----------------------------------------------------------------------------
(* The receiver.                                                           *)

Accept ==
    /\ rx = "accept" /\ line # << >>
    /\ rx' = "recv"
    /\ UNCHANGED <<fingers, agent, sock, line, holds, host, faults>>

Served == Head(line)
Reading == rx = "recv" /\ Served.data # << >>

\* A message is received, processed and submitted.
Receive ==
    /\ Reading
    /\ Head(Served.data) # "many"
    /\ line' = [line EXCEPT ![1].data = Tail(@)]
    /\ holds' = (Head(Served.data) = "some")
    /\ host' = holds'
    /\ UNCHANGED <<fingers, agent, sock, rx, faults>>

\* Mutant: only a peer that is still there is released.
Release_OnlyLive == Served.end = "live" /\ host' = FALSE

\* TouchSession::ReleaseAll, submitted.
Release == host' = FALSE

\* recv has timed out long enough and the session holds contacts.
OnTimeout ==
    /\ rx = "recv" /\ Served.data = << >> /\ Served.end # "fin"
    /\ holds
    /\ holds' = FALSE
    /\ Release
    /\ UNCHANGED <<fingers, agent, sock, line, rx, faults>>

\* The Mac gets FIN or RST, which it does not look at before it sends.
SocketLeft == IF sock = "open" THEN sock' \in {"orphan", "failing"} ELSE UNCHANGED sock

\* OnDisconnect and closesocket.
HangUp ==
    /\ holds' = FALSE
    /\ host' = (host /\ ~holds)
    /\ line' = Tail(line)
    /\ rx' = "accept"
    /\ IF Served.end = "live" THEN SocketLeft ELSE UNCHANGED sock
    /\ UNCHANGED <<fingers, agent, faults>>

\* Mutant: the end of the stream is taken for another receive timeout.
EndOfStream_AsTimeout ==
    /\ rx = "recv" /\ Served.data = << >> /\ Served.end = "fin"
    /\ UNCHANGED vars

EndOfStream ==
    /\ rx = "recv" /\ Served.data = << >> /\ Served.end = "fin"
    /\ HangUp

\* recv joins more than StreamDecoder::Append takes.
RefuseBurst ==
    /\ Reading
    /\ Len(Served.data) > DecoderLimit
    /\ HangUp

\* TouchSession::Process has no slot for a sixth contact.
RefuseFrame ==
    /\ Reading
    /\ Head(Served.data) = "many"
    /\ HangUp

Start ==
    /\ rx = "down"
    /\ rx' = "accept"
    /\ UNCHANGED <<fingers, agent, sock, line, holds, host, faults>>

ReceiverStep ==
    Accept \/ Receive \/ OnTimeout \/ EndOfStream \/ RefuseBurst \/ RefuseFrame \/ Start

-----------------------------------------------------------------------------
(* The environment.                                                        *)

Fault == faults < MaxFaults /\ faults' = faults + 1

\* The process is stopped with all its connections; the driver is not.
ReceiverStops ==
    /\ rx # "down"
    /\ Fault
    /\ rx' = "down"
    /\ line' = << >>
    /\ holds' = FALSE
    /\ SocketLeft
    /\ UNCHANGED <<fingers, agent, host>>

\* The path of a connection breaks: the receiver gets a part of what was on
\* its way, then nothing, not even the end of the stream.  (Neither side has
\* SO_KEEPALIVE, and the receiver never sends.)
PathLost ==
    \E i \in DOMAIN line : \E arrived \in Prefixes(line[i].data) :
        /\ line[i].end # "lost"
        /\ Fault
        /\ line' = [line EXCEPT ![i] = [data |-> arrived, end |-> "lost"]]
        /\ IF line[i].end # "live" THEN UNCHANGED sock
           ELSE IF arrived = line[i].data THEN SocketLeft
           ELSE sock' = "failing"
        /\ UNCHANGED <<fingers, agent, receiver>>

\* TCP gives up retransmitting, or the answer of a closed port arrives.
SocketBreaks ==
    /\ sock = "failing"
    /\ sock' = "broken"
    /\ UNCHANGED <<fingers, agent, line, receiver, faults>>

\* The trackpad reports again and again while it is touched.
StillTouched == fingers # "none" /\ ContactFrame(fingers)

Next ==
    \/ \E f \in Frames : ContactFrame(f)
    \/ Sender
    \/ stop_agent
    \/ ReceiverStep
    \/ ReceiverStops
    \/ PathLost
    \/ SocketBreaks

Spec == Init /\ [][Next]_vars

(* Both programs keep running, a stopped receiver is started again, TCP    *)
(* finds out about data nobody acknowledges, and a touched trackpad keeps  *)
(* reporting.  Fingers, signals and faults are not fair.                   *)
FairSpec ==
    /\ Spec
    /\ WF_vars(Sender)
    /\ WF_vars(ReceiverStep)
    /\ WF_vars(SocketBreaks)
    /\ WF_vars(StillTouched)

-----------------------------------------------------------------------------
(* Every variable has its type, and the only live connection is the last   *)
(* one, while the Mac's socket is open.                                    *)
TypeOK ==
    /\ fingers \in Frames /\ message \in Frames
    /\ {running, connected, reconnect_requested, holds, host} \subseteq BOOLEAN
    /\ queue \in Seq(Frames) /\ Len(queue) <= QueueCapacity
    /\ pc \in {"connect", "opening", "abandon", "open", "loop", "send", "shut", "done"}
    /\ sock \in SocketStates
    /\ line \in Seq(Links) /\ Len(line) <= Backlog + 1
    /\ rx \in {"down", "accept", "recv"}
    /\ faults \in 0..MaxFaults
    /\ \A i \in DOMAIN line : /\ Len(line[i].data) <= SocketBuffer
                              /\ line[i].end = "live" => sock = "open" /\ i = Len(line)
    /\ sock = "open" => line # << >> /\ Last(line).end = "live"
    /\ rx = "recv" => line # << >>

\* The receiver waits for a connection whose other end is gone.
Held == rx = "recv" /\ Served.data = << >> /\ Served.end = "lost"

\* A burst the decoder may refuse.
Burst == rx = "recv" /\ Len(Served.data) > DecoderLimit

\* What a stopped receiver has left on the screen.
Exposed == host /\ ~holds

(* End to end, nothing is left over: once everything that was sent has     *)
(* been taken, Windows sees a contact only if a finger is down, although   *)
(* frames are dropped by overflows, by the connected check and by broken   *)
(* paths (main.c:171-173, 319-329, 342-343): each of them is followed by a *)
(* RESET.                                                                  *)
NothingLeftOver ==
    ( /\ pc = "loop" /\ connected /\ queue = << >>
      /\ rx = "recv" /\ Len(line) = 1 /\ Served = [data |-> << >>, end |-> "live"]
      /\ host )
    => fingers = "some"

(* "Never a stuck contact" (docs/WINDOWS_HANDOFF.md:248): when the fingers *)
(* are lifted Windows stops seeing them, although the lift may be lost in  *)
(* an overflow, a reconnect or a broken path, unless the receiver has been *)
(* stopped with contacts down.                                             *)
LiftReachesWindows ==
    fingers = "none" ~> (~host \/ fingers # "none" \/ Exposed)

(* "The agent reconnects automatically while it remains running"           *)
(* (docs/MAC_SETUP.md:82): a touch that stays is shown in the end, through *)
(* every broken path and restart, unless the receiver is held by a dead    *)
(* connection or the data come faster than either side takes them.         *)
TouchReachesWindows ==
    (fingers = "some" /\ running) ~>
        (holds \/ fingers # "some" \/ ~running \/ Held \/ reconnect_requested \/ Burst)

(* An overflow "forces a reconnect" (docs/WINDOWS_HANDOFF.md:151-154) and  *)
(* Ctrl-C stops the agent (docs/MAC_SETUP.md:82), although the sender may  *)
(* block in send() when it is asked to leave (main.c:252-265, 334-337),    *)
(* unless the receiver is held.                                            *)
LeavesUnlessHeld ==
    /\ reconnect_requested ~> (~reconnect_requested \/ ~running \/ Held)
    /\ ~running ~> (pc = "done" \/ Held)
=============================================================================
