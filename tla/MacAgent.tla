------------------------------ MODULE MacAgent ------------------------------
(***************************************************************************)
(* The macOS agent, mac/Agent/main.c: four threads around one bounded      *)
(* queue.  The contact callback and the button callback of the trackpad    *)
(* framework number frames and push them; the sender thread connects,      *)
(* opens the session with HELLO and RESET, pops frames and sends them, and *)
(* connects again when sending fails or a callback asks for it; main()     *)
(* starts the sender before it looks for a trackpad, and joins it however  *)
(* the program ends.                                                       *)
(*                                                                         *)
(* Shared variables are accessed one atomic operation, or one critical     *)
(* section of the queue's mutex, per step.  frame_mutex is held across     *)
(* several steps, so it is a variable.  A frame is its number of touching  *)
(* contacts and its BUTTON flag; pressure is only above the threshold or   *)
(* not.  Counters for the summary and the trace file are left out.         *)
(***************************************************************************)
EXTENDS Integers, Sequences

CONSTANTS
    Touches,       \* what the trackpad can report: touching contacts, whether one
                   \* is over the threshold, and whether all contacts together,
                   \* hovering ones included, fit into TP_MAX_CONTACTS
    Clicking,      \* whether the framework delivers button events
    Signals,       \* whether the agent is told to stop
    QueueCapacity, \* QUEUE_CAPACITY, 256
    PressFrames,   \* frames over the threshold before a pressure click, 3
    MaxSequence,   \* bound: sequence numbers given out
    Reordered      \* whether the two stores of main.c:171-172 may be seen swapped

Callbacks == {"contact", "button"}

ASSUME TouchesAssumption  == Touches \subseteq [tips : Nat, hard : BOOLEAN, fits : BOOLEAN]
\* The code relies on more room than there are callbacks.
ASSUME CapacityAssumption == QueueCapacity \in Nat /\ QueueCapacity > 2
ASSUME PressAssumption    == PressFrames \in Nat \ {0}
ASSUME SequenceAssumption == MaxSequence \in Nat
ASSUME SwitchAssumption   == {Clicking, Signals, Reordered} \subseteq BOOLEAN

VARIABLES
    running, connected, reconnect_requested, \* the agent's atomic flags
    sequence,                \* the last sequence number given out
    physical_button_down, pressure_button_down, pressure_press_frames,
    latest_frame,            \* the last complete frame, for the button callback
    frame_mutex,             \* who holds it, or "free"
    queue,                   \* the MessageQueue
    pc,                      \* where each thread is
    touch,                   \* the argument of contact_callback
    frame,                   \* the frame each callback is working on
    message,                 \* the message the sender has popped
    peer,                    \* the connection: none, open, closed by the receiver,
                             \* or dead: the receiver's RST has arrived
    last,                    \* the last sequence number the receiver took
    windows,                 \* what the receiver reports to Windows
    stalled,                 \* nobody reads and the socket is full: send() blocks
    force,                   \* history: what the fingers really did
    carried                  \* history: a callback let in by an older session was
                             \* still running when this one was opened

buttonVars == <<physical_button_down, pressure_button_down, pressure_press_frames>>
agentVars == <<running, connected, reconnect_requested, sequence, buttonVars,
               latest_frame, frame_mutex, queue>>
peerVars  == <<peer, last, windows, stalled>>
history == <<force, carried>>
vars == <<agentVars, pc, touch, frame, message, peerVars, history>>

-----------------------------------------------------------------------------
Empty == [tips |-> 0, button |-> FALSE]
Frames == [tips : {t.tips : t \in Touches} \cup {0}, button : BOOLEAN]
Numbered == [tips : {t.tips : t \in Touches} \cup {0}, button : BOOLEAN,
             seq : 0..MaxSequence]
NoMessage == [tips |-> 0, button |-> FALSE, seq |-> 0]
NoTouch == [tips |-> 0, hard |-> FALSE, fits |-> TRUE]

InCallback == {"idle", "check", "lock", "number", "push",
               "overflow", "disconnected", "requested", "clear"}
InSender == {"start", "connect", "clear", "hello", "reset", "rearm", "zero", "open",
             "loop", "pop", "send", "shut", "drain", "done"}

InMain == {"starting", "aborting", "streaming", "exited"}

\* The framework calls back once main() has started a trackpad.
Streaming == pc["main"] = "streaming"

\* Labels at which a callback holds frame_mutex.
Holding == {"number", "push", "overflow", "disconnected", "requested", "clear"}

effective_button_down == pressure_button_down \/ physical_button_down

Init ==
    /\ running = TRUE
    /\ connected = FALSE
    /\ reconnect_requested = FALSE
    /\ sequence = 0
    /\ physical_button_down = FALSE
    /\ pressure_button_down = FALSE
    /\ pressure_press_frames = 0
    /\ latest_frame = Empty
    /\ frame_mutex = "free"
    /\ queue = << >>
    /\ pc = [contact |-> "idle", button |-> "idle", sender |-> "start",
             main |-> "starting"]
    /\ touch = NoTouch
    /\ frame = [c \in Callbacks |-> NoMessage]
    /\ message = NoMessage
    /\ peer = "none"
    /\ last = 0
    /\ windows = Empty
    /\ stalled = FALSE
    /\ force = [streak |-> 0, latched |-> FALSE]
    /\ carried = FALSE

Goto(thread, label) == pc' = [pc EXCEPT ![thread] = label]

-----------------------------------------------------------------------------
(* The contact callback.                                                   *)

\* History: the pressure rule applied to every frame the trackpad reports.
Streak(t) == IF t.tips # 1 \/ ~t.hard THEN 0
             ELSE IF force.streak < PressFrames THEN force.streak + 1
             ELSE PressFrames
Felt(t) ==
    [streak  |-> Streak(t),
     latched |-> t.tips = 1 /\ (force.latched \/ Streak(t) >= PressFrames)]

\* The framework calls contact_callback.  It looks at nothing, the pressure
\* state included, while no session is open or when there are too many contacts.
ContactFrame(t) ==
    /\ Streaming
    /\ pc["contact"] = "idle"
    /\ force' = Felt(t)
    /\ IF connected /\ t.fits THEN touch' = t /\ Goto("contact", "lock")
                              ELSE UNCHANGED <<touch, pc>>
    /\ UNCHANGED <<agentVars, frame, message, peerVars, carried>>

\* Mutant: only lifting every finger ends a pressure click.
Pressure_LatchedUntilLift(t) ==
    IF t.tips = 0 THEN [down |-> FALSE, frames |-> 0]
    ELSE IF pressure_button_down
         THEN [down |-> TRUE, frames |-> pressure_press_frames]
    ELSE IF ~t.hard THEN [down |-> FALSE, frames |-> 0]
    ELSE [down |-> pressure_press_frames + 1 >= PressFrames,
          frames |-> pressure_press_frames + 1]

\* The pressure click of one frame: {down, frames over the threshold}.
Pressure(t) ==
    IF t.tips # 1 THEN [down |-> FALSE, frames |-> 0]
    ELSE IF pressure_button_down
         THEN [down |-> TRUE, frames |-> pressure_press_frames]
    ELSE IF ~t.hard THEN [down |-> FALSE, frames |-> 0]
    ELSE [down |-> pressure_press_frames + 1 >= PressFrames,
          frames |-> pressure_press_frames + 1]

\* Mutant: the frame is built and numbered without frame_mutex.
Build_WithoutMutex(thread, tips, button) ==
    /\ UNCHANGED frame_mutex
    /\ latest_frame' = [tips |-> tips, button |-> button]
    /\ frame' = [frame EXCEPT ![thread] = [tips |-> tips, button |-> button, seq |-> 0]]
    /\ Goto(thread, "number")

Build(thread, tips, button) ==
    /\ frame_mutex = "free"
    /\ frame_mutex' = thread
    /\ latest_frame' = [tips |-> tips, button |-> button]
    /\ frame' = [frame EXCEPT ![thread] = [tips |-> tips, button |-> button, seq |-> 0]]
    /\ Goto(thread, "number")

\* frame_mutex taken; pressure, flags and contacts copied; latest_frame stored.
BuildContactFrame ==
    LET pressure == Pressure(touch)
    IN  /\ pc["contact"] = "lock"
        /\ pressure_button_down' = pressure.down
        /\ pressure_press_frames' = pressure.frames
        /\ Build("contact", touch.tips, pressure.down \/ physical_button_down)
        /\ touch' = NoTouch
        /\ UNCHANGED <<running, connected, reconnect_requested, sequence,
                       physical_button_down, queue, message, peerVars, history>>

-----------------------------------------------------------------------------
(* The button callback.                                                    *)

\* The framework reports a press, a release or neither: the button's state is
\* stored before connected is read.
ButtonEvent ==
    /\ Clicking
    /\ Streaming
    /\ pc["button"] = "idle"
    /\ physical_button_down' \in BOOLEAN
    /\ Goto("button", "check")
    /\ UNCHANGED <<running, connected, reconnect_requested, sequence,
                   pressure_button_down, pressure_press_frames,
                   latest_frame, frame_mutex, queue, frame, message,
                   peerVars, touch, history>>

ButtonChecks ==
    /\ pc["button"] = "check"
    /\ Goto("button", IF connected THEN "lock" ELSE "idle")
    /\ UNCHANGED <<agentVars, frame, message, peerVars, touch, history>>

\* Mutant: the latest frame is repeated with the button it had.
BuildButtonFrame_OldButton ==
    /\ pc["button"] = "lock"
    /\ Build("button", latest_frame.tips, latest_frame.button)
    /\ UNCHANGED <<running, connected, reconnect_requested, sequence, buttonVars,
                   queue, message, peerVars, touch, history>>

\* The latest complete frame, sent again with the button's new state.
BuildButtonFrame ==
    /\ pc["button"] = "lock"
    /\ Build("button", latest_frame.tips, effective_button_down)
    /\ UNCHANGED <<running, connected, reconnect_requested, sequence,
                   buttonVars, queue, message, peerVars, touch, history>>

-----------------------------------------------------------------------------
(* enqueue_frame_locked, in either callback.                               *)

NextSequence ==
    /\ sequence < MaxSequence
    /\ sequence' = sequence + 1

Number(c) ==
    /\ pc[c] = "number"
    /\ NextSequence
    /\ frame' = [frame EXCEPT ![c].seq = sequence']
    /\ Goto(c, "push")
    /\ UNCHANGED <<running, connected, reconnect_requested, buttonVars,
                   latest_frame, frame_mutex, queue, message, peerVars,
                   touch, history>>

\* Mutant: one message too many.
Full_OneLate == Len(queue) > QueueCapacity

Full == Len(queue) = QueueCapacity

Push(c) ==
    /\ pc[c] = "push"
    /\ ~Full
    /\ queue' = Append(queue, frame[c])
    /\ frame' = [frame EXCEPT ![c] = NoMessage]
    /\ frame_mutex' = "free"
    /\ Goto(c, "idle")
    /\ UNCHANGED <<running, connected, reconnect_requested, sequence,
                   buttonVars, latest_frame, message, peerVars, touch,
                   history>>

PushRefused(c) ==
    /\ pc[c] = "push"
    /\ Full
    /\ Goto(c, "overflow")
    /\ UNCHANGED <<agentVars, frame, message, peerVars, touch, history>>

\* connected = false is stored first, reconnect_requested = true second: the
\* first is a release store, which lets the second be seen before it.
StoreDisconnected(c) ==
    /\ \/ pc[c] = "overflow" /\ Goto(c, "disconnected")
       \/ pc[c] = "requested" /\ Goto(c, "clear")
    /\ connected' = FALSE
    /\ UNCHANGED <<running, reconnect_requested, sequence, buttonVars,
                   latest_frame, frame_mutex, queue, frame, message,
                   peerVars, touch, history>>

\* Mutant: the frame is dropped and no reconnect is asked for.
StoreReconnect_Never(c) ==
    /\ \/ pc[c] = "disconnected" /\ Goto(c, "clear")
       \/ Reordered /\ pc[c] = "overflow" /\ Goto(c, "requested")
    /\ UNCHANGED <<agentVars, frame, message, peerVars, touch, history>>

StoreReconnect(c) ==
    /\ \/ pc[c] = "disconnected" /\ Goto(c, "clear")
       \/ Reordered /\ pc[c] = "overflow" /\ Goto(c, "requested")
    /\ reconnect_requested' = TRUE
    /\ UNCHANGED <<running, connected, sequence, buttonVars, latest_frame,
                   frame_mutex, queue, frame, message, peerVars, touch,
                   history>>

ClearAfterOverflow(c) ==
    /\ pc[c] = "clear"
    /\ queue' = << >>
    /\ frame' = [frame EXCEPT ![c] = NoMessage]
    /\ frame_mutex' = "free"
    /\ Goto(c, "idle")
    /\ UNCHANGED <<running, connected, reconnect_requested, sequence,
                   buttonVars, latest_frame, message, peerVars, touch,
                   history>>

Enqueue(c) ==
    \/ Number(c) \/ Push(c) \/ PushRefused(c)
    \/ StoreDisconnected(c) \/ StoreReconnect(c) \/ ClearAfterOverflow(c)

-----------------------------------------------------------------------------
(* The receiver's end of the connection, as far as the agent can tell:     *)
(* TouchSession takes consecutive numbers only and main() closes after any *)
(* error; a closed connection swallows sends until the answer to one arrives. *)

PeerCloses ==
    /\ peer = "open"
    /\ peer' = "closed"
    /\ windows' = Empty
    /\ stalled' = FALSE
    /\ UNCHANGED <<agentVars, pc, frame, message, last, touch, history>>

\* The other end reads again, if it ever does: nothing makes it.
PeerReads ==
    /\ stalled
    /\ stalled' = FALSE
    /\ UNCHANGED <<agentVars, pc, frame, message, peer, last, windows, touch, history>>

\* TCP delivers in order; the receiver is quick enough to be in the same step,
\* or it is not, and the message may be the one that fills the socket.
Deliver(m) ==
    \/ /\ peer = "open" /\ m.seq = last + 1
       /\ last' = m.seq
       /\ windows' = [tips |-> m.tips, button |-> m.button]
       /\ stalled' \in BOOLEAN
       /\ UNCHANGED peer
    \/ /\ peer = "open" /\ m.seq # last + 1
       /\ peer' = "closed"
       /\ windows' = Empty
       /\ UNCHANGED <<last, stalled>>
    \/ /\ peer = "closed"
       /\ peer' \in {"closed", "dead"}
       /\ UNCHANGED <<last, windows, stalled>>

-----------------------------------------------------------------------------
(* The sender thread.                                                      *)

SenderGoes(from, to) == pc["sender"] = from /\ Goto("sender", to)

\* while (running)
Start ==
    /\ SenderGoes("start", IF running THEN "connect" ELSE "done")
    /\ UNCHANGED <<agentVars, frame, message, peerVars, touch, history>>

ConnectFails ==
    /\ SenderGoes("connect", "start")
    /\ UNCHANGED <<agentVars, frame, message, peerVars, touch, history>>

PastCheck(c) == pc[c] \notin {"idle", "check"}

ConnectSucceeds ==
    /\ SenderGoes("connect", "clear")
    /\ carried' = \E c \in Callbacks : PastCheck(c)
    /\ peer' = "open"
    /\ windows' = Empty
    /\ UNCHANGED <<agentVars, frame, message, last, stalled, touch, force>>

ClearBeforeSession ==
    /\ SenderGoes("clear", "hello")
    /\ queue' = << >>
    /\ UNCHANGED <<running, connected, reconnect_requested, sequence,
                   buttonVars, latest_frame, frame_mutex, frame, message,
                   peerVars, touch, history>>

\* send_control: the next number, given out and sent.  The receiver takes the
\* number of HELLO as it comes and expects RESET to be the next one.
SendControl(from, to) ==
    /\ NextSequence
    /\ \/ /\ peer = "open" /\ (from = "hello" \/ sequence' = last + 1)
          /\ last' = sequence'
          /\ SenderGoes(from, to)
          /\ UNCHANGED <<peer, windows>>
       \/ /\ peer = "open" /\ from # "hello" /\ sequence' # last + 1
          /\ peer' = "closed"
          /\ SenderGoes(from, to)
          /\ UNCHANGED <<last, windows>>
       \/ /\ peer = "closed"
          /\ peer' \in {"closed", "dead"}
          /\ SenderGoes(from, to)
          /\ UNCHANGED <<last, windows>>
       \/ /\ peer = "dead"
          /\ peer' = "none"
          /\ SenderGoes(from, "start")
          /\ UNCHANGED <<last, windows>>
    /\ UNCHANGED <<running, connected, reconnect_requested, buttonVars,
                   latest_frame, frame_mutex, queue, frame, message, stalled, touch,
                   history>>

SendHello == SendControl("hello", "reset")
SendReset == SendControl("reset", "rearm")

Rearm ==
    /\ SenderGoes("rearm", "zero")
    /\ reconnect_requested' = FALSE
    /\ UNCHANGED <<running, connected, sequence, buttonVars, latest_frame,
                   frame_mutex, queue, frame, message, peerVars, touch,
                   history>>

\* Mutant: the latest frame of the last session is kept.
ZeroLatest_Keeps ==
    /\ SenderGoes("zero", "open")
    /\ frame_mutex = "free"
    /\ UNCHANGED <<agentVars, frame, message, peerVars, touch, history>>

ZeroLatest ==
    /\ SenderGoes("zero", "open")
    /\ frame_mutex = "free"
    /\ latest_frame' = Empty
    /\ UNCHANGED <<running, connected, reconnect_requested, sequence,
                   buttonVars, frame_mutex, queue, frame, message, peerVars,
                   touch, history>>

Open ==
    /\ SenderGoes("open", "loop")
    /\ connected' = TRUE
    /\ UNCHANGED <<running, reconnect_requested, sequence, buttonVars,
                   latest_frame, frame_mutex, queue, frame, message,
                   peerVars, touch, history>>

LoopChecks ==
    /\ SenderGoes("loop", IF running /\ ~reconnect_requested THEN "pop" ELSE "shut")
    /\ UNCHANGED <<agentVars, frame, message, peerVars, touch, history>>

\* queue_pop waits while there is nothing to send and nothing to notice.
Pop ==
    /\ queue # << >>
    /\ SenderGoes("pop", "send")
    /\ message' = Head(queue)
    /\ queue' = Tail(queue)
    /\ UNCHANGED <<running, connected, reconnect_requested, sequence,
                   buttonVars, latest_frame, frame_mutex, frame, peerVars,
                   touch, history>>

\* Mutants: queue_pop wakes up for one of the two reasons only.
PopNothing_IgnoresReconnect ==
    /\ queue = << >>
    /\ ~running
    /\ SenderGoes("pop", "shut")
    /\ UNCHANGED <<agentVars, frame, message, peerVars, touch, history>>

PopNothing_IgnoresStop ==
    /\ queue = << >>
    /\ reconnect_requested
    /\ SenderGoes("pop", "shut")
    /\ UNCHANGED <<agentVars, frame, message, peerVars, touch, history>>

PopNothing ==
    /\ queue = << >>
    /\ ~running \/ reconnect_requested
    /\ SenderGoes("pop", "shut")
    /\ UNCHANGED <<agentVars, frame, message, peerVars, touch, history>>

\* send() has no time limit: it waits as long as the socket is full.
Send ==
    /\ ~stalled
    /\ SenderGoes("send", IF peer = "dead" THEN "shut" ELSE "loop")
    /\ IF peer = "dead" THEN UNCHANGED peerVars ELSE Deliver(message)
    /\ message' = NoMessage
    /\ UNCHANGED <<agentVars, frame, touch, history>>

Shut ==
    /\ SenderGoes("shut", "drain")
    /\ connected' = FALSE
    /\ UNCHANGED <<running, reconnect_requested, sequence, buttonVars,
                   latest_frame, frame_mutex, queue, frame, message,
                   peerVars, touch, history>>

\* The queue is cleared and the socket closed: the receiver releases everything.
Drain ==
    /\ SenderGoes("drain", "start")
    /\ queue' = << >>
    /\ peer' = "none"
    /\ windows' = Empty
    /\ stalled' = FALSE
    /\ UNCHANGED <<running, connected, reconnect_requested, sequence,
                   buttonVars, latest_frame, frame_mutex, frame, message,
                   last, touch, history>>

Sender ==
    \/ Start \/ ConnectFails \/ ConnectSucceeds \/ ClearBeforeSession
    \/ SendHello \/ SendReset \/ Rearm \/ ZeroLatest \/ Open
    \/ LoopChecks \/ Pop \/ PopNothing \/ Send \/ Shut \/ Drain

\* SIGINT, SIGTERM or the end of --duration.
stop_agent ==
    /\ Signals
    /\ running
    /\ running' = FALSE
    /\ UNCHANGED <<connected, reconnect_requested, sequence, buttonVars,
                   latest_frame, frame_mutex, queue, pc, frame, message,
                   peerVars, touch, history>>

-----------------------------------------------------------------------------
(* main(), which has created the sender thread before anything else.  A    *)
(* callback that is running when it returns may still finish.              *)

MainGoes(from, to) == pc["main"] = from /\ Goto("main", to)

\* Mutant: the sender thread is joined without having been told to stop.
StartFails_NoStop ==
    /\ MainGoes("starting", "aborting")
    /\ UNCHANGED <<agentVars, frame, message, peerVars, touch, history>>

\* The framework or one of its symbols is missing, or no device is built in.
StartFails ==
    /\ MainGoes("starting", "aborting")
    /\ running' = FALSE
    /\ UNCHANGED <<connected, reconnect_requested, sequence, buttonVars,
                   latest_frame, frame_mutex, queue, frame, message,
                   peerVars, touch, history>>

\* The callbacks are registered and the trackpad is started.
DeviceStarted ==
    /\ MainGoes("starting", "streaming")
    /\ UNCHANGED <<agentVars, frame, message, peerVars, touch, history>>

\* main() waits for running to become false, then for the sender to end.
Joined ==
    /\ ~running /\ pc["sender"] = "done"
    /\ \E from \in {"aborting", "streaming"} : MainGoes(from, "exited")
    /\ UNCHANGED <<agentVars, frame, message, peerVars, touch, history>>

Main == StartFails \/ DeviceStarted \/ Joined

-----------------------------------------------------------------------------
\* What a callback does once the framework has called it.
Callback ==
    \/ BuildContactFrame
    \/ ButtonChecks
    \/ BuildButtonFrame
    \/ \E c \in Callbacks : Enqueue(c)

Next ==
    \/ \E t \in Touches : ContactFrame(t)
    \/ ButtonEvent
    \/ Callback
    \/ Sender
    \/ Main
    \/ PeerCloses \/ PeerReads
    \/ stop_agent

Spec == Init /\ [][Next]_vars

\* All threads keep running, connect returns (the system gives up after a while),
\* send returns unless the socket is full, and a waiting callback gets
\* frame_mutex.  Nothing is assumed of the fingers, the receiver, which may never
\* read again, and the signals.
Fairness ==
    /\ WF_vars(Sender) /\ WF_vars(Main)
    /\ \A c \in Callbacks : WF_vars(Enqueue(c))
    /\ SF_vars(BuildContactFrame) /\ WF_vars(ButtonChecks) /\ SF_vars(BuildButtonFrame)
    /\ SF_vars(ZeroLatest)
FairSpec == Spec /\ Fairness

-----------------------------------------------------------------------------
(* Every variable has its type, and frame_mutex is held by the thread that *)
(* is inside it.                                                           *)
TypeOK ==
    /\ {running, connected, reconnect_requested, physical_button_down,
        pressure_button_down} \subseteq BOOLEAN
    /\ sequence \in 0..MaxSequence
    /\ pressure_press_frames \in 0..PressFrames
    /\ latest_frame \in Frames
    /\ frame_mutex \in Callbacks \cup {"free"}
    /\ queue \in Seq(Numbered) /\ Len(queue) <= QueueCapacity
    /\ \A c \in Callbacks : /\ pc[c] \in InCallback
                            /\ frame[c] \in Numbered
                            /\ frame_mutex = c <=> pc[c] \in Holding
    /\ pc["sender"] \in InSender /\ pc["main"] \in InMain
    /\ touch \in Touches \cup {NoTouch}
    /\ message \in Numbered
    /\ peer \in {"none", "open", "closed", "dead"}
    /\ last \in 0..MaxSequence
    /\ windows \in Frames /\ stalled \in BOOLEAN

(* Frames wait in the order of their numbers, although two threads number  *)
(* and push them and the sender numbers HELLO and RESET at the same time:  *)
(* fetch_add and queue_push are in one critical section (main.c:157-164).  *)
QueueOrdered ==
    /\ \A i, j \in DOMAIN queue : i < j => queue[i].seq < queue[j].seq
    /\ \A i \in DOMAIN queue : \A c \in Callbacks :
          pc[c] = "push" => queue[i].seq < frame[c].seq

(* "Multi-finger contacts must never carry a latched Button 1 merely       *)
(* because one finger crossed the force threshold" (main.c:382-386),       *)
(* neither from the contact callback nor from the button callback, which   *)
(* repeats an older frame with a newer button.                             *)
MultiFingerNotPressed ==
    [][\A c \in Callbacks :
          /\ pc[c] = "lock" /\ pc'[c] = "number"
          /\ frame'[c].tips >= 2 /\ frame'[c].button
          => physical_button_down]_vars

(* A release is never late (docs/MAC_DEVELOPMENT.md:54-57): once no        *)
(* callback is running and nothing is queued, Windows is not told that the *)
(* button is down when it is up.                                           *)
Settled == /\ \A c \in Callbacks : pc[c] = "idle"
           /\ queue = << >> /\ pc["sender"] \in {"loop", "pop"}
           /\ connected /\ peer = "open" /\ ~stalled
NoStuckButton == Settled /\ ~carried /\ windows.button => effective_button_down

(* What Windows sees is a frame of this session: once everything is        *)
(* settled it is the latest one, not one that was overtaken on the way.    *)
WindowsHasLatest ==
    Settled /\ ~carried /\ last = sequence => windows = latest_frame

(* A gap in the numbers is sent only when the sender has been asked to     *)
(* leave the session anyway (main.c:166-175), so that an overflow costs    *)
(* one reconnect and not a stream the receiver keeps refusing.             *)
GapOnlyBeforeReconnect ==
    pc["sender"] = "send" /\ peer = "open" /\ ~carried /\ message.seq # last + 1
        => reconnect_requested

(* The sender never waits for frames that nobody will push: while it is in *)
(* its loop and no callback is running, frames are let in or a reconnect   *)
(* has been asked for.  An overflow that is handled while the sender opens *)
(* the next session must not leave connected false (main.c:171-172, 325,   *)
(* 329).                                                                   *)
SenderNotDeaf ==
    pc["sender"] \in {"loop", "pop"} /\ (\A c \in Callbacks : pc[c] = "idle")
        => connected \/ reconnect_requested \/ ~running

\* The sender waits for room in a socket that nobody empties.
Blocked == pc["sender"] = "send" /\ stalled

(* "If the bounded queue overflows, the agent reconnects"                  *)
(* (docs/MAC_DEVELOPMENT.md:85): a request made during a session ends it,  *)
(* unless send() never returns: the sender blocks in it for as long as a   *)
(* live peer does not read, which may be for ever, and looks at no flag    *)
(* (main.c:252-265, 334-337).  A send that waits for a while is no excuse. *)
OverflowEndsSession ==
    (reconnect_requested /\ pc["sender"] \in {"loop", "pop", "send"})
        ~> (pc["sender"] = "start" \/ sequence = MaxSequence \/ []Blocked)

(* A signal, or a start that fails after the sender has been created, ends *)
(* the agent: main() does not wait for ever in pthread_join (main.c:526,   *)
(* 542, 579, 599), wherever the callbacks and the sender are, with the one *)
(* exception of a sender that is blocked in send() for ever.               *)
StopsInTime ==
    ~running \/ pc["main"] = "aborting"
        ~> (pc["main"] = "exited" \/ sequence = MaxSequence \/ []Blocked)

(* "Three consecutive frames must cross the threshold.  Once pressed,      *)
(* Button 1 stays latched while exactly one tip contact remains"           *)
(* (docs/MAC_DEVELOPMENT.md:62-63): a contact frame carries Button 1 only  *)
(* for the physical button or for a press that goes on.                    *)
PressIsCurrent ==
    [][pc["contact"] = "lock" /\ pc'["contact"] = "number" /\ frame'["contact"].button
          => physical_button_down \/ force.latched]_vars
=============================================================================
