--------------------------- MODULE MacAgentProofs ---------------------------
(***************************************************************************)
(* Proofs about the agent: for any trackpad, any capacity of the queue,    *)
(* any number of frames and any interleaving of the threads, signals       *)
(* included.  The invariant is built up in parts, each of which is         *)
(* inductive together with the ones before it.                             *)
(***************************************************************************)
EXTENDS MacAgent, SequenceTheorems, TLAPS

-----------------------------------------------------------------------------
(* Types.                                                                  *)

Threads == Callbacks \cup {"sender", "main"}
Tips == {t.tips : t \in Touches} \cup {0}

\* Where every thread is.
LabelsInv ==
    /\ pc \in [Threads -> InCallback \cup InSender \cup InMain]
    /\ \A c \in Callbacks : pc[c] \in InCallback
    /\ pc["sender"] \in InSender /\ pc["main"] \in InMain

\* frame_mutex is held by the callback that is inside it.
MutexInv ==
    /\ frame_mutex \in Callbacks \cup {"free"}
    /\ \A c \in Callbacks : frame_mutex = c <=> pc[c] \in Holding

FlagsInv ==
    /\ running \in BOOLEAN /\ connected \in BOOLEAN /\ reconnect_requested \in BOOLEAN
    /\ physical_button_down \in BOOLEAN /\ pressure_button_down \in BOOLEAN

\* A click that is not down has not reached its number of frames.
CountsInv ==
    /\ sequence \in 0..MaxSequence
    /\ last \in 0..MaxSequence
    /\ pressure_press_frames \in 0..PressFrames
    /\ ~pressure_button_down => pressure_press_frames < PressFrames

FramesInv ==
    /\ latest_frame \in Frames
    /\ frame \in [Callbacks -> Numbered]
    /\ message \in Numbered
    /\ windows \in Frames
    /\ touch \in Touches \cup {NoTouch}

QueueInv == queue \in Seq(Numbered) /\ Len(queue) <= QueueCapacity

PeerInv == peer \in {"none", "open", "closed", "dead"} /\ stalled \in BOOLEAN

TypeInv == LabelsInv /\ MutexInv /\ FlagsInv /\ CountsInv /\ FramesInv /\ QueueInv /\ PeerInv

LEMMA TypesAreTypes == TypeInv => TypeOK
  BY DEF TypeInv, LabelsInv, MutexInv, FlagsInv, CountsInv, FramesInv, QueueInv, PeerInv,
         TypeOK

\* A frame that carries what the trackpad can report.
LEMMA NumberedFrames ==
    /\ NoMessage \in Numbered
    /\ Empty \in Frames
    /\ \A t \in Touches \cup {NoTouch} : t.tips \in Tips
    /\ \A f \in Frames : f.tips \in Tips /\ f.button \in BOOLEAN
    /\ \A m \in Numbered : /\ m.tips \in Tips
                           /\ m.button \in BOOLEAN
                           /\ m.seq \in 0..MaxSequence
    /\ \A n \in Tips, b \in BOOLEAN :
          /\ [tips |-> n, button |-> b] \in Frames
          /\ \A s \in 0..MaxSequence :
                [tips |-> n, button |-> b, seq |-> s] \in Numbered
  BY SequenceAssumption DEF NoMessage, Numbered, Empty, Frames, NoTouch, Tips

LEMMA InitTypes == Init => TypeInv
  <1> SUFFICES ASSUME Init PROVE TypeInv
    OBVIOUS
  <1>1. CountsInv
    BY SequenceAssumption, PressAssumption DEF Init, CountsInv
  <1>2. QueueInv
    BY CapacityAssumption, EmptySeq DEF Init, QueueInv
  <1>3. FramesInv
    BY NumberedFrames DEF Init, FramesInv
  <1>4. LabelsInv
    <2>1. pc \in [Threads -> InCallback \cup InSender \cup InMain]
      BY DEF Init, Threads, Callbacks, InCallback, InSender, InMain
    <2> QED
      BY <2>1 DEF Init, LabelsInv, Callbacks, InCallback, InSender, InMain
  <1>5. MutexInv
    BY DEF Init, MutexInv, Callbacks, Holding
  <1> QED
    BY <1>1, <1>2, <1>3, <1>4, <1>5 DEF Init, TypeInv, FlagsInv, PeerInv

-----------------------------------------------------------------------------
(* How threads move.                                                       *)

LEMMA CallbackMoves ==
    ASSUME LabelsInv, NEW c \in Callbacks, NEW l \in InCallback, Goto(c, l)
    PROVE  /\ LabelsInv'
           /\ pc'[c] = l
           /\ \A d \in Callbacks \ {c} : pc'[d] = pc[d]
           /\ pc'["sender"] = pc["sender"] /\ pc'["main"] = pc["main"]
  BY DEF LabelsInv, Goto, Threads, Callbacks

LEMMA SenderMoves ==
    ASSUME LabelsInv, NEW l \in InSender, Goto("sender", l)
    PROVE  /\ LabelsInv'
           /\ pc'["sender"] = l
           /\ \A c \in Callbacks : pc'[c] = pc[c]
           /\ pc'["main"] = pc["main"]
  BY DEF LabelsInv, Goto, Threads, Callbacks

LEMMA MainMoves ==
    ASSUME LabelsInv, NEW l \in InMain, Goto("main", l)
    PROVE  /\ LabelsInv'
           /\ pc'["main"] = l
           /\ \A c \in Callbacks : pc'[c] = pc[c]
           /\ pc'["sender"] = pc["sender"]
  BY DEF LabelsInv, Goto, Threads, Callbacks

-----------------------------------------------------------------------------
(* Every action keeps the types.                                           *)

LEMMA EnqueueTypes ==
    ASSUME TypeInv, NEW c \in Callbacks, Enqueue(c)
    PROVE  TypeInv'
  <1> USE DEF TypeInv
  <1>0. /\ {"push", "overflow", "disconnected", "requested", "clear", "idle"} \subseteq InCallback
        /\ {"push", "overflow", "disconnected", "requested", "clear"} \subseteq Holding
        /\ "idle" \notin Holding
    BY DEF InCallback, Holding
  <1>1. CASE Number(c)
    <2>1. LabelsInv' /\ MutexInv'
      BY <1>0, <1>1, CallbackMoves DEF Number, MutexInv, Holding
    <2>2. sequence' \in 0..MaxSequence /\ CountsInv'
      BY <1>1, SequenceAssumption DEF Number, NextSequence, CountsInv, buttonVars, peerVars
    <2>3. FramesInv'
      BY <1>1, <2>2 DEF Number, FramesInv, Numbered, peerVars
    <2> QED
      BY <1>1, <2>1, <2>2, <2>3 DEF Number, FlagsInv, QueueInv, PeerInv, buttonVars, peerVars
  <1>2. CASE Push(c)
    <2>1. LabelsInv' /\ MutexInv'
      BY <1>0, <1>2, CallbackMoves DEF Push, MutexInv, Callbacks
    <2>2. QueueInv'
      <3>1. frame[c] \in Numbered /\ Len(queue) \in Nat /\ Len(queue) < QueueCapacity
        BY <1>2, CapacityAssumption, LenProperties DEF Push, Full, QueueInv, FramesInv
      <3>2. queue' \in Seq(Numbered) /\ Len(queue') = Len(queue) + 1
        BY <1>2, <3>1, AppendProperties DEF Push, QueueInv
      <3> QED
        BY <3>1, <3>2, CapacityAssumption DEF QueueInv
    <2>3. FramesInv'
      BY <1>2, NumberedFrames DEF Push, FramesInv, peerVars
    <2> QED
      BY <1>2, <2>1, <2>2, <2>3 DEF Push, FlagsInv, CountsInv, PeerInv, buttonVars, peerVars
  <1>3. CASE PushRefused(c)
    <2>1. LabelsInv' /\ MutexInv'
      BY <1>0, <1>3, CallbackMoves DEF PushRefused, MutexInv, Holding, agentVars
    <2> QED
      BY <1>3, <2>1 DEF PushRefused, FlagsInv, CountsInv, FramesInv, QueueInv, PeerInv,
                        agentVars, buttonVars, peerVars
  <1>4. CASE StoreDisconnected(c)
    <2>1. LabelsInv' /\ MutexInv'
      BY <1>0, <1>4, CallbackMoves DEF StoreDisconnected, MutexInv, Holding
    <2> QED
      BY <1>4, <2>1 DEF StoreDisconnected, FlagsInv, CountsInv, FramesInv, QueueInv, PeerInv,
                        buttonVars, peerVars
  <1>5. CASE StoreReconnect(c)
    <2>1. LabelsInv' /\ MutexInv'
      BY <1>0, <1>5, CallbackMoves DEF StoreReconnect, MutexInv, Holding
    <2> QED
      BY <1>5, <2>1 DEF StoreReconnect, FlagsInv, CountsInv, FramesInv, QueueInv, PeerInv,
                        buttonVars, peerVars
  <1>6. CASE ClearAfterOverflow(c)
    <2>1. LabelsInv' /\ MutexInv'
      BY <1>0, <1>6, CallbackMoves DEF ClearAfterOverflow, MutexInv, Callbacks
    <2>2. QueueInv'
      BY <1>6, CapacityAssumption, EmptySeq DEF ClearAfterOverflow, QueueInv
    <2>3. FramesInv'
      BY <1>6, NumberedFrames DEF ClearAfterOverflow, FramesInv, peerVars
    <2> QED
      BY <1>6, <2>1, <2>2, <2>3
         DEF ClearAfterOverflow, FlagsInv, CountsInv, PeerInv, buttonVars, peerVars
  <1> QED
    BY <1>1, <1>2, <1>3, <1>4, <1>5, <1>6 DEF Enqueue

\* What either callback builds under frame_mutex.
LEMMA BuildTypes ==
    ASSUME TypeInv, NEW c \in Callbacks, NEW n \in Tips, NEW b \in BOOLEAN,
           pc[c] = "lock", Build(c, n, b), UNCHANGED <<message, windows>>,
           touch' \in Touches \cup {NoTouch}
    PROVE  LabelsInv' /\ MutexInv' /\ FramesInv'
  <1>1. "number" \in InCallback /\ "number" \in Holding /\ "lock" \notin Holding
    BY DEF InCallback, Holding
  <1>2. LabelsInv' /\ MutexInv'
    BY <1>1, CallbackMoves DEF TypeInv, Build, MutexInv, Callbacks
  <1>3. FramesInv'
    BY NumberedFrames, SequenceAssumption DEF TypeInv, Build, FramesInv
  <1> QED
    BY <1>2, <1>3

LEMMA CallbackTypes ==
    ASSUME TypeInv, Callback
    PROVE  TypeInv'
  <1> USE DEF TypeInv
  <1>1. CASE BuildContactFrame
    <2> DEFINE p == Pressure(touch)
    <2>1. /\ p.down \in BOOLEAN
          /\ p.frames \in 0..PressFrames
          /\ ~p.down => p.frames < PressFrames
      <3>1. /\ PressFrames \in Nat /\ PressFrames > 0
            /\ pressure_press_frames \in 0..PressFrames
            /\ ~pressure_button_down => pressure_press_frames < PressFrames
        BY PressAssumption DEF CountsInv
      <3> HIDE DEF TypeInv
      <3>2. CASE touch.tips # 1
        BY <3>1, <3>2 DEF Pressure
      <3>3. CASE touch.tips = 1 /\ pressure_button_down
        BY <3>1, <3>3 DEF Pressure
      <3>4. CASE touch.tips = 1 /\ ~pressure_button_down /\ ~touch.hard
        BY <3>1, <3>4 DEF Pressure
      <3>5. CASE touch.tips = 1 /\ ~pressure_button_down /\ touch.hard
        <4> DEFINE reached == pressure_press_frames + 1 >= PressFrames
        <4>1. p = [down |-> reached, frames |-> pressure_press_frames + 1]
          BY <3>5 DEF Pressure
        <4>2. reached \in BOOLEAN
          OBVIOUS
        <4>3. ~reached => pressure_press_frames + 1 < PressFrames
          BY <3>1
        <4>4. pressure_press_frames + 1 \in 0..PressFrames
          BY <3>1, <3>5
        <4> HIDE DEF p, reached
        <4>5. p.down = reached /\ p.frames = pressure_press_frames + 1
          BY <4>1
        <4> QED
          BY <4>2, <4>3, <4>4, <4>5
      <3> QED
        BY <3>2, <3>3, <3>4, <3>5
    <2>2. CountsInv' /\ FlagsInv'
      BY <1>1, <2>1 DEF BuildContactFrame, Build, CountsInv, FlagsInv, peerVars
    <2>3. /\ touch.tips \in Tips
          /\ (p.down \/ physical_button_down) \in BOOLEAN
      BY <2>1, NumberedFrames DEF FramesInv, FlagsInv
    <2>4. LabelsInv' /\ MutexInv' /\ FramesInv'
      BY <1>1, <2>3, BuildTypes DEF BuildContactFrame, Callbacks, peerVars
    <2> QED
      BY <1>1, <2>2, <2>4 DEF BuildContactFrame, QueueInv, PeerInv, peerVars
  <1>2. CASE ButtonChecks
    <2>1. LabelsInv' /\ MutexInv'
      <3>1. PICK l \in {"lock", "idle"} : Goto("button", l)
        BY <1>2 DEF ButtonChecks
      <3>2. l \in InCallback /\ l \notin Holding /\ pc["button"] \notin Holding
        BY <1>2 DEF ButtonChecks, InCallback, Holding
      <3> QED
        BY <1>2, <3>1, <3>2, CallbackMoves DEF ButtonChecks, MutexInv, Callbacks, agentVars
    <2> QED
      BY <1>2, <2>1 DEF ButtonChecks, FlagsInv, CountsInv, FramesInv, QueueInv, PeerInv,
                        agentVars, buttonVars, peerVars
  <1>3. CASE BuildButtonFrame
    <2>1. latest_frame.tips \in Tips /\ effective_button_down \in BOOLEAN
      BY NumberedFrames DEF FramesInv, FlagsInv, effective_button_down
    <2>2. LabelsInv' /\ MutexInv' /\ FramesInv'
      BY <1>3, <2>1, BuildTypes DEF BuildButtonFrame, Callbacks, FramesInv, peerVars
    <2> QED
      BY <1>3, <2>2 DEF BuildButtonFrame, FlagsInv, CountsInv, QueueInv, PeerInv,
                        buttonVars, peerVars
  <1>4. CASE \E c \in Callbacks : Enqueue(c)
    BY <1>4, EnqueueTypes
  <1> QED
    BY <1>1, <1>2, <1>3, <1>4 DEF Callback

\* The framework calls a callback.
LEMMA EventTypes ==
    ASSUME TypeInv, (\E t \in Touches : ContactFrame(t)) \/ ButtonEvent
    PROVE  TypeInv'
  <1> USE DEF TypeInv
  <1>1. ASSUME NEW t \in Touches, ContactFrame(t)
        PROVE  TypeInv'
    <2>1. CASE connected /\ t.fits
      <3>1. /\ "lock" \in InCallback /\ "lock" \notin Holding
            /\ pc["contact"] \notin Holding
        BY <1>1 DEF ContactFrame, InCallback, Holding
      <3>2. LabelsInv' /\ MutexInv'
        BY <1>1, <2>1, <3>1, CallbackMoves DEF ContactFrame, MutexInv, Callbacks, agentVars
      <3> QED
        BY <1>1, <2>1, <3>2 DEF ContactFrame, FlagsInv, CountsInv, FramesInv, QueueInv,
                                PeerInv, agentVars, buttonVars, peerVars
    <2>2. CASE ~(connected /\ t.fits)
      BY <1>1, <2>2 DEF ContactFrame, LabelsInv, MutexInv, FlagsInv, CountsInv, FramesInv,
                        QueueInv, PeerInv, agentVars, buttonVars, peerVars
    <2> QED
      BY <2>1, <2>2
  <1>2. CASE ButtonEvent
    <2>1. /\ "check" \in InCallback /\ "check" \notin Holding
          /\ pc["button"] \notin Holding
      BY <1>2 DEF ButtonEvent, InCallback, Holding
    <2>2. LabelsInv' /\ MutexInv'
      BY <1>2, <2>1, CallbackMoves DEF ButtonEvent, MutexInv, Callbacks
    <2> QED
      BY <1>2, <2>2 DEF ButtonEvent, FlagsInv, CountsInv, FramesInv, QueueInv, PeerInv,
                        buttonVars, peerVars
  <1> QED
    BY <1>1, <1>2

LEMMA DeliverTypes ==
    ASSUME NEW m \in Numbered, Deliver(m), PeerInv, last \in 0..MaxSequence,
           windows \in Frames
    PROVE  PeerInv' /\ last' \in 0..MaxSequence /\ windows' \in Frames
  BY NumberedFrames DEF Deliver, PeerInv

LEMMA ControlTypes ==
    ASSUME TypeInv, NEW from \in InSender, NEW to \in InSender, SendControl(from, to)
    PROVE  TypeInv'
  <1> USE DEF TypeInv
  <1>1. PICK l \in InSender : Goto("sender", l)
    BY DEF SendControl, SenderGoes, InSender
  <1>2. LabelsInv' /\ MutexInv'
    BY <1>1, SenderMoves DEF SendControl, MutexInv
  <1>3. sequence' \in 0..MaxSequence
    BY SequenceAssumption DEF SendControl, NextSequence, CountsInv
  <1>4. last' \in 0..MaxSequence /\ PeerInv' /\ windows' = windows
    BY <1>3 DEF SendControl, CountsInv, PeerInv
  <1> QED
    BY <1>2, <1>3, <1>4
       DEF SendControl, FlagsInv, CountsInv, FramesInv, QueueInv, buttonVars

LEMMA SenderTypes ==
    ASSUME TypeInv, Sender
    PROVE  TypeInv'
  <1> USE DEF TypeInv
  <1>1. /\ {"start", "connect", "clear", "hello", "reset", "rearm", "zero", "open", "loop",
            "pop", "send", "shut", "drain", "done"} \subseteq InSender
    BY DEF InSender
  <1>2. ASSUME SendHello \/ SendReset PROVE TypeInv'
    BY <1>1, <1>2, ControlTypes DEF SendHello, SendReset
  <1>3. ASSUME ~SendHello, ~SendReset PROVE TypeInv'
    <2>1. PICK l \in InSender : Goto("sender", l)
      BY <1>1, <1>3 DEF Sender, SenderGoes, Start, ConnectFails, ConnectSucceeds,
            ClearBeforeSession, Rearm, ZeroLatest, Open, LoopChecks, Pop, PopNothing, Send,
            Shut, Drain
    <2>2. frame_mutex' = frame_mutex
      BY <1>3 DEF Sender, SenderGoes, Start, ConnectFails, ConnectSucceeds,
            ClearBeforeSession, Rearm, ZeroLatest, Open, LoopChecks, Pop, PopNothing, Send,
            Shut, Drain, agentVars
    <2>3. LabelsInv' /\ MutexInv'
      BY <2>1, <2>2, SenderMoves DEF MutexInv
    <2>4. FlagsInv'
      BY <1>3 DEF Sender, Start, ConnectFails, ConnectSucceeds,
            ClearBeforeSession, Rearm, ZeroLatest, Open, LoopChecks, Pop, PopNothing, Send,
            Shut, Drain, agentVars, buttonVars, FlagsInv
    <2>5. CASE Pop
      <3>1. queue \in Seq(Numbered) /\ queue # << >>
        BY <2>5 DEF Pop, QueueInv
      <3>2. /\ Head(queue) \in Numbered
            /\ Tail(queue) \in Seq(Numbered)
            /\ Len(Tail(queue)) = Len(queue) - 1
        BY <3>1, HeadTailProperties
      <3>3. QueueInv'
        BY <2>5, <3>1, <3>2, CapacityAssumption, LenProperties DEF Pop, QueueInv
      <3>4. FramesInv' /\ CountsInv' /\ PeerInv'
        BY <2>5, <3>2 DEF Pop, FramesInv, CountsInv, PeerInv, buttonVars, peerVars
      <3> QED
        BY <2>3, <2>4, <3>3, <3>4
    <2>6. CASE Send
      <3>1. message \in Numbered /\ last \in 0..MaxSequence /\ windows \in Frames
        BY DEF FramesInv, CountsInv
      <3>2. PeerInv' /\ last' \in 0..MaxSequence /\ windows' \in Frames
        BY <2>6, <3>1, DeliverTypes DEF Send, peerVars, PeerInv
      <3> QED
        BY <2>3, <2>4, <2>6, <3>2, NumberedFrames
           DEF Send, FramesInv, CountsInv, QueueInv, agentVars, buttonVars
    <2>7. CASE ConnectSucceeds \/ Drain \/ ClearBeforeSession \/ ZeroLatest
      <3>1. QueueInv'
        <4>1. queue' = queue \/ queue' = << >>
          BY <2>7 DEF ConnectSucceeds, Drain, ClearBeforeSession, ZeroLatest, agentVars
        <4>2. << >> \in Seq(Numbered) /\ Len(<< >>) = 0 /\ 0 <= QueueCapacity
          BY CapacityAssumption, EmptySeq
        <4> QED
          BY <4>1, <4>2 DEF QueueInv
      <3>2. FramesInv' /\ CountsInv' /\ PeerInv'
        BY <2>7, NumberedFrames DEF ConnectSucceeds, Drain, ClearBeforeSession, ZeroLatest,
              FramesInv, CountsInv, PeerInv, agentVars, buttonVars, peerVars
      <3> QED
        BY <2>3, <2>4, <3>1, <3>2
    <2>8. CASE Start \/ ConnectFails \/ Rearm \/ Open \/ LoopChecks \/ PopNothing \/ Shut
      <3>1. UNCHANGED <<sequence, buttonVars, latest_frame, queue, frame, message, peerVars,
                        touch>>
        BY <2>8 DEF Start, ConnectFails, Rearm, Open, LoopChecks, PopNothing, Shut,
                    agentVars
      <3> QED
        BY <2>3, <2>4, <3>1
           DEF FramesInv, CountsInv, PeerInv, QueueInv, buttonVars, peerVars
    <2> QED
      BY <1>3, <2>5, <2>6, <2>7, <2>8 DEF Sender
  <1> QED
    BY <1>2, <1>3

LEMMA OtherTypes ==
    ASSUME TypeInv, Main \/ PeerCloses \/ PeerReads \/ stop_agent
    PROVE  TypeInv'
  <1> USE DEF TypeInv
  <1>1. CASE Main
    <2>1. {"starting", "aborting", "streaming", "exited"} \subseteq InMain
      BY DEF InMain
    <2>2. PICK l \in InMain : Goto("main", l)
      BY <1>1, <2>1 DEF Main, StartFails, DeviceStarted, Joined, MainGoes
    <2>3. /\ FlagsInv'
          /\ UNCHANGED <<sequence, buttonVars, latest_frame, frame_mutex, queue, frame,
                         message, peerVars, touch>>
      BY <1>1 DEF Main, StartFails, DeviceStarted, Joined, agentVars, buttonVars, FlagsInv
    <2>4. LabelsInv' /\ MutexInv'
      BY <2>2, <2>3, MainMoves DEF MutexInv
    <2> QED
      BY <2>3, <2>4 DEF FramesInv, CountsInv, PeerInv, QueueInv, buttonVars, peerVars
  <1>2. CASE PeerCloses
    BY <1>2, NumberedFrames DEF PeerCloses, LabelsInv, MutexInv, FlagsInv, CountsInv,
          FramesInv, QueueInv, PeerInv, agentVars, buttonVars
  <1>3. CASE PeerReads
    BY <1>3 DEF PeerReads, LabelsInv, MutexInv, FlagsInv, CountsInv,
          FramesInv, QueueInv, PeerInv, agentVars, buttonVars
  <1>4. CASE stop_agent
    BY <1>4 DEF stop_agent, LabelsInv, MutexInv, FlagsInv, CountsInv,
          FramesInv, QueueInv, PeerInv, buttonVars, peerVars
  <1> QED
    BY <1>1, <1>2, <1>3, <1>4

LEMMA StutterTypes ==
    ASSUME TypeInv, UNCHANGED vars
    PROVE  TypeInv'
  BY DEF vars, agentVars, buttonVars, peerVars, history, TypeInv, LabelsInv, MutexInv,
         FlagsInv, CountsInv, FramesInv, QueueInv, PeerInv

LEMMA NextTypes ==
    ASSUME TypeInv, [Next]_vars
    PROVE  TypeInv'
  BY EventTypes, CallbackTypes, SenderTypes, OtherTypes, StutterTypes DEF Next

(* Every variable of the agent keeps its type, and frame_mutex is held by  *)
(* the thread that is inside its critical section, in every interleaving   *)
(* of the four threads (main.c:32, 148-176, 318-326).                      *)
THEOREM TypeCorrect == Spec => []TypeOK
  <1>1. Init => TypeInv
    BY InitTypes
  <1>2. TypeInv /\ [Next]_vars => TypeInv'
    BY NextTypes
  <1>3. TypeInv => TypeOK
    BY TypesAreTypes
  <1> QED
    BY <1>1, <1>2, <1>3, PTL DEF Spec
-----------------------------------------------------------------------------
(* The step each thread makes: every later proof is about these facts.     *)

\* A callback inside enqueue_frame_locked is alone there.
LEMMA EnqueueSteps ==
    ASSUME TypeInv, NEW c \in Callbacks, Enqueue(c)
    PROVE  /\ pc[c] \in Holding
           /\ \A d \in Callbacks \ {c} : pc[d] \notin Holding /\ pc'[d] = pc[d]
           /\ pc'["sender"] = pc["sender"]
           /\ Number(c) => pc[c] = "number" /\ pc'[c] = "push"
           /\ Push(c) => pc[c] = "push" /\ pc'[c] = "idle"
           /\ PushRefused(c) => pc[c] = "push" /\ pc'[c] = "overflow"
           /\ StoreDisconnected(c) =>
                 <<pc[c], pc'[c]>> \in {<<"overflow", "disconnected">>, <<"requested", "clear">>}
           /\ StoreReconnect(c) =>
                 <<pc[c], pc'[c]>> \in {<<"disconnected", "clear">>, <<"overflow", "requested">>}
           /\ ClearAfterOverflow(c) => pc[c] = "clear" /\ pc'[c] = "idle"
  <1> USE DEF TypeInv
  <1>1. {"push", "overflow", "disconnected", "requested", "clear", "idle"} \subseteq InCallback
    BY DEF InCallback
  <1>2. pc[c] \in Holding
    BY DEF Enqueue, Number, Push, PushRefused, StoreDisconnected, StoreReconnect,
           ClearAfterOverflow, Holding
  <1>3. \A d \in Callbacks \ {c} : pc[d] \notin Holding
    BY <1>2 DEF MutexInv
  <1>4. PICK l \in InCallback : Goto(c, l)
    BY <1>1 DEF Enqueue, Number, Push, PushRefused, StoreDisconnected, StoreReconnect,
                ClearAfterOverflow
  <1>5. /\ \A d \in Callbacks \ {c} : pc'[d] = pc[d]
        /\ pc'["sender"] = pc["sender"]
    BY <1>4, CallbackMoves
  <1> QED
    BY <1>1, <1>2, <1>3, <1>5, CallbackMoves
       DEF Number, Push, PushRefused, StoreDisconnected, StoreReconnect, ClearAfterOverflow

LEMMA BuildSteps ==
    ASSUME TypeInv, NEW c \in Callbacks, NEW n, NEW b, pc[c] = "lock", Build(c, n, b)
    PROVE  /\ pc'[c] = "number"
           /\ \A d \in Callbacks : pc[d] \notin Holding
           /\ \A d \in Callbacks \ {c} : pc'[d] = pc[d] /\ frame'[d] = frame[d]
           /\ frame'[c] = [tips |-> n, button |-> b, seq |-> 0]
           /\ pc'["sender"] = pc["sender"]
  <1>1. "number" \in InCallback
    BY DEF InCallback
  <1>2. /\ pc'[c] = "number"
        /\ \A d \in Callbacks \ {c} : pc'[d] = pc[d]
        /\ pc'["sender"] = pc["sender"]
    BY <1>1, CallbackMoves DEF Build, TypeInv
  <1>3. \A d \in Callbacks : pc[d] \notin Holding
    BY DEF TypeInv, MutexInv, Build, Callbacks
  <1>4. /\ \A d \in Callbacks \ {c} : frame'[d] = frame[d]
        /\ frame'[c] = [tips |-> n, button |-> b, seq |-> 0]
    BY DEF Build, TypeInv, FramesInv
  <1> QED
    BY <1>2, <1>3, <1>4

\* A callback on its way to frame_mutex.
LEMMA CallSteps ==
    ASSUME TypeInv, (\E t \in Touches : ContactFrame(t)) \/ ButtonEvent \/ ButtonChecks
    PROVE  /\ pc'["sender"] = pc["sender"]
           /\ \A d \in Callbacks : \/ pc'[d] = pc[d]
                                   \/ pc[d] = "idle" /\ pc'[d] = "check"
                                   \/ pc[d] \in {"idle", "check"} /\ connected /\ pc'[d] = "lock"
                                   \/ pc[d] = "check" /\ pc'[d] = "idle"
           /\ UNCHANGED <<running, connected, reconnect_requested, sequence,
                          pressure_button_down, pressure_press_frames, latest_frame,
                          frame_mutex, queue, frame, message, peerVars, carried>>
  <1>1. {"lock", "idle", "check"} \subseteq InCallback
    BY DEF InCallback
  <1>2. ASSUME NEW t \in Touches, ContactFrame(t)
        PROVE  /\ pc'["sender"] = pc["sender"]
               /\ pc'["button"] = pc["button"]
               /\ \/ pc'["contact"] = pc["contact"]
                  \/ pc["contact"] = "idle" /\ connected /\ pc'["contact"] = "lock"
    BY <1>1, <1>2, CallbackMoves DEF ContactFrame, TypeInv, Callbacks
  <1>3. ASSUME ButtonEvent
        PROVE  /\ pc'["sender"] = pc["sender"]
               /\ pc'["contact"] = pc["contact"]
               /\ pc["button"] = "idle" /\ pc'["button"] = "check"
    BY <1>1, <1>3, CallbackMoves DEF ButtonEvent, TypeInv, Callbacks
  <1>4. ASSUME ButtonChecks
        PROVE  /\ pc'["sender"] = pc["sender"]
               /\ pc'["contact"] = pc["contact"]
               /\ pc["button"] = "check"
               /\ pc'["button"] = IF connected THEN "lock" ELSE "idle"
    BY <1>1, <1>4, CallbackMoves DEF ButtonChecks, TypeInv, Callbacks
  <1>5. UNCHANGED <<running, connected, reconnect_requested, sequence,
                    pressure_button_down, pressure_press_frames, latest_frame,
                    frame_mutex, queue, frame, message, peerVars, carried>>
    BY DEF ContactFrame, ButtonEvent, ButtonChecks, agentVars, buttonVars, history
  <1>6. /\ pc'["sender"] = pc["sender"]
        /\ \A d \in Callbacks : \/ pc'[d] = pc[d]
                                \/ pc[d] = "idle" /\ pc'[d] = "check"
                                \/ pc[d] \in {"idle", "check"} /\ connected /\ pc'[d] = "lock"
                                \/ pc[d] = "check" /\ pc'[d] = "idle"
    BY <1>2, <1>3, <1>4 DEF Callbacks
  <1> QED
    BY <1>5, <1>6

\* The sender moves itself alone.
LEMMA SenderSteps ==
    ASSUME TypeInv, NEW from \in InSender, NEW to \in InSender, SenderGoes(from, to)
    PROVE  /\ pc["sender"] = from /\ pc'["sender"] = to
           /\ \A c \in Callbacks : pc'[c] = pc[c]
  BY SenderMoves DEF SenderGoes, TypeInv

LEMMA SenderFrame ==
    ASSUME TypeInv, Sender
    PROVE  /\ \A c \in Callbacks : pc'[c] = pc[c]
           /\ UNCHANGED <<frame, running, frame_mutex, touch, force, buttonVars>>
  <1>1. {"start", "connect", "clear", "hello", "reset", "rearm", "zero", "open", "loop",
         "pop", "send", "shut", "drain", "done"} \subseteq InSender
    BY DEF InSender
  <1>2. \E from, to \in InSender : SenderGoes(from, to)
    BY <1>1 DEF Sender, Start, ConnectFails, ConnectSucceeds, ClearBeforeSession, SendHello,
          SendReset, SendControl, Rearm, ZeroLatest, Open, LoopChecks, Pop, PopNothing, Send,
          Shut, Drain
  <1>3. UNCHANGED <<frame, running, frame_mutex, touch, force, buttonVars>>
    BY DEF Sender, Start, ConnectFails, ConnectSucceeds, ClearBeforeSession, SendHello,
          SendReset, SendControl, Rearm, ZeroLatest, Open, LoopChecks, Pop, PopNothing, Send,
          Shut, Drain, agentVars, history
  <1> QED
    BY <1>2, <1>3, SenderSteps

LEMMA OtherSteps ==
    ASSUME TypeInv, Main \/ PeerCloses \/ PeerReads \/ stop_agent \/ UNCHANGED vars
    PROVE  /\ \A c \in Callbacks : pc'[c] = pc[c]
           /\ pc'["sender"] = pc["sender"]
           /\ UNCHANGED <<connected, reconnect_requested, sequence, buttonVars,
                          latest_frame, frame_mutex, queue, frame, message, last, touch,
                          history>>
           /\ UNCHANGED <<peer, windows>> \/ (peer = "open" /\ peer' = "closed")
  <1>1. {"starting", "aborting", "streaming", "exited"} \subseteq InMain
    BY DEF InMain
  <1>2. ASSUME Main
        PROVE  /\ \A c \in Callbacks : pc'[c] = pc[c]
               /\ pc'["sender"] = pc["sender"]
    BY <1>1, <1>2, MainMoves DEF Main, StartFails, DeviceStarted, Joined, MainGoes, TypeInv
  <1>3. ASSUME PeerCloses \/ PeerReads \/ stop_agent \/ UNCHANGED vars
        PROVE  pc' = pc
    BY <1>3 DEF PeerCloses, PeerReads, stop_agent, vars
  <1>4. UNCHANGED <<connected, reconnect_requested, sequence, buttonVars,
                    latest_frame, frame_mutex, queue, frame, message, last, touch, history>>
    BY DEF Main, StartFails, DeviceStarted, Joined, PeerCloses, PeerReads, stop_agent, vars,
           agentVars, peerVars
  <1>5. UNCHANGED <<peer, windows>> \/ (peer = "open" /\ peer' = "closed")
    BY DEF Main, StartFails, DeviceStarted, Joined, PeerCloses, PeerReads, stop_agent,
           vars, peerVars
  <1> QED
    BY <1>2, <1>3, <1>4, <1>5
-----------------------------------------------------------------------------
(* Sequences.                                                              *)

LEMMA AppendElements ==
    ASSUME NEW S, NEW q \in Seq(S), NEW x \in S
    PROVE  /\ Append(q, x) \in Seq(S)
           /\ DOMAIN Append(q, x) = 1..(Len(q) + 1)
           /\ DOMAIN q = 1..Len(q) /\ Len(q) \in Nat
           /\ \A i \in 1..Len(q) : Append(q, x)[i] = q[i]
           /\ Append(q, x)[Len(q) + 1] = x
  BY AppendProperties, LenProperties

LEMMA TailElements ==
    ASSUME NEW S, NEW q \in Seq(S), q # << >>
    PROVE  /\ Tail(q) \in Seq(S)
           /\ Len(q) \in Nat \ {0}
           /\ Len(Tail(q)) = Len(q) - 1
           /\ Head(q) = q[1]
           /\ DOMAIN q = 1..Len(q)
           /\ DOMAIN Tail(q) = 1..(Len(q) - 1)
           /\ \A i \in 1..(Len(q) - 1) : i + 1 \in 1..Len(q) /\ Tail(q)[i] = q[i + 1]
  BY HeadTailProperties, LenProperties, EmptySeq

-----------------------------------------------------------------------------
(* Frames wait in the order of their numbers.                              *)

\* A frame that is about to be pushed has the largest number in the queue,
\* and no number is larger than the last one given out.
OrderInv ==
    /\ \A i, j \in DOMAIN queue : i < j => queue[i].seq < queue[j].seq
    /\ \A i \in DOMAIN queue : queue[i].seq <= sequence
    /\ \A c \in Callbacks : pc[c] = "push" =>
          /\ frame[c].seq <= sequence
          /\ \A i \in DOMAIN queue : queue[i].seq < frame[c].seq

\* Numbers only grow, and a frame that is to be pushed was to be pushed before.
LEMMA OrderKept ==
    ASSUME TypeInv, TypeInv', OrderInv, queue' = queue, sequence' >= sequence,
           \A c \in Callbacks : pc'[c] = "push" => pc[c] = "push" /\ frame'[c] = frame[c]
    PROVE  OrderInv'
  <1>1. /\ sequence \in Int /\ sequence' \in Int
        /\ \A c \in Callbacks : frame[c].seq \in Int
        /\ DOMAIN queue = 1..Len(queue)
        /\ \A i \in DOMAIN queue : queue[i].seq \in Int
    BY NumberedFrames, ElementOfSeq, LenProperties DEF TypeInv, CountsInv, FramesInv, QueueInv
  <1> QED
    BY <1>1 DEF OrderInv

LEMMA OrderEmptied ==
    ASSUME queue' = << >>, TypeInv, OrderInv, sequence' = sequence,
           \A c \in Callbacks : pc'[c] = "push" => pc[c] = "push" /\ frame'[c] = frame[c]
    PROVE  OrderInv'
  BY DEF OrderInv

LEMMA NextOrder ==
    ASSUME TypeInv, TypeInv', OrderInv, [Next]_vars
    PROVE  OrderInv'
  <1>0. /\ sequence \in Int
        /\ DOMAIN queue = 1..Len(queue) /\ Len(queue) \in Nat
        /\ \A c \in Callbacks : frame[c] \in Numbered /\ frame[c].seq \in Int
        /\ \A i \in DOMAIN queue : queue[i] \in Numbered /\ queue[i].seq \in Int
    BY NumberedFrames, ElementOfSeq, LenProperties DEF TypeInv, CountsInv, FramesInv, QueueInv
  <1>1. ASSUME NEW c \in Callbacks, Number(c)
        PROVE  OrderInv'
    <2>1. /\ pc'[c] = "push" /\ \A d \in Callbacks \ {c} : pc'[d] # "push"
      BY <1>1, EnqueueSteps DEF Enqueue, Holding
    <2>2. /\ queue' = queue /\ sequence' = sequence + 1
          /\ frame'[c].seq = sequence'
      BY <1>1 DEF Number, NextSequence, TypeInv, FramesInv, Numbered
    <2> QED
      BY <1>0, <2>1, <2>2 DEF OrderInv
  <1>2. ASSUME NEW c \in Callbacks, Push(c)
        PROVE  OrderInv'
    <2>1. /\ pc[c] = "push" /\ \A d \in Callbacks : pc'[d] # "push"
      BY <1>2, EnqueueSteps DEF Enqueue, Holding
    <2>2. queue' = Append(queue, frame[c]) /\ sequence' = sequence
      BY <1>2 DEF Push
    <2>3. /\ DOMAIN queue' = 1..(Len(queue) + 1)
          /\ \A i \in 1..Len(queue) : queue'[i] = queue[i]
          /\ queue'[Len(queue) + 1] = frame[c]
      BY <1>0, <2>2, AppendElements DEF TypeInv, QueueInv
    <2>4. \A i \in DOMAIN queue' : queue'[i].seq <= sequence
      BY <1>0, <2>1, <2>3 DEF OrderInv
    <2>5. \A i, j \in DOMAIN queue' : i < j => queue'[i].seq < queue'[j].seq
      BY <1>0, <2>1, <2>3 DEF OrderInv
    <2> QED
      BY <2>1, <2>2, <2>4, <2>5 DEF OrderInv
  <1>3. ASSUME NEW c \in Callbacks, ClearAfterOverflow(c)
        PROVE  OrderInv'
    <2>1. \A d \in Callbacks : pc'[d] # "push"
      BY <1>3, EnqueueSteps DEF Enqueue, Holding
    <2> QED
      BY <1>3, <2>1, OrderEmptied DEF ClearAfterOverflow
  <1>4. ASSUME NEW c \in Callbacks,
               PushRefused(c) \/ StoreDisconnected(c) \/ StoreReconnect(c)
        PROVE  OrderInv'
    <2>1. \A d \in Callbacks : pc'[d] # "push"
      BY <1>4, EnqueueSteps DEF Enqueue, Holding
    <2>2. queue' = queue /\ sequence' = sequence
      BY <1>4 DEF PushRefused, StoreDisconnected, StoreReconnect, agentVars
    <2> QED
      BY <1>0, <2>1, <2>2, OrderKept
  <1>5. CASE BuildContactFrame \/ BuildButtonFrame
    <2>1. PICK c \in Callbacks : pc[c] = "lock" /\ \E n, b : Build(c, n, b)
      BY <1>5 DEF BuildContactFrame, BuildButtonFrame, Callbacks
    <2>2. \A d \in Callbacks : pc'[d] = "push" => pc[d] = "push" /\ frame'[d] = frame[d]
      BY <2>1, BuildSteps
    <2>3. queue' = queue /\ sequence' = sequence
      BY <1>5 DEF BuildContactFrame, BuildButtonFrame
    <2> QED
      BY <1>0, <2>2, <2>3, OrderKept
  <1>6. CASE (\E t \in Touches : ContactFrame(t)) \/ ButtonEvent \/ ButtonChecks
    BY <1>0, <1>6, CallSteps, OrderKept
  <1>7. CASE Sender
    <2>1. /\ \A c \in Callbacks : pc'[c] = pc[c]
          /\ frame' = frame
      BY <1>7, SenderFrame
    <2>2. CASE SendHello \/ SendReset
      <3>1. queue' = queue /\ sequence' = sequence + 1
        BY <2>2 DEF SendHello, SendReset, SendControl, NextSequence
      <3> QED
        BY <1>0, <2>1, <3>1, OrderKept
    <2>3. CASE Pop
      <3>1. queue # << >> /\ queue' = Tail(queue) /\ sequence' = sequence
        BY <2>3 DEF Pop
      <3>2. /\ DOMAIN queue' = 1..(Len(queue) - 1)
            /\ \A i \in 1..(Len(queue) - 1) : i + 1 \in 1..Len(queue) /\ queue'[i] = queue[i + 1]
        BY <3>1, TailElements DEF TypeInv, QueueInv
      <3>3. \A i, j \in DOMAIN queue' : i < j => queue'[i].seq < queue'[j].seq
        <4> SUFFICES ASSUME NEW i \in 1..(Len(queue) - 1), NEW j \in 1..(Len(queue) - 1), i < j
                     PROVE  queue'[i].seq < queue'[j].seq
          BY <3>2
        <4>1. i + 1 \in DOMAIN queue /\ j + 1 \in DOMAIN queue /\ i + 1 < j + 1
          BY <1>0, <3>2
        <4>2. queue[i + 1].seq < queue[j + 1].seq
          BY <4>1 DEF OrderInv
        <4> QED
          BY <3>2, <4>2
      <3>4. \A i \in DOMAIN queue' :
               /\ queue'[i].seq <= sequence
               /\ \A c \in Callbacks : pc[c] = "push" => queue'[i].seq < frame[c].seq
        BY <1>0, <3>2 DEF OrderInv
      <3> QED
        BY <2>1, <3>1, <3>3, <3>4 DEF OrderInv
    <2>4. CASE ClearBeforeSession \/ Drain
      BY <2>1, <2>4, OrderEmptied DEF ClearBeforeSession, Drain
    <2>5. CASE Start \/ ConnectFails \/ ConnectSucceeds \/ Rearm \/ ZeroLatest \/ Open
               \/ LoopChecks \/ PopNothing \/ Send \/ Shut
      <3>1. queue' = queue /\ sequence' = sequence
        BY <2>5 DEF Start, ConnectFails, ConnectSucceeds, Rearm, ZeroLatest, Open,
                    LoopChecks, PopNothing, Send, Shut, agentVars
      <3> QED
        BY <1>0, <2>1, <3>1, OrderKept
    <2> QED
      BY <1>7, <2>2, <2>3, <2>4, <2>5 DEF Sender
  <1>8. CASE Main \/ PeerCloses \/ PeerReads \/ stop_agent \/ UNCHANGED vars
    BY <1>0, <1>8, OtherSteps, OrderKept
  <1> QED
    BY <1>1, <1>2, <1>3, <1>4, <1>5, <1>6, <1>7, <1>8 DEF Next, Callback, Enqueue

(* Frames wait in the order of their numbers for any capacity of the queue *)
(* and any interleaving of the two callbacks and of the sender, which      *)
(* numbers HELLO and RESET at the same time (main.c:157-164, 300, 308).    *)
THEOREM FramesWaitInOrder == Spec => []QueueOrdered
  <1>1. Init => TypeInv /\ OrderInv
    BY InitTypes DEF Init, OrderInv, Callbacks
  <1>2. TypeInv /\ OrderInv /\ [Next]_vars => (TypeInv /\ OrderInv)'
    BY NextTypes, NextOrder
  <1>3. OrderInv => QueueOrdered
    BY DEF OrderInv, QueueOrdered
  <1> QED
    BY <1>1, <1>2, <1>3, PTL DEF Spec
-----------------------------------------------------------------------------
(* The sender is never left waiting for frames that nobody lets in.        *)

\* During a session an overflow leaves connected false only with a reconnect
\* asked for, or about to be: the two stores of main.c:171-172 in either
\* order, against main.c:318-329.
ReconnectInv ==
    /\ pc["sender"] \in {"open", "loop", "pop", "send"} =>
          \A c \in Callbacks : pc[c] \in {"requested", "clear"} => reconnect_requested
    /\ pc["sender"] \in {"loop", "pop", "send"} /\ ~connected =>
          reconnect_requested \/ \E c \in Callbacks : pc[c] = "disconnected"

\* Steps that are none of the sender's and not in enqueue_frame_locked.
LEMMA ReconnectKept ==
    ASSUME ReconnectInv, pc'["sender"] = pc["sender"],
           UNCHANGED <<connected, reconnect_requested>>,
           \A c \in Callbacks :
              /\ pc'[c] \in {"requested", "clear"} => pc[c] = pc'[c]
              /\ pc[c] = "disconnected" => pc'[c] = pc[c]
    PROVE  ReconnectInv'
  BY DEF ReconnectInv

LEMMA NextReconnect ==
    ASSUME TypeInv, ReconnectInv, [Next]_vars
    PROVE  ReconnectInv'
  <1>1. ASSUME NEW c \in Callbacks, Enqueue(c)
        PROVE  ReconnectInv'
    <2>1. /\ pc'["sender"] = pc["sender"]
          /\ \A d \in Callbacks \ {c} : pc[d] \notin Holding /\ pc'[d] = pc[d]
      BY <1>1, EnqueueSteps
    <2>2. CASE Number(c) \/ Push(c) \/ PushRefused(c) \/ ClearAfterOverflow(c)
      <3>1. UNCHANGED <<connected, reconnect_requested>>
        BY <2>2 DEF Number, Push, PushRefused, ClearAfterOverflow, agentVars
      <3>2. pc[c] # "disconnected" /\ pc'[c] \notin {"requested", "clear"}
        BY <1>1, <2>2, EnqueueSteps
      <3> QED
        BY <2>1, <3>1, <3>2, ReconnectKept
    <2>3. CASE StoreDisconnected(c)
      <3>1. UNCHANGED reconnect_requested
        BY <2>3 DEF StoreDisconnected
      <3>2. CASE pc[c] = "overflow" /\ pc'[c] = "disconnected"
        BY <2>1, <3>1, <3>2 DEF ReconnectInv
      <3>3. CASE pc[c] = "requested" /\ pc'[c] = "clear"
        BY <2>1, <3>1, <3>3 DEF ReconnectInv
      <3> QED
        BY <1>1, <2>3, <3>2, <3>3, EnqueueSteps
    <2>4. CASE StoreReconnect(c)
      BY <2>1, <2>4 DEF StoreReconnect, ReconnectInv
    <2> QED
      BY <1>1, <2>2, <2>3, <2>4 DEF Enqueue
  <1>2. CASE BuildContactFrame \/ BuildButtonFrame
    <2>1. PICK c \in Callbacks : pc[c] = "lock" /\ \E n, b : Build(c, n, b)
      BY <1>2 DEF BuildContactFrame, BuildButtonFrame, Callbacks
    <2>2. UNCHANGED <<connected, reconnect_requested>>
      BY <1>2 DEF BuildContactFrame, BuildButtonFrame
    <2> QED
      BY <2>1, <2>2, BuildSteps, ReconnectKept DEF Holding
  <1>3. CASE (\E t \in Touches : ContactFrame(t)) \/ ButtonEvent \/ ButtonChecks
    BY <1>3, CallSteps, ReconnectKept
  <1>4. CASE Sender
    <2>1. \A c \in Callbacks : pc'[c] = pc[c]
      BY <1>4, SenderFrame
    <2>2. CASE ZeroLatest
      <3>1. pc'["sender"] = "open" /\ frame_mutex = "free"
        BY <2>2, SenderSteps DEF ZeroLatest, InSender
      <3>2. \A c \in Callbacks : pc[c] \notin {"requested", "clear"}
        BY <3>1 DEF TypeInv, MutexInv, Callbacks, Holding
      <3> QED
        BY <2>1, <3>1, <3>2 DEF ReconnectInv
    <2>3. CASE Open
      <3>1. pc["sender"] = "open" /\ connected' /\ reconnect_requested' = reconnect_requested
        BY <2>3 DEF Open, SenderGoes
      <3> QED
        BY <2>1, <3>1 DEF ReconnectInv
    <2>4. CASE LoopChecks \/ Pop \/ Send
      <3>1. UNCHANGED <<connected, reconnect_requested>>
        BY <2>4 DEF LoopChecks, Pop, Send, agentVars
      <3>2. pc["sender"] \in {"loop", "pop", "send"}
        BY <2>4 DEF LoopChecks, Pop, Send, SenderGoes
      <3> QED
        BY <2>1, <3>1, <3>2 DEF ReconnectInv
    <2>5. CASE Start \/ ConnectFails \/ ConnectSucceeds \/ ClearBeforeSession \/ SendHello
               \/ SendReset \/ Rearm \/ PopNothing \/ Shut \/ Drain
      <3>1. \E from \in InSender, to \in InSender \ {"open", "loop", "pop", "send"} :
               SenderGoes(from, to)
        BY <2>5 DEF Start, ConnectFails, ConnectSucceeds, ClearBeforeSession, SendHello,
              SendReset, SendControl, Rearm, PopNothing, Shut, Drain, InSender
      <3>2. pc'["sender"] \notin {"open", "loop", "pop", "send"}
        BY <3>1, SenderSteps
      <3> QED
        BY <3>2 DEF ReconnectInv
    <2> QED
      BY <1>4, <2>2, <2>3, <2>4, <2>5 DEF Sender
  <1>5. CASE Main \/ PeerCloses \/ PeerReads \/ stop_agent \/ UNCHANGED vars
    BY <1>5, OtherSteps, ReconnectKept
  <1> QED
    BY <1>1, <1>2, <1>3, <1>4, <1>5 DEF Next, Callback

(* While the sender is in its loop and no callback is running, frames are  *)
(* let in or a reconnect has been asked for, however the two stores of     *)
(* main.c:171-172 and the opening of a session (main.c:318-329) fall.      *)
THEOREM NeverDeaf == Spec => []SenderNotDeaf
  <1>1. Init => TypeInv /\ ReconnectInv
    BY InitTypes DEF Init, ReconnectInv
  <1>2. TypeInv /\ ReconnectInv /\ [Next]_vars => (TypeInv /\ ReconnectInv)'
    BY NextTypes, NextReconnect
  <1>3. ReconnectInv => SenderNotDeaf
    BY DEF ReconnectInv, SenderNotDeaf
  <1> QED
    BY <1>1, <1>2, <1>3, PTL DEF Spec

-----------------------------------------------------------------------------
(* Several fingers never carry the pressure click.                         *)

\* latest_frame, which the button callback repeats, agrees with the click.
ClickInv == latest_frame.tips >= 2 => ~pressure_button_down

LEMMA PressureOfMany ==
    ASSUME NEW t, t.tips \in Int, t.tips >= 2
    PROVE  ~Pressure(t).down
  BY DEF Pressure

LEMMA NextClick ==
    ASSUME TypeInv, ClickInv, [Next]_vars
    PROVE  ClickInv'
  <1>1. CASE BuildContactFrame
    <2>1. touch.tips \in Int
      BY TouchesAssumption DEF TypeInv, FramesInv, NoTouch
    <2>2. /\ latest_frame'.tips = touch.tips
          /\ pressure_button_down' = Pressure(touch).down
      BY <1>1 DEF BuildContactFrame, Build
    <2> QED
      BY <2>1, <2>2, PressureOfMany DEF ClickInv
  <1>2. CASE BuildButtonFrame
    BY <1>2 DEF BuildButtonFrame, Build, buttonVars, ClickInv
  <1>3. CASE ZeroLatest
    BY <1>3 DEF ZeroLatest, Empty, ClickInv
  <1>4. CASE UNCHANGED <<latest_frame, pressure_button_down>>
    BY <1>4 DEF ClickInv
  <1>5. CASE Sender /\ ~ZeroLatest
    <2>1. UNCHANGED latest_frame
      BY <1>5 DEF Sender, Start, ConnectFails, ConnectSucceeds, ClearBeforeSession, SendHello,
            SendReset, SendControl, Rearm, Open, LoopChecks, Pop, PopNothing, Send, Shut,
            Drain, agentVars
    <2> QED
      BY <1>4, <1>5, <2>1, SenderFrame DEF buttonVars
  <1>6. ASSUME NEW c \in Callbacks, Enqueue(c)
        PROVE  UNCHANGED <<latest_frame, pressure_button_down>>
    BY <1>6 DEF Enqueue, Number, Push, PushRefused, StoreDisconnected, StoreReconnect,
          ClearAfterOverflow, agentVars, buttonVars
  <1>7. CASE (\E t \in Touches : ContactFrame(t)) \/ ButtonEvent \/ ButtonChecks
    BY <1>4, <1>7, CallSteps
  <1>8. CASE Main \/ PeerCloses \/ PeerReads \/ stop_agent \/ UNCHANGED vars
    BY <1>4, <1>8, OtherSteps DEF buttonVars
  <1> QED
    BY <1>1, <1>2, <1>3, <1>4, <1>5, <1>6, <1>7, <1>8 DEF Next, Callback

\* A callback takes frame_mutex in two actions only.
LEMMA OnlyBuildNumbers ==
    ASSUME TypeInv, [Next]_vars, NEW c \in Callbacks, pc[c] = "lock", pc'[c] = "number"
    PROVE  \/ c = "contact" /\ BuildContactFrame
           \/ c = "button" /\ BuildButtonFrame
  <1>1. ASSUME NEW d \in Callbacks, Enqueue(d) PROVE FALSE
    BY <1>1, EnqueueSteps DEF Enqueue, Holding
  <1>2. CASE BuildContactFrame
    BY <1>2, BuildSteps DEF BuildContactFrame, Callbacks
  <1>3. CASE BuildButtonFrame
    BY <1>3, BuildSteps DEF BuildButtonFrame, Callbacks
  <1>4. CASE (\E t \in Touches : ContactFrame(t)) \/ ButtonEvent \/ ButtonChecks
    BY <1>4, CallSteps
  <1>5. CASE Sender
    BY <1>5, SenderFrame
  <1>6. CASE Main \/ PeerCloses \/ PeerReads \/ stop_agent \/ UNCHANGED vars
    BY <1>6, OtherSteps
  <1> QED
    BY <1>1, <1>2, <1>3, <1>4, <1>5, <1>6 DEF Next, Callback

LEMMA ManyFingersStep ==
    ASSUME TypeInv, ClickInv, [Next]_vars,
           NEW c \in Callbacks, pc[c] = "lock", pc'[c] = "number"
    PROVE  frame'[c].tips >= 2 /\ frame'[c].button => physical_button_down
  <1>1. CASE c = "contact" /\ BuildContactFrame
    <2>1. /\ frame'[c].tips = touch.tips
          /\ frame'[c].button => Pressure(touch).down \/ physical_button_down
      BY <1>1 DEF BuildContactFrame, Build, TypeInv, FramesInv
    <2>2. touch.tips \in Int
      BY TouchesAssumption DEF TypeInv, FramesInv, NoTouch
    <2> QED
      BY <2>1, <2>2, PressureOfMany
  <1>2. CASE c = "button" /\ BuildButtonFrame
    <2>1. /\ frame'[c].tips = latest_frame.tips
          /\ frame'[c].button => effective_button_down
      BY <1>2 DEF BuildButtonFrame, Build, TypeInv, FramesInv
    <2> QED
      BY <2>1 DEF ClickInv, effective_button_down
  <1> QED
    BY <1>1, <1>2, OnlyBuildNumbers

(* No frame with several touching contacts carries Button 1 for the        *)
(* pressure click, neither one that reports the contacts (main.c:382-399)  *)
(* nor one that repeats them for the physical button (main.c:442-451).     *)
THEOREM ManyFingersNotPressed == Spec => MultiFingerNotPressed
  <1>1. Init => TypeInv /\ ClickInv
    BY InitTypes DEF Init, ClickInv, Empty
  <1>2. TypeInv /\ ClickInv /\ [Next]_vars => (TypeInv /\ ClickInv)'
    BY NextTypes, NextClick
  <1>3. TypeInv /\ ClickInv /\ [Next]_vars =>
           [\A c \in Callbacks :
              /\ pc[c] = "lock" /\ pc'[c] = "number"
              /\ frame'[c].tips >= 2 /\ frame'[c].button
              => physical_button_down]_vars
    BY ManyFingersStep
  <1> QED
    BY <1>1, <1>2, <1>3, PTL DEF Spec, MultiFingerNotPressed
-----------------------------------------------------------------------------
(* The session.                                                            *)

InSession == pc["sender"] \in {"loop", "pop", "send"}

\* A session into which no callback has carried over from an older one is
\* opened with nobody past the check of connected: what HELLO and RESET set
\* up is undisturbed until connected is stored (main.c:318-329).
OpenInv ==
    /\ connected => pc["sender"] \in {"loop", "pop", "send", "shut"}
    /\ pc["sender"] \in {"clear", "hello", "reset", "rearm", "zero", "open"} =>
          /\ ~carried => \A c \in Callbacks : ~PastCheck(c)
          /\ peer = "open" => windows = Empty
    /\ pc["sender"] \in {"hello", "reset", "rearm", "zero", "open"} /\ ~carried =>
          queue = << >>
    /\ pc["sender"] \in {"reset", "rearm", "zero", "open"} /\ ~carried /\ peer = "open" =>
          last = sequence
    /\ pc["sender"] \in {"zero", "open"} /\ ~carried => ~reconnect_requested
    /\ pc["sender"] = "open" /\ ~carried => latest_frame = Empty

\* Where the two stores of an overflow leave a session.
StoresInv ==
    ~carried =>
       /\ \A c \in Callbacks : pc[c] \in {"disconnected", "clear"} => ~connected
       /\ InSession /\ connected /\ reconnect_requested =>
             \E c \in Callbacks : pc[c] = "requested"

\* A session that nothing has disturbed so far.
Good == ~carried /\ peer = "open" /\ InSession /\ ~reconnect_requested

\* The number of the frame the sender is at.
base == IF pc["sender"] = "send" THEN last + 1 ELSE last

\* A number given out for a frame that is not in the queue yet.
Pending == \E c \in Callbacks : pc[c] \in {"push", "overflow", "disconnected"}

\* The receiver's last number, the message, the queue, the frame about to be
\* pushed and the last number given out are consecutive.
NumbersInv ==
    Good =>
       /\ pc["sender"] = "send" => message.seq = last + 1
       /\ \A i \in DOMAIN queue : queue[i].seq = base + i
       /\ Pending => sequence = base + Len(queue) + 1
       /\ ~Pending => sequence = base + Len(queue)
       /\ \A c \in Callbacks : pc[c] = "push" => frame[c].seq = sequence

Content(m) == [tips |-> m.tips, button |-> m.button]

\* The newest frame on its way to Windows.
Newest == IF queue # << >> THEN Content(queue[Len(queue)])
          ELSE IF pc["sender"] = "send" THEN Content(message) ELSE windows

\* A frame that is being numbered or pushed is the latest one.
WorkingOn == \A c \in Callbacks : pc[c] \in {"number", "push"} => Content(frame[c]) = latest_frame

\* Once no callback is in its critical section, the latest frame is the
\* newest one on its way to Windows.
Arriving == Good /\ (\A c \in Callbacks : pc[c] \notin Holding) => Newest = latest_frame

\* A button that has been stored is in latest_frame or on its way there.
ButtonInv ==
    connected /\ ~carried /\ pc["button"] \notin {"check", "lock"} /\ latest_frame.button
       => effective_button_down

LEMMA EnqueueFrame ==
    ASSUME NEW c \in Callbacks, Enqueue(c)
    PROVE  /\ UNCHANGED <<running, buttonVars, latest_frame, message, peerVars, touch, history>>
           /\ connected' => connected
           /\ Number(c) \/ UNCHANGED sequence
           /\ StoreReconnect(c) \/ UNCHANGED reconnect_requested
           /\ Push(c) \/ ClearAfterOverflow(c) \/ UNCHANGED queue
  BY DEF Enqueue, Number, Push, PushRefused, StoreDisconnected, StoreReconnect,
         ClearAfterOverflow, agentVars, buttonVars

LEMMA NextOpen ==
    ASSUME TypeInv, OpenInv, [Next]_vars
    PROVE  OpenInv'
  <1> USE DEF peerVars, history
  <1>1. ASSUME NEW c \in Callbacks, PastCheck(c), pc'["sender"] = pc["sender"],
               UNCHANGED <<carried, peer, windows>>, connected' => connected
        PROVE  OpenInv'
    BY <1>1 DEF OpenInv
  <1>2. ASSUME NEW c \in Callbacks, Enqueue(c)
        PROVE  OpenInv'
    <2>1. PastCheck(c) /\ pc'["sender"] = pc["sender"]
      BY <1>2, EnqueueSteps DEF PastCheck, Holding
    <2> QED
      BY <1>1, <1>2, <2>1, EnqueueFrame
  <1>3. CASE BuildContactFrame \/ BuildButtonFrame
    <2>1. PICK c \in Callbacks : pc[c] = "lock" /\ \E n, b : Build(c, n, b)
      BY <1>3 DEF BuildContactFrame, BuildButtonFrame, Callbacks
    <2>2. PastCheck(c) /\ pc'["sender"] = pc["sender"]
      BY <2>1, BuildSteps DEF PastCheck
    <2>3. UNCHANGED <<carried, peer, windows, connected>>
      BY <1>3 DEF BuildContactFrame, BuildButtonFrame
    <2> QED
      BY <1>1, <2>2, <2>3
  <1>4. CASE (\E t \in Touches : ContactFrame(t)) \/ ButtonEvent \/ ButtonChecks
    <2>1. /\ UNCHANGED <<connected, reconnect_requested, sequence, latest_frame, queue, peer,
                         last, windows, carried>>
          /\ pc'["sender"] = pc["sender"]
          /\ \A d \in Callbacks : PastCheck(d)' => PastCheck(d) \/ connected
      BY <1>4, CallSteps DEF PastCheck
    <2> QED
      BY <2>1 DEF OpenInv
  <1>5. CASE Main \/ PeerCloses \/ PeerReads \/ stop_agent \/ UNCHANGED vars
    <2>1. /\ UNCHANGED <<connected, reconnect_requested, sequence, latest_frame, queue, last,
                         carried>>
          /\ pc'["sender"] = pc["sender"]
          /\ \A c \in Callbacks : PastCheck(c)' <=> PastCheck(c)
          /\ peer' = "open" => peer = "open" /\ windows' = windows
      BY <1>5, OtherSteps DEF PastCheck
    <2> QED
      BY <2>1 DEF OpenInv
  <1>6. CASE Sender
    <2>1. \A c \in Callbacks : PastCheck(c)' <=> PastCheck(c)
      BY <1>6, SenderFrame DEF PastCheck
    <2>2. CASE Start \/ ConnectFails
      <3>1. pc'["sender"] \in {"connect", "done", "start"} /\ ~connected'
        <4>1. CASE Start
          BY <4>1, SenderSteps DEF Start, agentVars, OpenInv, InSender, SenderGoes
        <4>2. CASE ConnectFails
          BY <4>2, SenderSteps DEF ConnectFails, agentVars, OpenInv, InSender, SenderGoes
        <4> QED
          BY <2>2, <4>1, <4>2
      <3> QED
        BY <3>1 DEF OpenInv
    <2>3. CASE ConnectSucceeds
      <3>1. pc'["sender"] = "clear" /\ ~connected' /\ windows' = Empty
        BY <2>3, SenderSteps DEF ConnectSucceeds, agentVars, OpenInv, InSender, SenderGoes
      <3>2. ~carried' => \A c \in Callbacks : ~PastCheck(c)'
        BY <2>1, <2>3 DEF ConnectSucceeds
      <3> QED
        BY <3>1, <3>2 DEF OpenInv
    <2>4. CASE ClearBeforeSession
      <3>1. /\ pc["sender"] = "clear" /\ pc'["sender"] = "hello" /\ queue' = << >>
            /\ UNCHANGED <<connected, carried, peer, windows>>
        BY <2>4, SenderSteps DEF ClearBeforeSession, InSender
      <3> QED
        BY <2>1, <3>1 DEF OpenInv
    <2>5. CASE SendHello
      <3>1. /\ pc["sender"] = "hello" /\ pc'["sender"] \in {"reset", "start"}
            /\ UNCHANGED <<connected, carried, windows, queue>>
        BY <2>5, SenderSteps DEF SendHello, SendControl, InSender
      <3>2. peer' = "open" => peer = "open" /\ last' = sequence'
        BY <2>5 DEF SendHello, SendControl
      <3> QED
        BY <2>1, <3>1, <3>2 DEF OpenInv
    <2>6. CASE SendReset
      <3>1. /\ pc["sender"] = "reset" /\ pc'["sender"] \in {"rearm", "start"}
            /\ UNCHANGED <<connected, carried, windows, queue>>
        BY <2>6, SenderSteps DEF SendReset, SendControl, InSender
      <3>2. peer' = "open" => peer = "open" /\ last' = sequence'
        BY <2>6 DEF SendReset, SendControl
      <3> QED
        BY <2>1, <3>1, <3>2 DEF OpenInv
    <2>7. CASE Rearm
      <3>1. /\ pc["sender"] = "rearm" /\ pc'["sender"] = "zero" /\ ~reconnect_requested'
            /\ UNCHANGED <<connected, carried, peer, last, windows, queue, sequence>>
        BY <2>7, SenderSteps DEF Rearm, InSender
      <3> QED
        BY <2>1, <3>1 DEF OpenInv
    <2>8. CASE ZeroLatest
      <3>1. /\ pc["sender"] = "zero" /\ pc'["sender"] = "open" /\ latest_frame' = Empty
            /\ UNCHANGED <<connected, reconnect_requested, carried, peer, last, windows, queue,
                           sequence>>
        BY <2>8, SenderSteps DEF ZeroLatest, InSender
      <3> QED
        BY <2>1, <3>1 DEF OpenInv
    <2>9. CASE Open \/ LoopChecks \/ Pop \/ PopNothing \/ Send
      <3>1. pc'["sender"] \in {"loop", "pop", "send", "shut"}
        BY <2>9, SenderSteps DEF Open, LoopChecks, Pop, PopNothing, Send, InSender
      <3> QED
        BY <3>1 DEF OpenInv
    <2>10. CASE Shut \/ Drain
      <3>1. pc'["sender"] \in {"drain", "start"} /\ ~connected'
        <4>1. CASE Shut
          BY <4>1, SenderSteps DEF Shut, InSender, SenderGoes, OpenInv
        <4>2. CASE Drain
          BY <4>2, SenderSteps DEF Drain, InSender, SenderGoes, OpenInv
        <4> QED
          BY <2>10, <4>1, <4>2
      <3> QED
        BY <3>1 DEF OpenInv
    <2> QED
      BY <1>6, <2>2, <2>3, <2>4, <2>5, <2>6, <2>7, <2>8, <2>9, <2>10 DEF Sender
  <1> QED
    BY <1>2, <1>3, <1>4, <1>5, <1>6 DEF Next, Callback

LEMMA NextStores ==
    ASSUME TypeInv, OpenInv, ReconnectInv, StoresInv, [Next]_vars
    PROVE  StoresInv'
  <1> USE DEF peerVars, history
  <1>1. ASSUME NEW c \in Callbacks, Enqueue(c)
        PROVE  StoresInv'
    <2>1. /\ pc'["sender"] = pc["sender"] /\ carried' = carried
          /\ \A d \in Callbacks \ {c} : pc[d] \notin Holding /\ pc'[d] = pc[d]
          /\ connected' => connected
      BY <1>1, EnqueueSteps, EnqueueFrame
    <2>2. CASE StoreDisconnected(c)
      BY <2>1, <2>2 DEF StoreDisconnected, StoresInv, Holding
    <2>3. CASE StoreReconnect(c)
      <3>1. connected' = connected
        BY <2>3 DEF StoreReconnect
      <3>2. CASE pc[c] = "disconnected" /\ pc'[c] = "clear"
        BY <2>1, <3>1, <3>2 DEF StoresInv, Holding
      <3>3. CASE pc'[c] = "requested"
        BY <2>1, <3>1, <3>3 DEF StoresInv, Holding
      <3> QED
        BY <1>1, <2>3, <3>2, <3>3, EnqueueSteps
    <2>4. CASE Number(c) \/ Push(c) \/ PushRefused(c) \/ ClearAfterOverflow(c)
      <3>1. reconnect_requested' = reconnect_requested
        BY <1>1, <2>4, EnqueueFrame, EnqueueSteps
           DEF Number, Push, PushRefused, ClearAfterOverflow, agentVars
      <3>2. pc'[c] \notin {"disconnected", "clear", "requested"} /\ pc[c] # "requested"
        BY <1>1, <2>4, EnqueueSteps
      <3> QED
        BY <2>1, <3>1, <3>2 DEF StoresInv, Holding, InSession
    <2> QED
      BY <1>1, <2>2, <2>3, <2>4 DEF Enqueue
  <1>2. ASSUME UNCHANGED <<connected, reconnect_requested, carried>>,
               pc'["sender"] = pc["sender"],
               \A c \in Callbacks :
                  /\ pc'[c] \in {"disconnected", "clear"} => pc'[c] = pc[c]
                  /\ pc[c] = "requested" => pc'[c] = pc[c]
        PROVE  StoresInv'
    BY <1>2 DEF StoresInv, InSession
  <1>3. CASE BuildContactFrame \/ BuildButtonFrame
    <2>1. PICK c \in Callbacks : pc[c] = "lock" /\ \E n, b : Build(c, n, b)
      BY <1>3 DEF BuildContactFrame, BuildButtonFrame, Callbacks
    <2>2. UNCHANGED <<connected, reconnect_requested, carried>>
      BY <1>3 DEF BuildContactFrame, BuildButtonFrame
    <2> QED
      BY <1>2, <2>1, <2>2, BuildSteps DEF Holding
  <1>4. CASE (\E t \in Touches : ContactFrame(t)) \/ ButtonEvent \/ ButtonChecks
    BY <1>2, <1>4, CallSteps
  <1>5. CASE Main \/ PeerCloses \/ PeerReads \/ stop_agent \/ UNCHANGED vars
    BY <1>2, <1>5, OtherSteps
  <1>6. CASE Sender
    <2>1. \A c \in Callbacks : pc'[c] = pc[c]
      BY <1>6, SenderFrame
    <2>2. CASE ConnectSucceeds
      BY <2>1, <2>2 DEF ConnectSucceeds, agentVars, SenderGoes, OpenInv, StoresInv
    <2>3. CASE Open
      <3>1. pc["sender"] = "open" /\ UNCHANGED <<reconnect_requested, carried>>
        BY <2>3 DEF Open, SenderGoes
      <3>2. ~carried => ~reconnect_requested /\ \A c \in Callbacks : ~PastCheck(c)
        BY <3>1 DEF OpenInv
      <3> QED
        BY <2>1, <3>1, <3>2 DEF StoresInv, PastCheck
    <2>4. CASE LoopChecks \/ Pop \/ Send
      <3>1. pc["sender"] \in {"loop", "pop", "send"}
        BY <2>4 DEF LoopChecks, Pop, Send, SenderGoes
      <3>2. UNCHANGED <<connected, reconnect_requested, carried>>
        BY <2>4 DEF LoopChecks, Pop, Send, agentVars
      <3> QED
        BY <2>1, <3>1, <3>2 DEF StoresInv, InSession
    <2>5. CASE Start \/ ConnectFails \/ ClearBeforeSession \/ SendHello
               \/ SendReset \/ Rearm \/ ZeroLatest \/ PopNothing \/ Shut \/ Drain
      <3>1. \E from \in InSender, to \in InSender \ {"loop", "pop", "send"} :
               SenderGoes(from, to)
        BY <2>5 DEF Start, ConnectFails, ClearBeforeSession, SendHello, ZeroLatest,
              SendReset, SendControl, Rearm, PopNothing, Shut, Drain, InSender
      <3>2. ~InSession'
        BY <3>1, SenderSteps DEF InSession
      <3>3. carried' = carried /\ (connected' => connected)
        BY <2>5 DEF Start, ConnectFails, ClearBeforeSession, SendHello, ZeroLatest,
              SendReset, SendControl, Rearm, PopNothing, Shut, Drain, agentVars
      <3> QED
        BY <2>1, <3>2, <3>3 DEF StoresInv
    <2> QED
      BY <1>6, <2>2, <2>3, <2>4, <2>5 DEF Sender
  <1> QED
    BY <1>1, <1>3, <1>4, <1>5, <1>6 DEF Next, Callback
-----------------------------------------------------------------------------
\* Outside the loop there is no session.
LEMMA LeavesSession ==
    ASSUME TypeInv,
           \/ Start \/ ConnectFails \/ ConnectSucceeds \/ ClearBeforeSession \/ SendHello
           \/ SendReset \/ Rearm \/ ZeroLatest \/ PopNothing \/ Shut \/ Drain
    PROVE  ~InSession'
  <1>1. \E from \in InSender, to \in InSender \ {"loop", "pop", "send"} :
           SenderGoes(from, to)
    BY DEF Start, ConnectFails, ConnectSucceeds, ClearBeforeSession, SendHello, ZeroLatest,
          SendReset, SendControl, Rearm, PopNothing, Shut, Drain, InSender
  <1> QED
    BY <1>1, SenderSteps DEF InSession

\* What the callbacks may do in a session that stays good.
LEMMA GoodEnqueue ==
    ASSUME TypeInv, ReconnectInv, NEW c \in Callbacks, Enqueue(c), Good'
    PROVE  /\ Good /\ base' = base
           /\ \/ Number(c) /\ ~Pending /\ pc'[c] = "push"
              \/ Push(c) /\ Pending /\ ~Pending' /\ pc[c] = "push"
              \/ /\ Pending /\ Pending' /\ pc'[c] # "push"
                 /\ UNCHANGED <<queue, sequence>>
                 /\ pc'[c] \in Holding
           /\ \A d \in Callbacks \ {c} : pc'[d] \notin Holding
           /\ pc[c] \in Holding
  <1> USE DEF peerVars, history
  <1>1. /\ pc'["sender"] = pc["sender"]
        /\ pc[c] \in Holding
        /\ \A d \in Callbacks \ {c} : pc[d] \notin Holding /\ pc'[d] = pc[d]
    BY EnqueueSteps
  <1>2. UNCHANGED <<carried, peer, last>> /\ ~StoreReconnect(c) /\ ~reconnect_requested
    BY EnqueueFrame DEF Good, StoreReconnect
  <1>3. Good /\ base' = base
    BY <1>1, <1>2 DEF Good, base, InSession
  <1>4. pc[c] \notin {"requested", "clear"}
    BY <1>2, <1>3 DEF ReconnectInv, Good, InSession
  <1>5. CASE Number(c)
    BY <1>1, <1>3, <1>5, EnqueueSteps DEF Pending, Holding
  <1>6. CASE Push(c)
    BY <1>1, <1>3, <1>6, EnqueueSteps DEF Pending, Holding
  <1>7. CASE PushRefused(c)
    <2>1. pc[c] = "push" /\ pc'[c] = "overflow" /\ UNCHANGED <<queue, sequence>>
      BY <1>7, EnqueueSteps DEF PushRefused, agentVars
    <2> QED
      BY <1>1, <1>3, <2>1 DEF Pending, Holding
  <1>8. CASE StoreDisconnected(c)
    <2>1. pc[c] = "overflow" /\ pc'[c] = "disconnected" /\ UNCHANGED <<queue, sequence>>
      BY <1>4, <1>8, EnqueueSteps DEF StoreDisconnected
    <2> QED
      BY <1>1, <1>3, <2>1 DEF Pending, Holding
  <1>9. CASE ClearAfterOverflow(c)
    BY <1>4, <1>9, EnqueueSteps
  <1> QED
    BY <1>2, <1>5, <1>6, <1>7, <1>8, <1>9 DEF Enqueue

LEMMA NextNumbers ==
    ASSUME TypeInv, OpenInv, ReconnectInv, NumbersInv, [Next]_vars
    PROVE  NumbersInv'
  <1> USE DEF peerVars, history
  <1> SUFFICES ASSUME Good' PROVE NumbersInv'
    BY DEF NumbersInv
  <1>0. /\ sequence \in Int /\ last \in Int /\ base \in Int
        /\ DOMAIN queue = 1..Len(queue) /\ Len(queue) \in Nat
        /\ \A c \in Callbacks : frame[c] \in Numbered /\ frame[c].seq \in Int
        /\ \A i \in DOMAIN queue : queue[i] \in Numbered /\ queue[i].seq \in Int
    BY NumberedFrames, ElementOfSeq, LenProperties
       DEF TypeInv, CountsInv, FramesInv, QueueInv, base
  <1>1. ASSUME NEW c \in Callbacks, Enqueue(c)
        PROVE  NumbersInv'
    <2>1. /\ pc'["sender"] = pc["sender"] /\ UNCHANGED <<message, last>>
      BY <1>1, EnqueueSteps, EnqueueFrame
    <2>2. /\ Good /\ base' = base
          /\ \A d \in Callbacks \ {c} : pc'[d] # "push"
      BY <1>1, GoodEnqueue DEF Holding
    <2>3. CASE Number(c) /\ ~Pending /\ pc'[c] = "push"
      <3>1. /\ queue' = queue /\ sequence' = sequence + 1
            /\ frame'[c].seq = sequence'
        BY <2>3 DEF Number, NextSequence, TypeInv, FramesInv, Numbered
      <3>2. Pending'
        BY <2>3 DEF Pending
      <3> QED
        BY <1>0, <2>1, <2>2, <2>3, <3>1, <3>2 DEF NumbersInv
    <2>4. CASE Push(c) /\ Pending /\ ~Pending' /\ pc[c] = "push"
      <3>1. queue' = Append(queue, frame[c]) /\ sequence' = sequence
        BY <2>4 DEF Push
      <3>2. /\ DOMAIN queue' = 1..(Len(queue) + 1) /\ Len(queue') = Len(queue) + 1
            /\ \A i \in 1..Len(queue) : queue'[i] = queue[i]
            /\ queue'[Len(queue) + 1] = frame[c]
        BY <1>0, <3>1, AppendElements, AppendProperties DEF TypeInv, QueueInv
      <3>3. frame[c].seq = sequence /\ sequence = base + Len(queue) + 1
        BY <2>2, <2>4 DEF NumbersInv
      <3>4. \A i \in DOMAIN queue' : queue'[i].seq = base' + i
        BY <1>0, <2>2, <3>2, <3>3 DEF NumbersInv
      <3>5. sequence' = base' + Len(queue')
        BY <1>0, <2>2, <3>1, <3>2, <3>3
      <3>6. \A d \in Callbacks : pc'[d] # "push"
        BY <2>4 DEF Pending
      <3>7. pc'["sender"] = "send" => message'.seq = last' + 1
        BY <2>1, <2>2 DEF NumbersInv
      <3> QED
        BY <2>4, <3>4, <3>5, <3>6, <3>7 DEF NumbersInv
    <2>5. CASE /\ Pending /\ Pending' /\ pc'[c] # "push"
               /\ UNCHANGED <<queue, sequence>>
      BY <2>1, <2>2, <2>5 DEF NumbersInv
    <2> QED
      BY <1>1, <2>3, <2>4, <2>5, GoodEnqueue
  <1>2. ASSUME Good, base' = base, Pending' <=> Pending,
               UNCHANGED <<queue, sequence, frame>>,
               \A c \in Callbacks : pc'[c] = "push" => pc[c] = "push",
               pc'["sender"] = "send" => message'.seq = last' + 1
        PROVE  NumbersInv'
    BY <1>2 DEF NumbersInv
  <1>3. CASE BuildContactFrame \/ BuildButtonFrame
    <2>1. PICK c \in Callbacks : pc[c] = "lock" /\ \E n, b : Build(c, n, b)
      BY <1>3 DEF BuildContactFrame, BuildButtonFrame, Callbacks
    <2>2. /\ pc'["sender"] = pc["sender"]
          /\ \A d \in Callbacks : /\ pc[d] \notin {"push", "overflow", "disconnected"}
                                  /\ pc'[d] \notin {"push", "overflow", "disconnected"}
      BY <2>1, BuildSteps DEF Holding
    <2>3. UNCHANGED <<carried, peer, reconnect_requested, queue, sequence, message, last>>
      BY <1>3 DEF BuildContactFrame, BuildButtonFrame
    <2>4. Good /\ base' = base /\ ~Pending /\ ~Pending'
      BY <2>2, <2>3 DEF Good, InSession, base, Pending
    <2> QED
      BY <2>2, <2>3, <2>4 DEF NumbersInv
  <1>4. CASE (\E t \in Touches : ContactFrame(t)) \/ ButtonEvent \/ ButtonChecks
    <2>1. Good /\ base' = base /\ (Pending' <=> Pending)
      BY <1>4, CallSteps DEF Good, InSession, base, Pending
    <2> QED
      BY <1>2, <1>4, <2>1, CallSteps DEF NumbersInv
  <1>5. CASE Main \/ PeerCloses \/ PeerReads \/ stop_agent \/ UNCHANGED vars
    <2>1. Good /\ base' = base /\ (Pending' <=> Pending)
      BY <1>5, OtherSteps DEF Good, InSession, base, Pending
    <2> QED
      BY <1>2, <1>5, <2>1, OtherSteps DEF NumbersInv
  <1>6. CASE Sender
    <2>1. /\ \A c \in Callbacks : pc'[c] = pc[c]
          /\ frame' = frame
          /\ Pending' <=> Pending
      BY <1>6, SenderFrame DEF Pending
    <2>2. CASE Open
      <3>1. /\ pc["sender"] = "open" /\ pc'["sender"] = "loop"
            /\ UNCHANGED <<peer, last, carried, queue, sequence>>
        BY <2>2, SenderSteps DEF Open, InSender
      <3>2. ~carried /\ peer = "open"
        BY <3>1 DEF Good
      <3>3. queue = << >> /\ last = sequence /\ \A c \in Callbacks : ~PastCheck(c)
        BY <3>1, <3>2 DEF OpenInv
      <3>4. ~Pending' /\ (\A c \in Callbacks : pc'[c] # "push") /\ base' = last
        BY <2>1, <3>1, <3>3 DEF Pending, PastCheck, base
      <3>5. DOMAIN queue' = {} /\ Len(queue') = 0
        BY <3>1, <3>3
      <3> QED
        BY <1>0, <3>1, <3>3, <3>4, <3>5 DEF NumbersInv
    <2>3. CASE LoopChecks
      <3>1. /\ pc["sender"] = "loop" /\ pc'["sender"] = "pop"
            /\ UNCHANGED <<peer, last, carried, queue, sequence, reconnect_requested>>
        BY <2>3, SenderSteps DEF LoopChecks, InSender, Good, InSession, agentVars
      <3>2. Good /\ base' = base
        BY <3>1 DEF Good, InSession, base
      <3> QED
        BY <1>2, <2>1, <3>1, <3>2
    <2>4. CASE Pop
      <3>1. /\ pc["sender"] = "pop" /\ pc'["sender"] = "send"
            /\ queue # << >> /\ queue' = Tail(queue) /\ message' = Head(queue)
            /\ UNCHANGED <<peer, last, carried, sequence, reconnect_requested>>
        BY <2>4, SenderSteps DEF Pop, InSender
      <3>2. Good /\ base = last /\ base' = last + 1
        BY <3>1 DEF Good, InSession, base
      <3>3. /\ Len(queue) \in Nat \ {0} /\ Len(queue') = Len(queue) - 1
            /\ message' = queue[1]
            /\ DOMAIN queue' = 1..(Len(queue) - 1)
            /\ \A i \in 1..(Len(queue) - 1) : i + 1 \in 1..Len(queue) /\ queue'[i] = queue[i + 1]
        BY <3>1, TailElements DEF TypeInv, QueueInv
      <3>4. message'.seq = last' + 1
        <4>1. 1 \in DOMAIN queue
          BY <1>0, <3>3
        <4> QED
          BY <3>1, <3>2, <3>3, <4>1 DEF NumbersInv
      <3>5. ASSUME NEW i \in DOMAIN queue'
            PROVE  queue'[i].seq = base' + i
        <4>1. i \in Nat /\ i + 1 \in DOMAIN queue /\ queue'[i] = queue[i + 1]
          BY <1>0, <3>3
        <4>2. queue[i + 1].seq = base + (i + 1)
          BY <3>2, <4>1 DEF NumbersInv
        <4> QED
          BY <1>0, <3>2, <4>1, <4>2
      <3>6. \A c \in Callbacks : pc'[c] = "push" => frame'[c].seq = sequence'
        BY <2>1, <3>1, <3>2 DEF NumbersInv
      <3>7. /\ Pending => sequence = base + Len(queue) + 1
            /\ ~Pending => sequence = base + Len(queue)
        BY <3>2 DEF NumbersInv
      <3>8. /\ Pending' => sequence' = base' + Len(queue') + 1
            /\ ~Pending' => sequence' = base' + Len(queue')
        BY <1>0, <2>1, <3>1, <3>2, <3>3, <3>7
      <3> QED
        BY <3>4, <3>5, <3>6, <3>8 DEF NumbersInv
    <2>5. CASE Send
      <3>1. /\ pc["sender"] = "send" /\ pc'["sender"] = "loop"
            /\ peer = "open" /\ Deliver(message)
            /\ UNCHANGED <<carried, queue, sequence, reconnect_requested>>
        BY <2>5, SenderSteps DEF Send, InSender, agentVars, Good, Deliver
      <3>2. Good /\ base = last + 1
        BY <3>1 DEF Good, InSession, base
      <3>3. message.seq = last + 1
        BY <3>1, <3>2 DEF NumbersInv
      <3>4. last' = last + 1
        BY <3>1, <3>3 DEF Deliver
      <3>5. base' = base
        BY <3>1, <3>2, <3>4 DEF base
      <3> QED
        BY <1>2, <2>1, <3>1, <3>2, <3>5
    <2> QED
      BY <1>6, <2>2, <2>3, <2>4, <2>5, LeavesSession DEF Sender, Good
  <1> QED
    BY <1>1, <1>3, <1>4, <1>5, <1>6 DEF Next, Callback
LEMMA NextWorkingOn ==
    ASSUME TypeInv, WorkingOn, [Next]_vars
    PROVE  WorkingOn'
  <1>1. ASSUME NEW c \in Callbacks, Enqueue(c)
        PROVE  WorkingOn'
    <2>1. /\ latest_frame' = latest_frame
          /\ \A d \in Callbacks \ {c} : pc'[d] \notin {"number", "push"}
      BY <1>1, EnqueueFrame, EnqueueSteps DEF Holding
    <2>2. CASE Number(c)
      <3>1. /\ pc[c] = "number" /\ frame'[c].tips = frame[c].tips
            /\ frame'[c].button = frame[c].button
        BY <2>2 DEF Number, TypeInv, FramesInv, Numbered
      <3> QED
        BY <2>1, <3>1 DEF WorkingOn, Content
    <2>3. CASE ~Number(c)
      BY <1>1, <2>1, <2>3, EnqueueSteps DEF Enqueue, WorkingOn
    <2> QED
      BY <2>2, <2>3
  <1>2. ASSUME UNCHANGED <<frame, latest_frame>>,
               \A c \in Callbacks : pc'[c] \in {"number", "push"} => pc'[c] = pc[c]
        PROVE  WorkingOn'
    BY <1>2 DEF WorkingOn, Content
  <1>3. CASE BuildContactFrame \/ BuildButtonFrame
    <2>1. PICK c \in Callbacks : pc[c] = "lock" /\ \E n, b : Build(c, n, b)
      BY <1>3 DEF BuildContactFrame, BuildButtonFrame, Callbacks
    <2>2. PICK n, b : Build(c, n, b)
      BY <2>1
    <2>3. /\ \A d \in Callbacks \ {c} : pc'[d] \notin {"number", "push"}
          /\ frame'[c] = [tips |-> n, button |-> b, seq |-> 0]
      BY <2>1, <2>2, BuildSteps DEF Holding
    <2>4. latest_frame' = [tips |-> n, button |-> b]
      BY <2>2 DEF Build
    <2> QED
      BY <2>3, <2>4 DEF WorkingOn, Content
  <1>4. CASE (\E t \in Touches : ContactFrame(t)) \/ ButtonEvent \/ ButtonChecks
    BY <1>2, <1>4, CallSteps
  <1>5. CASE Main \/ PeerCloses \/ PeerReads \/ stop_agent \/ UNCHANGED vars
    BY <1>2, <1>5, OtherSteps
  <1>6. CASE ZeroLatest
    BY <1>6, SenderFrame DEF ZeroLatest, Sender, TypeInv, MutexInv, Callbacks, Holding, WorkingOn
  <1>7. CASE Sender /\ ~ZeroLatest
    <2>1. UNCHANGED latest_frame
      BY <1>7 DEF Sender, Start, ConnectFails, ConnectSucceeds, ClearBeforeSession, SendHello,
            SendReset, SendControl, Rearm, Open, LoopChecks, Pop, PopNothing, Send, Shut,
            Drain, agentVars
    <2> QED
      BY <1>2, <1>7, <2>1, SenderFrame
  <1> QED
    BY <1>1, <1>3, <1>4, <1>5, <1>6, <1>7 DEF Next, Callback

LEMMA NextArriving ==
    ASSUME TypeInv, OpenInv, ReconnectInv, NumbersInv, WorkingOn, Arriving, [Next]_vars
    PROVE  Arriving'
  <1> USE DEF peerVars, history
  <1> SUFFICES ASSUME Good', \A c \in Callbacks : pc'[c] \notin Holding
               PROVE  Newest' = latest_frame'
    BY DEF Arriving
  <1>0. queue \in Seq(Numbered) /\ Len(queue) \in Nat
    BY LenProperties DEF TypeInv, QueueInv
  <1>1. ASSUME NEW c \in Callbacks, Enqueue(c)
        PROVE  Newest' = latest_frame'
    <2>1. Push(c) /\ pc[c] = "push"
      <3>1. ~(Number(c) /\ pc'[c] = "push") /\ pc'[c] \notin Holding
        BY DEF Holding
      <3> QED
        BY <1>1, <3>1, GoodEnqueue
    <2>2. frame[c] \in Numbered /\ queue' = Append(queue, frame[c])
      BY <2>1 DEF Push, TypeInv, FramesInv
    <2>3. Len(queue') = Len(queue) + 1 /\ queue'[Len(queue')] = frame[c] /\ queue' # << >>
      <3>1. Len(queue') = Len(queue) + 1 /\ queue'[Len(queue) + 1] = frame[c]
        BY <1>0, <2>2, AppendElements, AppendProperties
      <3>2. queue' # << >>
        BY <1>0, <2>2, AppendProperties
      <3> QED
        BY <3>1, <3>2
    <2>4. Content(frame[c]) = latest_frame /\ latest_frame' = latest_frame
      BY <1>1, <2>1, EnqueueFrame DEF WorkingOn
    <2> QED
      BY <2>3, <2>4 DEF Newest, Content
  <1>2. ASSUME Good, \A c \in Callbacks : pc[c] \notin Holding, Newest' = Newest,
               UNCHANGED latest_frame
        PROVE  Newest' = latest_frame'
    BY <1>2 DEF Arriving
  <1>3. CASE BuildContactFrame \/ BuildButtonFrame
    <2>1. PICK c \in Callbacks : pc[c] = "lock" /\ \E n, b : Build(c, n, b)
      BY <1>3 DEF BuildContactFrame, BuildButtonFrame, Callbacks
    <2>2. pc'[c] = "number"
      BY <2>1, BuildSteps
    <2> QED
      BY <2>2 DEF Holding
  <1>4. CASE (\E t \in Touches : ContactFrame(t)) \/ ButtonEvent \/ ButtonChecks
    <2>1. Good /\ Newest' = Newest /\ UNCHANGED latest_frame
      BY <1>4, CallSteps DEF Good, InSession, Newest, Content
    <2>2. \A c \in Callbacks : pc[c] \notin Holding
      BY <1>4, CallSteps DEF Holding
    <2> QED
      BY <1>2, <2>1, <2>2
  <1>5. CASE Main \/ PeerCloses \/ PeerReads \/ stop_agent \/ UNCHANGED vars
    <2>1. Good /\ Newest' = Newest /\ UNCHANGED latest_frame
      BY <1>5, OtherSteps DEF Good, InSession, Newest, Content
    <2>2. \A c \in Callbacks : pc[c] \notin Holding
      BY <1>5, OtherSteps
    <2> QED
      BY <1>2, <2>1, <2>2
  <1>6. CASE Sender
    <2>1. \A c \in Callbacks : pc[c] \notin Holding
      BY <1>6, SenderFrame
    <2>2. CASE Open
      <3>1. /\ pc["sender"] = "open" /\ pc'["sender"] = "loop"
            /\ UNCHANGED <<peer, carried, queue, windows, latest_frame>>
        BY <2>2, SenderSteps DEF Open, InSender
      <3>2. ~carried /\ peer = "open"
        BY <3>1 DEF Good
      <3>3. queue = << >> /\ windows = Empty /\ latest_frame = Empty
        BY <3>1, <3>2 DEF OpenInv
      <3> QED
        BY <3>1, <3>3 DEF Newest
    <2>3. CASE LoopChecks
      <3>1. /\ pc["sender"] = "loop" /\ pc'["sender"] = "pop"
            /\ UNCHANGED <<peer, windows, carried, queue, latest_frame, reconnect_requested>>
        BY <2>3, SenderSteps DEF LoopChecks, InSender, Good, InSession, agentVars
      <3>2. Good /\ Newest' = Newest
        BY <3>1 DEF Good, InSession, Newest, Content
      <3> QED
        BY <1>2, <2>1, <3>1, <3>2
    <2>4. CASE Pop
      <3>1. /\ pc["sender"] = "pop" /\ pc'["sender"] = "send"
            /\ queue # << >> /\ queue' = Tail(queue) /\ message' = Head(queue)
            /\ UNCHANGED <<peer, carried, reconnect_requested, latest_frame>>
        BY <2>4, SenderSteps DEF Pop, InSender
      <3>2. Good
        BY <3>1 DEF Good, InSession
      <3>3. /\ Len(queue) \in Nat \ {0} /\ Len(queue') = Len(queue) - 1
            /\ message' = queue[1] /\ queue' \in Seq(Numbered)
            /\ \A i \in 1..(Len(queue) - 1) : queue'[i] = queue[i + 1]
        BY <1>0, <3>1, TailElements
      <3>4. CASE Len(queue) = 1
        <4>1. queue' = << >>
          BY <3>3, <3>4, EmptySeq
        <4> QED
          BY <1>2, <2>1, <3>1, <3>2, <3>3, <3>4, <4>1 DEF Newest, Content
      <3>5. CASE Len(queue) # 1
        <4>1. queue' # << >>
          BY <3>3, <3>5, EmptySeq
        <4>2. queue'[Len(queue')] = queue[Len(queue)]
          <5>1. Len(queue) - 1 \in 1..(Len(queue) - 1) /\ (Len(queue) - 1) + 1 = Len(queue)
            BY <3>3, <3>5
          <5> QED
            BY <3>3, <5>1
        <4> QED
          BY <1>2, <2>1, <3>1, <3>2, <4>1, <4>2 DEF Newest, Content
      <3> QED
        BY <3>4, <3>5
    <2>5. CASE Send
      <3>1. /\ pc["sender"] = "send" /\ pc'["sender"] = "loop"
            /\ peer = "open" /\ Deliver(message)
            /\ UNCHANGED <<carried, queue, reconnect_requested, latest_frame>>
        BY <2>5, SenderSteps DEF Send, InSender, agentVars, Good, Deliver
      <3>2. Good
        BY <3>1 DEF Good, InSession
      <3>3. message.seq = last + 1
        BY <3>1, <3>2 DEF NumbersInv
      <3>4. windows' = Content(message)
        BY <3>1, <3>3 DEF Deliver, Content
      <3>5. Newest' = Newest
        BY <3>1, <3>4 DEF Newest, Content
      <3> QED
        BY <1>2, <2>1, <3>1, <3>2, <3>5
    <2> QED
      BY <1>6, <2>2, <2>3, <2>4, <2>5, LeavesSession DEF Sender, Good
  <1> QED
    BY <1>1, <1>3, <1>4, <1>5, <1>6 DEF Next, Callback

LEMMA NextButton ==
    ASSUME TypeInv, OpenInv, ButtonInv, [Next]_vars
    PROVE  ButtonInv'
  <1> USE DEF history
  <1>1. ASSUME UNCHANGED <<latest_frame, buttonVars>>, connected' => connected,
               carried' = carried,
               connected /\ pc["button"] \in {"check", "lock"} =>
                  pc'["button"] \in {"check", "lock"}
        PROVE  ButtonInv'
    BY <1>1 DEF ButtonInv, buttonVars, effective_button_down
  <1>2. ASSUME NEW c \in Callbacks, Enqueue(c)
        PROVE  ButtonInv'
    <2>1. pc["button"] \in {"check", "lock"} => pc'["button"] = pc["button"]
      BY <1>2, EnqueueSteps DEF Holding, Callbacks
    <2> QED
      BY <1>1, <1>2, <2>1, EnqueueFrame
  <1>3. CASE BuildContactFrame
    <2>1. /\ latest_frame'.button => Pressure(touch).down \/ physical_button_down
          /\ pressure_button_down' = Pressure(touch).down
          /\ physical_button_down' = physical_button_down
      BY <1>3 DEF BuildContactFrame, Build
    <2> QED
      BY <2>1 DEF ButtonInv, effective_button_down
  <1>4. CASE BuildButtonFrame
    <2>1. /\ latest_frame'.button => effective_button_down
          /\ UNCHANGED buttonVars
      BY <1>4 DEF BuildButtonFrame, Build
    <2> QED
      BY <2>1 DEF ButtonInv, buttonVars, effective_button_down
  <1>5. CASE \E t \in Touches : ContactFrame(t)
    <2>1. UNCHANGED <<latest_frame, buttonVars, connected, carried>>
      BY <1>5 DEF ContactFrame, agentVars
    <2>2. pc'["button"] = pc["button"]
      BY <1>5, CallbackMoves DEF ContactFrame, TypeInv, Callbacks, InCallback
    <2> QED
      BY <1>1, <2>1, <2>2
  <1>6. CASE ButtonEvent
    <2>1. pc'["button"] = "check"
      BY <1>6, CallbackMoves DEF ButtonEvent, TypeInv, Callbacks, InCallback
    <2> QED
      BY <2>1 DEF ButtonInv
  <1>7. CASE ButtonChecks
    <2>1. UNCHANGED <<latest_frame, buttonVars, connected, carried>>
      BY <1>7 DEF ButtonChecks, agentVars
    <2>2. connected => pc'["button"] = "lock"
      BY <1>7, CallbackMoves DEF ButtonChecks, TypeInv, Callbacks, InCallback
    <2> QED
      BY <1>1, <2>1, <2>2
  <1>8. CASE Main \/ PeerCloses \/ PeerReads \/ stop_agent \/ UNCHANGED vars
    BY <1>1, <1>8, OtherSteps DEF Callbacks
  <1>9. CASE Sender
    <2>1. /\ pc'["button"] = pc["button"]
          /\ UNCHANGED buttonVars
      BY <1>9, SenderFrame DEF Callbacks
    <2>2. CASE Open
      <3>1. /\ pc["sender"] = "open"
            /\ UNCHANGED <<carried, latest_frame>>
        BY <2>2 DEF Open, SenderGoes
      <3>2. ~carried => ~latest_frame.button
        BY <3>1 DEF OpenInv, Empty
      <3> QED
        BY <3>1, <3>2 DEF ButtonInv
    <2>3. CASE ZeroLatest
      BY <2>3 DEF ZeroLatest, Empty, ButtonInv
    <2>4. CASE ConnectSucceeds
      BY <2>4 DEF ConnectSucceeds, SenderGoes, agentVars, OpenInv, ButtonInv
    <2>5. CASE Start \/ ConnectFails \/ ClearBeforeSession \/ SendHello \/ SendReset \/ Rearm
               \/ LoopChecks \/ Pop \/ PopNothing \/ Send \/ Shut \/ Drain
      <3>1. UNCHANGED <<latest_frame, carried>> /\ (connected' => connected)
        BY <2>5 DEF Start, ConnectFails, ClearBeforeSession, SendHello, SendReset,
              SendControl, Rearm, LoopChecks, Pop, PopNothing, Send, Shut, Drain, agentVars
      <3> QED
        BY <1>1, <2>1, <3>1
    <2> QED
      BY <1>9, <2>2, <2>3, <2>4, <2>5 DEF Sender
  <1> QED
    BY <1>2, <1>3, <1>4, <1>5, <1>6, <1>7, <1>8, <1>9 DEF Next, Callback

-----------------------------------------------------------------------------
AgentInvariant ==
    TypeInv /\ OrderInv /\ ReconnectInv /\ ClickInv /\ OpenInv /\ StoresInv /\ NumbersInv
    /\ WorkingOn /\ Arriving /\ ButtonInv

(* The parts hold together in every reachable state: the sender and the    *)
(* two callbacks never disagree on whether a session is open, on what is   *)
(* the latest frame and on which number comes next, unless a reconnect has *)
(* been asked for (main.c:148-176, 310-348, 361-455).                      *)
THEOREM AgentIsInvariant == Spec => []AgentInvariant
  <1>1. Init => AgentInvariant
    BY InitTypes DEF Init, AgentInvariant, OrderInv, ReconnectInv, ClickInv, OpenInv, StoresInv,
       NumbersInv, WorkingOn, Arriving, ButtonInv, Good, InSession, Callbacks, Empty
  <1>2. AgentInvariant /\ [Next]_vars => AgentInvariant'
    BY NextTypes, NextOrder, NextReconnect, NextClick, NextOpen, NextStores, NextNumbers,
       NextWorkingOn, NextArriving, NextButton DEF AgentInvariant
  <1> QED
    BY <1>1, <1>2, PTL DEF Spec

\* A session in which everything has been said is a good one.
LEMMA SettledIsGood ==
    ASSUME AgentInvariant, Settled, ~carried
    PROVE  Good /\ windows = latest_frame
  <1>1. InSession /\ connected /\ peer = "open" /\ \A c \in Callbacks : pc[c] = "idle"
    BY DEF Settled, InSession
  <1>2. Good
    BY <1>1 DEF AgentInvariant, StoresInv, Good
  <1>3. Newest = windows
    BY DEF Newest, Settled
  <1> QED
    BY <1>1, <1>2, <1>3 DEF AgentInvariant, Arriving, Holding

(* A gap in the numbers is sent only when a reconnect has been asked for:  *)
(* in a session no callback has carried over into, the sender leaves the   *)
(* session before the receiver refuses a frame (main.c:166-175, 329-352).  *)
THEOREM GapsReconnect == Spec => []GapOnlyBeforeReconnect
  <1>1. AgentInvariant => GapOnlyBeforeReconnect
    BY DEF AgentInvariant, NumbersInv, Good, InSession, GapOnlyBeforeReconnect
  <1> QED
    BY <1>1, AgentIsInvariant, PTL

(* Once everything is settled Windows has the latest frame, whichever of   *)
(* the two callbacks numbered and pushed it (main.c:148-176, 442-451).     *)
THEOREM LatestReachesWindows == Spec => []WindowsHasLatest
  <1>1. AgentInvariant => WindowsHasLatest
    BY SettledIsGood DEF WindowsHasLatest
  <1> QED
    BY <1>1, AgentIsInvariant, PTL

(* No button stays down at Windows that is up on the trackpad: neither the *)
(* physical one, stored before connected is read (main.c:423-441), nor the *)
(* pressure click (main.c:382-399).                                        *)
THEOREM ButtonIsReleased == Spec => []NoStuckButton
  <1>1. ASSUME AgentInvariant, Settled, ~carried, windows.button
        PROVE  effective_button_down
    <2>1. latest_frame.button /\ connected /\ pc["button"] = "idle"
      BY <1>1, SettledIsGood DEF Settled, Callbacks
    <2> QED
      BY <1>1, <2>1 DEF AgentInvariant, ButtonInv
  <1>2. AgentInvariant => NoStuckButton
    BY <1>1 DEF NoStuckButton
  <1> QED
    BY <1>2, AgentIsInvariant, PTL
=============================================================================
