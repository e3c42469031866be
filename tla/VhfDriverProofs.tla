-------------------------- MODULE VhfDriverProofs ---------------------------
(***************************************************************************)
(* Proofs about the driver: for any number of slots, workers and callback  *)
(* threads and any number of submissions, the handle owns the virtual      *)
(* device, nothing outlives the cleanup, and all of it is a                *)
(* TouchpadDevice.  Invariants that this says of the driver's own          *)
(* variables are stated with their theorems.                               *)
(***************************************************************************)
EXTENDS VhfDriver, FiniteSetTheorems, TLAPS

-----------------------------------------------------------------------------
(* Frames and their reports.                                               *)

LEMMA TouchingSlots ==
    ASSUME NEW f \in Frames
    PROVE  Touching(f) \subseteq Slots
  <1>1. DOMAIN f.contacts \subseteq Slots
    <2>1. CASE f \in [contacts : Contacts, active : Counts, valid : {TRUE}]
      BY <2>1 DEF Contacts
    <2>2. CASE f = Invalid
      BY <2>2 DEF Invalid
    <2> QED
      BY <2>1, <2>2 DEF Frames
  <1> QED
    BY <1>1 DEF Touching

\* Counters start within their ranges.
LEMMA ZeroCounts == 0 \in 0..MaxSubmits /\ 0 \in Counts
  <1>1. Cardinality(Slots) \in Nat
    BY SlotsAssumption, FS_CardinalityType
  <1> QED
    BY <1>1, BoundsAssumption DEF Counts

\* A report has a contact for every slot at most, and counts no more than there
\* are slots (Driver.c:10, 25).
LEMMA ReportType ==
    ASSUME NEW f \in Frames
    PROVE  f.active \in Counts /\ Report(f) \in Reports
  <1>1. f.active \in Counts
    <2>1. CASE f \in [contacts : Contacts, active : Counts, valid : {TRUE}]
      BY <2>1
    <2>2. CASE f = Invalid
      BY <2>2, ZeroCounts DEF Invalid
    <2> QED
      BY <2>1, <2>2 DEF Frames
  <1>2. Touching(f) \in SUBSET Slots
    BY TouchingSlots
  <1> QED
    BY <1>1, <1>2 DEF Report, Reports

LEMMA UntouchedIsReport == Untouched \in Reports
  BY ZeroCounts DEF Untouched, Reports

LEMMA InvalidIsFrame == Invalid \in Frames
  BY DEF Frames

-----------------------------------------------------------------------------
(* The inductive invariant.                                                *)

\* Where the workers, and the callbacks, can be.
WorkerLabels == {"idle", "lock", "check", "submit", "count", "unlock", "query"}
CallbackLabels == {"idle", "get", "set", "unknown"}

ThreadsInv ==
    /\ \A w \in Workers : pc[w] \in WorkerLabels
    /\ \A t \in VhfThreads : pc[t] \in CallbackLabels

\* What the library keeps follows the stage of the device.
StageInv ==
    /\ VhfHandle <=> vhf # "none"
    /\ stage \in {"absent", "preparing"} => vhf = "none"
    /\ stage = "created" => vhf = "created"
    /\ stage \in {"starting", "running"} => vhf = "started"
    /\ stage = "cleanup" => vhf \in {"none", "started", "deleting"}

\* A request runs only in a running device, one at a time, and a callback
\* only in a started one.
RunningInv ==
    /\ \A w \in Workers : pc[w] # "idle" => stage = "running"
    /\ \A v, w \in Workers : pc[v] # "idle" /\ pc[w] # "idle" => v = w
    /\ \A t \in VhfThreads : pc[t] # "idle" => vhf \in {"started", "deleting"}

\* Where a submission has begun to change the status.
Changing(w) == pc[w] \in {"submit", "count"}

\* The status fields at each label, against the last complete submission and
\* against the screen.
StatusInv ==
    /\ \A w \in Workers :
          /\ pc[w] \in {"lock", "check", "submit", "count"} => SubmitCount < MaxSubmits
          /\ Changing(w) => LastActiveContactCount = request[w].active
          /\ pc[w] = "count" /\ LastSubmitStatus = "accepted" =>
                screen = Report(request[w])
    /\ stage \in {"preparing", "created", "starting"} => LastSubmitStatus = "not found"
    /\ (\A w \in Workers : ~Changing(w)) =>
          /\ attempt = [count |-> SubmitCount, status |-> LastSubmitStatus,
                        active |-> LastActiveContactCount]
          /\ stage = "running" /\ LastSubmitStatus = "accepted" =>
                screen.active = LastActiveContactCount

DriverInv == TypeOK /\ ThreadsInv /\ StageInv /\ RunningInv /\ StatusInv

LEMMA InitInv == Init => DriverInv
  <1> SUFFICES ASSUME Init PROVE DriverInv
    OBVIOUS
  <1>1. TypeOK
    <2>2. request \in [Workers -> Frames]
      BY InvalidIsFrame DEF Init
    <2>3. \A w \in Workers : pc[w] = "idle" /\ SubmitLock # w
      BY ThreadsAssumption DEF Init
    <2>4. /\ SubmitCount \in 0..MaxSubmits
          /\ LastActiveContactCount \in Counts
      BY ZeroCounts DEF Init
    <2> QED
      BY <2>2, <2>3, <2>4, UntouchedIsReport, Zenon DEF Init, TypeOK, InputModes
  <1>2. ThreadsInv /\ StageInv /\ RunningInv /\ StatusInv
    BY DEF Init, ThreadsInv, StageInv, RunningInv, StatusInv, Changing,
           WorkerLabels, CallbackLabels
  <1> QED
    BY <1>1, <1>2 DEF DriverInv

-----------------------------------------------------------------------------
(* Plug and Play.                                                          *)

LEMMA MtpEvtDeviceAddInv == DriverInv /\ MtpEvtDeviceAdd => DriverInv'
  <1> SUFFICES ASSUME DriverInv, MtpEvtDeviceAdd PROVE DriverInv'
    OBVIOUS
  <1> USE DEF DriverInv, TypeOK, ThreadsInv, StageInv, RunningInv, StatusInv, Changing,
              io, status
  <1>1. CASE DeviceCreate
    <2>2. \A w \in Workers : pc[w] = "idle" /\ pc'[w] = "idle" /\ SubmitLock' # w
      BY <1>1, ThreadsAssumption DEF DeviceCreate, Fresh
    <2>3. TypeOK'
      <3>1. /\ SubmitCount' \in 0..MaxSubmits
            /\ LastActiveContactCount' \in Counts
        BY <1>1, ZeroCounts DEF DeviceCreate, Fresh
      <3> QED
        BY <1>1, <2>2, <3>1, Zenon DEF DeviceCreate, Fresh, InputModes
    <2>4. ThreadsInv' /\ StageInv' /\ RunningInv'
      BY <1>1, <2>2 DEF DeviceCreate, Fresh
    <2>5. StatusInv'
      BY <1>1, <2>2 DEF DeviceCreate, Fresh
    <2> QED
      BY <2>3, <2>4, <2>5
  <1>2. CASE PrepareFails
    BY <1>2 DEF PrepareFails
  <1>3. CASE VhfCreateSucceeds
    BY <1>3 DEF VhfCreateSucceeds
  <1>4. CASE VhfStartSucceeds
    BY <1>4 DEF VhfStartSucceeds
  <1>5. CASE VhfStartFails
    BY <1>5 DEF VhfStartFails
  <1>6. CASE DeviceAdded
    BY <1>6 DEF DeviceAdded
  <1> QED
    BY <1>1, <1>2, <1>3, <1>4, <1>5, <1>6 DEF MtpEvtDeviceAdd

LEMMA RemoveInv == DriverInv /\ Remove => DriverInv'
  <1> SUFFICES ASSUME DriverInv, Remove PROVE DriverInv'
    OBVIOUS
  <1> USE DEF DriverInv, io, status, Remove
  <1>1. TypeOK' /\ ThreadsInv'
    BY DEF TypeOK, ThreadsInv
  <1>2. StageInv' /\ RunningInv'
    BY DEF StageInv, RunningInv
  <1>3. StatusInv'
    BY DEF StatusInv, Changing
  <1> QED
    BY <1>1, <1>2, <1>3

LEMMA MtpEvtDeviceCleanupInv == DriverInv /\ MtpEvtDeviceCleanup => DriverInv'
  <1> SUFFICES ASSUME DriverInv, MtpEvtDeviceCleanup PROVE DriverInv'
    OBVIOUS
  <1> USE DEF DriverInv, TypeOK, ThreadsInv, StageInv, RunningInv, StatusInv, Changing,
              io, status
  <1>1. CASE NothingToDelete
    BY <1>1 DEF NothingToDelete
  <1>2. CASE VhfDelete
    BY <1>2, UntouchedIsReport DEF VhfDelete
  \* VhfDelete waits: no callback is left that could use the context.
  <1>3. CASE Deleted
    BY <1>3 DEF Deleted, CallbacksDone
  <1> QED
    BY <1>1, <1>2, <1>3 DEF MtpEvtDeviceCleanup

-----------------------------------------------------------------------------
(* The default queue.                                                      *)

LEMMA DispatchInv ==
    ASSUME NEW w \in Workers, DriverInv,
           DispatchQuery(w) \/ \E f \in Frames : DispatchSubmit(w, f)
    PROVE  DriverInv'
  <1> USE DEF DriverInv, TypeOK, ThreadsInv, StageInv, RunningInv, StatusInv, Changing,
              WorkerLabels, CallbackLabels, device, status, QueueReady, Goto
  <1>1. w \notin VhfThreads
    BY ThreadsAssumption
  <1>2. CASE DispatchQuery(w)
    BY <1>1, <1>2 DEF DispatchQuery
  <1>3. CASE \E f \in Frames : DispatchSubmit(w, f)
    <2>1. PICK f \in Frames : DispatchSubmit(w, f)
      BY <1>3
    <2>2. TypeOK'
      BY <1>1, <2>1 DEF DispatchSubmit
    <2>3. ThreadsInv' /\ StageInv' /\ RunningInv'
      BY <1>1, <2>1 DEF DispatchSubmit
    <2>4. StatusInv'
      BY <1>1, <2>1 DEF DispatchSubmit
    <2> QED
      BY <2>2, <2>3, <2>4
  <1> QED
    BY <1>2, <1>3

LEMMA WorkInv ==
    ASSUME NEW w \in Workers, DriverInv, Work(w)
    PROVE  DriverInv'
  <1> USE DEF DriverInv, TypeOK, ThreadsInv, StageInv, RunningInv, StatusInv, Changing,
              WorkerLabels, CallbackLabels, device, status, Goto
  <1>1. w \notin VhfThreads /\ w # "free"
    BY ThreadsAssumption
  <1>2. CASE Acquire(w)
    BY <1>1, <1>2, ThreadsAssumption DEF Acquire
  <1>3. CASE RefuseFrame(w)
    BY <1>1, <1>3 DEF RefuseFrame
  <1>4. CASE BuildReport(w)
    <2>1. TypeOK' /\ ThreadsInv' /\ StageInv' /\ RunningInv'
      BY <1>1, <1>4, ReportType DEF BuildReport
    <2>2. StatusInv'
      BY <1>1, <1>4 DEF BuildReport
    <2> QED
      BY <2>1, <2>2
  <1>5. CASE \E result \in Results : VhfReadReportSubmit(w, result)
    <2>1. PICK result \in Results : VhfReadReportSubmit(w, result)
      BY <1>5
    <2>2. Report(request[w]) \in Reports
      BY ReportType
    <2>3. TypeOK' /\ ThreadsInv' /\ StageInv' /\ RunningInv'
      BY <1>1, <2>1, <2>2 DEF VhfReadReportSubmit
    <2>4. StatusInv'
      BY <1>1, <2>1 DEF VhfReadReportSubmit
    <2> QED
      BY <2>3, <2>4
  <1>6. CASE CountSubmit(w)
    <2>1. SubmitCount' \in 0..MaxSubmits
      <3>1. SubmitCount \in 0..MaxSubmits /\ SubmitCount < MaxSubmits
        BY <1>6 DEF CountSubmit
      <3>2. SubmitCount' = SubmitCount + 1
        BY <1>6 DEF CountSubmit
      <3> HIDE DEF DriverInv
      <3> QED
        BY <3>1, <3>2, BoundsAssumption
    <2>2. TypeOK' /\ ThreadsInv'
      BY <1>1, <1>6, <2>1 DEF CountSubmit
    <2>3. StageInv' /\ RunningInv'
      BY <1>1, <1>6 DEF CountSubmit
    <2>4. StatusInv'
      <3>1. pc[w] = "count" /\ UNCHANGED screen
        BY <1>6 DEF CountSubmit
      <3>2. LastSubmitStatus = "accepted" => screen.active = request[w].active
        BY <3>1 DEF Report
      <3> QED
        BY <1>1, <1>6, <3>1, <3>2 DEF CountSubmit
    <2> QED
      BY <2>2, <2>3, <2>4
  <1>7. CASE Release(w)
    <2>1. TypeOK'
      <3>1. \A v \in Workers :
               pc'[v] \in {"check", "submit", "count", "unlock"} <=> SubmitLock' = v
        BY <1>1, <1>7, ThreadsAssumption DEF Release
      <3>2. request' \in [Workers -> Frames]
        BY <1>7, InvalidIsFrame DEF Release
      <3> QED
        BY <1>1, <1>7, <3>1, <3>2 DEF Release
    <2>2. ThreadsInv' /\ StageInv' /\ RunningInv'
      BY <1>1, <1>7 DEF Release
    <2>3. StatusInv'
      BY <1>1, <1>7 DEF Release
    <2> QED
      BY <2>1, <2>2, <2>3
  <1>8. CASE QueryStatus(w)
    BY <1>1, <1>8 DEF QueryStatus
  <1> QED
    BY <1>2, <1>3, <1>4, <1>5, <1>6, <1>7, <1>8 DEF Work

-----------------------------------------------------------------------------
(* Feature reports.                                                        *)

\* A callback that moves on leaves every other thread where it is.
LEMMA CallbackMoves ==
    ASSUME NEW t \in VhfThreads, NEW label \in CallbackLabels, TypeOK, Goto(t, label)
    PROVE  /\ pc' \in [Workers \cup VhfThreads -> WorkerLabels \cup CallbackLabels]
           /\ \A w \in Workers : pc'[w] = pc[w]
           /\ \A u \in VhfThreads : pc'[u] = IF u = t THEN label ELSE pc[u]
  <1>1. pc \in [Workers \cup VhfThreads -> WorkerLabels \cup CallbackLabels]
    BY DEF TypeOK, WorkerLabels, CallbackLabels
  <1>2. \A w \in Workers : w # t
    BY ThreadsAssumption
  <1> QED
    BY <1>1, <1>2 DEF Goto

\* A feature callback changes its own place and, when Windows sets it, the
\* input mode: only a call, in a started device, leaves the thread busy.
LEMMA CallbackSteps ==
    ASSUME NEW t \in VhfThreads, TypeOK, Call(t) \/ Answer(t)
    PROVE  /\ \E label \in CallbackLabels :
                 Goto(t, label) /\ (label # "idle" => vhf = "started")
           /\ InputMode' \in InputModes
           /\ UNCHANGED <<device, SubmitLock, status, request, reply, attempt, screen>>
  <1>1. InputMode \in InputModes
    BY DEF TypeOK
  <1>2. CASE Call(t)
    BY <1>1, <1>2 DEF Call, CallbackLabels
  <1>3. CASE MtpEvtVhfGetFeature(t)
    BY <1>1, <1>3 DEF MtpEvtVhfGetFeature, CallbackLabels
  <1>4. CASE MtpEvtVhfSetFeature(t)
    BY <1>4 DEF MtpEvtVhfSetFeature, CallbackLabels
  <1>5. CASE RefusePacket(t)
    BY <1>1, <1>5 DEF RefusePacket, CallbackLabels
  <1> QED
    BY <1>2, <1>3, <1>4, <1>5 DEF Answer

LEMMA CallbackInv ==
    ASSUME NEW t \in VhfThreads, DriverInv, Call(t) \/ Answer(t)
    PROVE  DriverInv'
  <1>1. TypeOK /\ ThreadsInv /\ StageInv /\ RunningInv /\ StatusInv
    BY DEF DriverInv
  <1> PICK label \in CallbackLabels : Goto(t, label) /\ (label # "idle" => vhf = "started")
    BY <1>1, CallbackSteps
  <1>2. /\ pc' \in [Workers \cup VhfThreads -> WorkerLabels \cup CallbackLabels]
        /\ \A w \in Workers : pc'[w] = pc[w]
        /\ \A u \in VhfThreads : pc'[u] = IF u = t THEN label ELSE pc[u]
    BY <1>1, CallbackMoves
  <1>3. /\ UNCHANGED <<stage, vhf, VhfHandle, SubmitLock, SubmitCount, LastSubmitStatus,
                       LastActiveContactCount, request, attempt, screen>>
        /\ InputMode' \in InputModes
    BY <1>1, CallbackSteps DEF device, status
  <1>4. TypeOK'
    BY <1>1, <1>2, <1>3 DEF TypeOK, WorkerLabels, CallbackLabels
  <1>5. ThreadsInv'
    BY <1>1, <1>2 DEF ThreadsInv
  <1>6. StageInv'
    BY <1>1, <1>3 DEF StageInv
  <1>7. RunningInv'
    BY <1>1, <1>2, <1>3 DEF RunningInv
  <1>8. StatusInv'
    BY <1>1, <1>2, <1>3 DEF StatusInv, Changing
  <1> QED
    BY <1>4, <1>5, <1>6, <1>7, <1>8 DEF DriverInv

-----------------------------------------------------------------------------
LEMMA NextInv == DriverInv /\ [Next]_vars => DriverInv'
  <1> SUFFICES ASSUME DriverInv, [Next]_vars PROVE DriverInv'
    OBVIOUS
  <1>1. CASE MtpEvtDeviceAdd
    BY <1>1, MtpEvtDeviceAddInv
  <1>2. CASE Remove
    BY <1>2, RemoveInv
  <1>3. CASE MtpEvtDeviceCleanup
    BY <1>3, MtpEvtDeviceCleanupInv
  <1>4. ASSUME NEW w \in Workers,
               DispatchQuery(w) \/ \E f \in Frames : DispatchSubmit(w, f)
        PROVE  DriverInv'
    BY <1>4, DispatchInv
  <1>5. ASSUME NEW w \in Workers, Work(w) PROVE DriverInv'
    BY <1>5, WorkInv
  <1>6. ASSUME NEW t \in VhfThreads, Call(t) \/ Answer(t) PROVE DriverInv'
    BY <1>6, CallbackInv
  <1>7. CASE UNCHANGED vars
    BY <1>7 DEF vars, device, io, status, DriverInv, TypeOK, ThreadsInv, StageInv,
                RunningInv, StatusInv, Changing
  <1> QED
    BY <1>1, <1>2, <1>3, <1>4, <1>5, <1>6, <1>7 DEF Next

(* The parts of the invariant hold together in every reachable state.      *)
THEOREM DriverInvariant == Spec => []DriverInv
  <1> QED
    BY InitInv, NextInv, PTL DEF Spec

(* Every variable of the driver has its type, and SubmitLock is held by    *)
(* the worker between WdfWaitLockAcquire and WdfWaitLockRelease only.      *)
THEOREM TypeCorrect == Spec => []TypeOK
  <1>1. DriverInv => TypeOK
    BY DEF DriverInv
  <1> QED
    BY <1>1, DriverInvariant, PTL

(* Whichever call of MtpEvtDeviceAdd fails, VhfHandle is NULL exactly when *)
(* there is no virtual device to delete.                                   *)
THEOREM HandleIsOwner == Spec => []HandleOwnsVhf
  <1>1. DriverInv => HandleOwnsVhf
    BY DEF DriverInv, StageInv, HandleOwnsVhf
  <1> QED
    BY <1>1, DriverInvariant, PTL

(* A report is only submitted to a virtual device that has been started,   *)
(* whichever stage of MtpEvtDeviceAdd failed and whenever the device is    *)
(* removed (Driver.c:44, 107-113).                                         *)
SubmitsToStarted == \A w \in Workers : pc[w] = "submit" => vhf = "started"

(* VhfReadReportSubmit is never called before VhfStart or after VhfDelete. *)
THEOREM SubmitsInTime == Spec => []SubmitsToStarted
  <1>1. DriverInv => SubmitsToStarted
    BY DEF DriverInv, StageInv, RunningInv, SubmitsToStarted
  <1> QED
    BY <1>1, DriverInvariant, PTL

(* No request and no feature callback of any thread outlives the device    *)
(* context: VhfDelete has waited, and so has the queue.                    *)
THEOREM CleanupIsLast == Spec => []NothingRunsAfterCleanup
  <1>1. DriverInv => NothingRunsAfterCleanup
    BY DEF DriverInv, TypeOK, StageInv, RunningInv, NothingRunsAfterCleanup
  <1> QED
    BY <1>1, DriverInvariant, PTL

(* WdfWaitLockAcquire, which has no time limit, never waits: however a     *)
(* frame was refused and whatever came of the device, the worker that asks *)
(* for SubmitLock finds it free (Driver.c:158-160).                        *)
NobodyWaitsForLock == \A w \in Workers : pc[w] = "lock" => SubmitLock = "free"

(* No worker ever waits in WdfWaitLockAcquire: the safety half of the      *)
(* completion of every request.                                            *)
THEOREM LockIsFree == Spec => []NobodyWaitsForLock
  <1>1. DriverInv => NobodyWaitsForLock
    <2> SUFFICES ASSUME DriverInv, NEW w \in Workers, pc[w] = "lock", SubmitLock # "free"
                 PROVE  FALSE
      BY DEF NobodyWaitsForLock
    <2>1. PICK v \in Workers : SubmitLock = v
      BY DEF DriverInv, TypeOK
    <2>2. pc[v] \in {"check", "submit", "count", "unlock"}
      BY <2>1 DEF DriverInv, TypeOK
    <2> QED
      BY <2>2 DEF DriverInv, RunningInv
  <1> QED
    BY <1>1, DriverInvariant, PTL

\* Windows sees something else after an accepted report and after VhfDelete only.
LEMMA OnlyReportsShow ==
    ASSUME [Next]_vars
    PROVE  \/ UNCHANGED screen
           \/ VhfDelete
           \/ \E w \in Workers, result \in Results : VhfReadReportSubmit(w, result)
  BY DEF Next, vars, MtpEvtDeviceAdd, DeviceCreate, PrepareFails, VhfCreateSucceeds,
         VhfStartSucceeds, VhfStartFails, DeviceAdded, Remove, MtpEvtDeviceCleanup,
         NothingToDelete, Deleted, DispatchQuery, DispatchSubmit, Work, Acquire, RefuseFrame,
         BuildReport, CountSubmit, Release, QueryStatus, Call, Answer, MtpEvtVhfGetFeature,
         MtpEvtVhfSetFeature, RefusePacket

(* The count in the status is the count in the report Windows has: between *)
(* requests, if VHF accepted the last submission, whatever frames the      *)
(* driver itself has refused since (Driver.c:8-34, 42-45).                 *)
StatusMatchesScreen ==
    stage = "running" /\ (\A w \in Workers : pc[w] = "idle") /\ LastSubmitStatus = "accepted"
        => screen.active = LastActiveContactCount

\* The client's part: the count of a frame is that of its touching contacts, as
\* TouchSession.cpp:93-95 makes it.  The driver does not look.
RequestsCounted == \A w \in Workers : request[w].active = Cardinality(Touching(request[w]))

\* What is on the screen is counted right.
ScreenCounted == screen.active = Cardinality(screen.touched)

(* Between requests the status tells how many contacts Windows sees down,  *)
(* if the client counts the contacts of every frame it submits; the driver *)
(* relies on that, it only bounds the count (Driver.c:10, 18, 43).         *)
THEOREM StatusTellsScreen ==
    /\ Spec => []StatusMatchesScreen
    /\ Spec /\ []RequestsCounted =>
          [](StatusMatchesScreen /\ ScreenCounted)
  <1>1. DriverInv => StatusMatchesScreen
    BY DEF DriverInv, StatusInv, Changing, StatusMatchesScreen
  <1>2. Init => ScreenCounted
    <2> SUFFICES ASSUME Init PROVE ScreenCounted
      OBVIOUS
    <2>1. screen.touched = {} /\ screen.active = 0
      BY DEF Init, Untouched
    <2>2. Cardinality({}) = 0
      BY FS_EmptySet
    <2> QED
      BY <2>1, <2>2 DEF ScreenCounted
  <1>3. RequestsCounted /\ ScreenCounted /\ [Next]_vars => ScreenCounted'
    <2> SUFFICES ASSUME RequestsCounted, ScreenCounted, [Next]_vars PROVE ScreenCounted'
      OBVIOUS
    <2>1. CASE UNCHANGED screen
      BY <2>1 DEF ScreenCounted
    <2>2. CASE VhfDelete
      BY <2>2, FS_EmptySet DEF VhfDelete, Untouched, ScreenCounted
    <2>3. ASSUME NEW w \in Workers, NEW result \in Results, VhfReadReportSubmit(w, result)
          PROVE  ScreenCounted'
      <3>1. CASE result = "accepted"
        <4>1. screen' = [touched |-> Touching(request[w]), active |-> request[w].active]
          BY <2>3, <3>1 DEF VhfReadReportSubmit, Report
        <4> QED
          BY <4>1 DEF RequestsCounted, ScreenCounted
      <3>2. CASE result # "accepted"
        BY <2>3, <3>2 DEF VhfReadReportSubmit, ScreenCounted
      <3> QED
        BY <3>1, <3>2
    <2> QED
      BY <2>1, <2>2, <2>3, OnlyReportsShow
  <1> QED
    BY <1>1, <1>2, <1>3, DriverInvariant, PTL DEF Spec

(* A status is a snapshot: its count, its result and its number of         *)
(* contacts belong to the same, the last, submission, although the query   *)
(* does not take the lock (Driver.c:132-151).                              *)
StatusIsSnapshot == [][reply' \notin {reply, NoReply} => reply' = attempt]_vars

(* The fields a status query copies without the lock belong to one, the    *)
(* last, submission.                                                       *)
THEOREM SnapshotWithoutLock == Spec => StatusIsSnapshot
  <1>1. DriverInv /\ [Next]_vars =>
            [reply' \notin {reply, NoReply} => reply' = attempt]_vars
    <2> SUFFICES ASSUME DriverInv, Next, reply' \notin {reply, NoReply}
                 PROVE  reply' = attempt
      OBVIOUS
    <2>1. PICK w \in Workers : QueryStatus(w)
      BY DEF Next, MtpEvtDeviceAdd, DeviceCreate, Fresh, PrepareFails, VhfCreateSucceeds,
             VhfStartSucceeds, VhfStartFails, DeviceAdded, Remove, MtpEvtDeviceCleanup,
             NothingToDelete, VhfDelete, Deleted, DispatchQuery, DispatchSubmit, Work,
             Acquire, RefuseFrame, BuildReport, VhfReadReportSubmit, CountSubmit, Release,
             Call, Answer, MtpEvtVhfGetFeature, MtpEvtVhfSetFeature, RefusePacket, io, status
    <2>2. \A v \in Workers : ~Changing(v)
      BY <2>1 DEF QueryStatus, DriverInv, RunningInv, Changing
    <2> QED
      BY <2>1, <2>2 DEF QueryStatus, DriverInv, StatusInv
  <1> QED
    BY <1>1, DriverInvariant, PTL DEF Spec, StatusIsSnapshot

-----------------------------------------------------------------------------
(* The driver implements TouchpadDevice.                                   *)

\* What the refinement needs beside DriverInv: a touchpad starts with nothing
\* on it and nothing counted, and a submission is counted once.
TouchpadInv ==
    /\ vhf # "started" => screen = Untouched
    /\ stage \in {"preparing", "created"} =>
          attempt = [count |-> 0, status |-> "not found", active |-> 0]
    /\ attempt.count = SubmitCount

LEMMA SameCardinality == \A S : Touchpad!Cardinality(S) = Cardinality(S)
  BY DEF Touchpad!Cardinality, Cardinality

LEMMA InitTouchpadInv == Init => TouchpadInv
  <1> SUFFICES ASSUME Init PROVE TouchpadInv
    OBVIOUS
  <1>1. /\ screen = Untouched /\ SubmitCount = 0
        /\ attempt = [count |-> 0, status |-> "not found", active |-> 0]
    BY DEF Init
  <1> QED
    BY <1>1 DEF TouchpadInv

LEMMA NextTouchpadInv == DriverInv /\ TouchpadInv /\ [Next]_vars => TouchpadInv'
  <1> SUFFICES ASSUME DriverInv, TouchpadInv, [Next]_vars PROVE TouchpadInv'
    OBVIOUS
  <1> USE DEF TouchpadInv
  <1>1. CASE MtpEvtDeviceAdd
    <2>1. CASE DeviceCreate
      BY <1>1, <2>1 DEF DeviceCreate, Fresh
    <2>2. CASE PrepareFails \/ VhfCreateSucceeds \/ VhfStartFails
      BY <2>2 DEF PrepareFails, VhfCreateSucceeds, VhfStartFails, io, status, DriverInv, StageInv
    <2>3. CASE VhfStartSucceeds \/ DeviceAdded
      BY <2>3 DEF VhfStartSucceeds, DeviceAdded, io, status
    <2> QED
      BY <1>1, <2>1, <2>2, <2>3 DEF MtpEvtDeviceAdd
  <1>2. CASE Remove
    BY <1>2 DEF Remove, io, status
  <1>3. CASE MtpEvtDeviceCleanup
    BY <1>3 DEF MtpEvtDeviceCleanup, NothingToDelete, VhfDelete, Deleted, io, status
  \* No worker runs while a device is prepared, and none submits unless it is
  \* started, so the first two parts are about other states.
  <1>4. ASSUME NEW w \in Workers,
               DispatchQuery(w) \/ (\E f \in Frames : DispatchSubmit(w, f)) \/ Work(w)
        PROVE  TouchpadInv'
    <2>1. CASE CountSubmit(w)
      BY <2>1 DEF CountSubmit, device, DriverInv, RunningInv
    <2>2. CASE \E result \in Results : VhfReadReportSubmit(w, result)
      BY <2>2 DEF VhfReadReportSubmit, device, DriverInv, RunningInv, StageInv
    <2>3. CASE UNCHANGED <<device, SubmitCount, attempt, screen>>
      BY <2>3 DEF device
    <2> QED
      BY <1>4, <2>1, <2>2, <2>3 DEF DispatchQuery, DispatchSubmit, Work, Acquire, RefuseFrame,
         BuildReport, Release, QueryStatus, status
  <1>5. ASSUME NEW t \in VhfThreads, Call(t) \/ Answer(t) PROVE TouchpadInv'
    BY <1>5 DEF Call, Answer, MtpEvtVhfGetFeature, MtpEvtVhfSetFeature, RefusePacket,
                device, status
  <1>6. CASE UNCHANGED vars
    BY <1>6 DEF vars, device, io, status
  <1> QED
    BY <1>1, <1>2, <1>3, <1>4, <1>5, <1>6 DEF Next

LEMMA NobodyCounts == (\A w \in Workers : pc[w] # "count") => Tally = attempt
  BY DEF Tally

LEMMA NobodyCountsNext == (\A w \in Workers : pc'[w] # "count") => Tally' = attempt'
  BY DEF Tally

\* A step that moves no worker to or from VhfReadReportSubmit leaves the tally.
LEMMA TallyStays ==
    ASSUME UNCHANGED <<status, attempt>>,
           \A w \in Workers : pc'[w] = "count" <=> pc[w] = "count"
    PROVE  Tally' = Tally
  BY DEF Tally, status

\* Steps that cannot be seen from outside.
LEMMA Unseen ==
    ASSUME vhf' = "started" <=> vhf = "started", UNCHANGED <<screen, reply>>, Tally' = Tally
    PROVE  UNCHANGED Touchpad!touchpad
  BY DEF Touchpad!touchpad

\* Plug and Play: a touchpad arrives when VhfStart succeeds and leaves when
\* VhfDelete is called; what fails before is not seen.
LEMMA PnpFollows ==
    ASSUME DriverInv, TouchpadInv, MtpEvtDeviceAdd \/ Remove \/ MtpEvtDeviceCleanup
    PROVE  [Touchpad!Next]_Touchpad!touchpad
  <1>1. CASE DeviceCreate
    <2>1. ~(vhf = "started") /\ ~(vhf' = "started") /\ UNCHANGED screen
      BY <1>1 DEF DeviceCreate, DriverInv, StageInv
    <2>2. \A w \in Workers : pc'[w] # "count"
      BY <1>1 DEF DeviceCreate, DriverInv, RunningInv
    <2>3. Tally' = Touchpad!Unused /\ reply' = Touchpad!NoAnswer
      BY <1>1, <2>2, NobodyCountsNext DEF DeviceCreate, Fresh, NoReply, Touchpad!Unused,
         Touchpad!NoAnswer
    <2>4. Touchpad!Prepare
      BY <2>1, <2>3 DEF Touchpad!Prepare
    <2> QED
      BY <2>4 DEF Touchpad!Next
  <1>2. CASE VhfStartSucceeds
    <2>1. \A w \in Workers : pc[w] # "count" /\ pc'[w] # "count"
      BY <1>2 DEF VhfStartSucceeds, io, DriverInv, RunningInv
    <2>2. Tally = attempt /\ Tally' = attempt'
      BY <2>1, NobodyCounts, NobodyCountsNext
    <2>3. /\ ~(vhf = "started") /\ vhf' = "started"
          /\ UNCHANGED <<screen, reply, attempt>> /\ screen = Touchpad!Untouched
      BY <1>2 DEF VhfStartSucceeds, io, DriverInv, StageInv, TouchpadInv, Untouched,
         Touchpad!Untouched
    <2>4. attempt = Touchpad!Unused
      BY <1>2 DEF VhfStartSucceeds, TouchpadInv, Touchpad!Unused
    <2>5. Touchpad!Arrive
      BY <2>2, <2>3, <2>4 DEF Touchpad!Arrive
    <2> QED
      BY <2>5 DEF Touchpad!Next
  <1>3. CASE VhfDelete
    <2>1. vhf = "started" /\ ~(vhf' = "started") /\ screen' = Touchpad!Untouched /\ UNCHANGED io
      BY <1>3 DEF VhfDelete, DriverInv, StageInv, Untouched, Touchpad!Untouched
    <2>2. Tally' = Tally /\ UNCHANGED reply
      BY <2>1, TallyStays DEF io
    <2>3. Touchpad!Leave
      BY <2>1, <2>2 DEF Touchpad!Leave
    <2> QED
      BY <2>3 DEF Touchpad!Next
  <1>4. CASE PrepareFails \/ VhfCreateSucceeds \/ VhfStartFails \/ DeviceAdded \/ Remove
             \/ NothingToDelete \/ Deleted
    <2>1. (vhf' = "started" <=> vhf = "started") /\ UNCHANGED <<io, screen>>
      BY <1>4 DEF PrepareFails, VhfCreateSucceeds, VhfStartFails, DeviceAdded, Remove,
         NothingToDelete, Deleted, DriverInv, StageInv
    <2>2. Tally' = Tally /\ UNCHANGED reply
      BY <2>1, TallyStays DEF io
    <2> QED
      BY <2>1, <2>2, Unseen
  <1> QED
    BY <1>1, <1>2, <1>3, <1>4 DEF MtpEvtDeviceAdd, MtpEvtDeviceCleanup

\* The queue's requests: a submission takes effect where VHF answers it, a
\* query where it copies the status; the steps around them are not seen.
LEMMA WorkFollows ==
    ASSUME NEW w \in Workers, DriverInv, TouchpadInv,
           DispatchQuery(w) \/ (\E f \in Frames : DispatchSubmit(w, f)) \/ Work(w)
    PROVE  [Touchpad!Next]_Touchpad!touchpad
  <1> USE DEF Goto
  <1>1. /\ \A v \in Workers : pc[v] # "idle" /\ pc[w] # "idle" => v = w
        /\ pc[w] # "idle" => vhf = "started"
    BY DEF DriverInv, RunningInv, StageInv
  <1>2. CASE \E result \in Results : VhfReadReportSubmit(w, result)
    <2>1. PICK result \in Results : VhfReadReportSubmit(w, result)
      BY <1>2
    <2> DEFINE report == Report(request[w])
    <2>2. pc[w] = "submit" /\ vhf = "started" /\ UNCHANGED <<vhf, reply>>
      BY <1>1, <2>1 DEF VhfReadReportSubmit, device
    <2>3. Tally = attempt
      BY <1>1, <2>2, NobodyCounts
    <2>4. /\ pc'[w] = "count"
          /\ LastSubmitStatus' = result /\ SubmitCount' = SubmitCount
          /\ LastActiveContactCount' = report.active
          /\ screen' = IF result = "accepted" THEN report ELSE screen
      BY <2>1 DEF VhfReadReportSubmit, Report, DriverInv, TypeOK, StatusInv, Changing
    <2>5. report \in Touchpad!Reports
      BY ReportType, SameCardinality DEF DriverInv, TypeOK, Reports, Counts, Touchpad!Reports
    <2> HIDE DEF report
    <2>6. Tally' = [count |-> Tally.count + 1, status |-> result, active |-> report.active]
      BY <2>3, <2>4 DEF Tally, TouchpadInv
    <2>7. Touchpad!Submit(report, result)
      BY <2>2, <2>4, <2>6 DEF Touchpad!Submit
    <2> QED
      BY <2>5, <2>7 DEF Touchpad!Next, Results
  <1>3. CASE CountSubmit(w)
    <2>1. pc[w] = "count" /\ \A v \in Workers : pc'[v] # "count"
      BY <1>1, <1>3 DEF CountSubmit, DriverInv, TypeOK
    <2>2. Tally' = Tally
      <3>1. Tally' = [count |-> SubmitCount + 1, status |-> LastSubmitStatus,
                      active |-> request[w].active]
        BY <1>3, <2>1, NobodyCountsNext DEF CountSubmit
      <3>2. LastActiveContactCount = request[w].active
        BY <2>1 DEF DriverInv, StatusInv, Changing
      <3> QED
        BY <2>1, <3>1, <3>2 DEF Tally
    <2> QED
      BY <1>3, <2>2, Unseen DEF CountSubmit, device
  <1>4. CASE BuildReport(w)
    <2>1. \A v \in Workers : pc[v] # "count" /\ pc'[v] # "count"
      BY <1>1, <1>4 DEF BuildReport, DriverInv, TypeOK
    <2>2. Tally' = Tally
      BY <1>4, <2>1, NobodyCounts, NobodyCountsNext DEF BuildReport
    <2> QED
      BY <1>4, <2>2, Unseen DEF BuildReport, device
  <1>5. CASE QueryStatus(w)
    <2>1. \A v \in Workers : pc[v] # "count" /\ pc'[v] # "count" /\ ~Changing(v)
      BY <1>1, <1>5 DEF QueryStatus, Changing, DriverInv, TypeOK
    <2>2. Tally = attempt /\ Tally' = attempt' /\ UNCHANGED <<attempt, vhf, screen>>
      BY <1>5, <2>1, NobodyCounts, NobodyCountsNext DEF QueryStatus, device
    <2>3. reply' = Tally
      BY <1>5, <2>1, <2>2 DEF QueryStatus, DriverInv, StatusInv
    <2>4. vhf = "started"
      BY <1>1, <1>5 DEF QueryStatus
    <2>5. Touchpad!Query
      BY <2>2, <2>3, <2>4 DEF Touchpad!Query
    <2> QED
      BY <2>5 DEF Touchpad!Next
  <1>6. CASE \/ DispatchQuery(w) \/ (\E f \in Frames : DispatchSubmit(w, f))
             \/ Acquire(w) \/ RefuseFrame(w) \/ Release(w)
    <2>1. UNCHANGED <<status, attempt, vhf, screen, reply>>
      BY <1>6 DEF DispatchQuery, DispatchSubmit, Acquire, RefuseFrame, Release, device, status
    <2>2. \A v \in Workers : pc'[v] = "count" <=> pc[v] = "count"
      BY <1>6 DEF DispatchQuery, DispatchSubmit, Acquire, RefuseFrame, Release, DriverInv, TypeOK
    <2> QED
      BY <2>1, <2>2, TallyStays, Unseen
  <1> QED
    BY <1>2, <1>3, <1>4, <1>5, <1>6 DEF Work

LEMMA CallbackUnseen ==
    ASSUME NEW t \in VhfThreads, DriverInv, Call(t) \/ Answer(t)
    PROVE  UNCHANGED Touchpad!touchpad
  <1>1. UNCHANGED <<status, attempt, vhf, screen, reply>>
    BY DEF Call, Answer, MtpEvtVhfGetFeature, MtpEvtVhfSetFeature, RefusePacket, device, status
  <1>2. \A w \in Workers : pc'[w] = pc[w]
    BY ThreadsAssumption DEF Call, Answer, MtpEvtVhfGetFeature, MtpEvtVhfSetFeature, RefusePacket,
       Goto, DriverInv, TypeOK
  <1> QED
    BY <1>1, <1>2, TallyStays, Unseen

(* Whatever Plug and Play, the queue's workers and the callbacks do at the *)
(* same time, the driver is a touchpad on which whole reports appear one   *)
(* at a time with the status that tells of them (Driver.c:3-162).          *)
THEOREM DriverIsTouchpad == Spec => ImplementsTouchpad
  <1>1. Init => Touchpad!Init
    <2> SUFFICES ASSUME Init PROVE Touchpad!Init
      OBVIOUS
    <2>1. Tally = attempt
      BY NobodyCounts DEF Init
    <2> QED
      BY <2>1 DEF Init, NoReply, Untouched, Touchpad!Init, Touchpad!Untouched, Touchpad!Unused,
         Touchpad!NoAnswer
  <1>2. DriverInv /\ TouchpadInv /\ [Next]_vars => [Touchpad!Next]_Touchpad!touchpad
    <2> SUFFICES ASSUME DriverInv, TouchpadInv, [Next]_vars
                 PROVE  [Touchpad!Next]_Touchpad!touchpad
      OBVIOUS
    <2>1. CASE UNCHANGED vars
      BY <2>1, TallyStays, Unseen DEF vars, device, io
    <2>2. CASE MtpEvtDeviceAdd \/ Remove \/ MtpEvtDeviceCleanup
      BY <2>2, PnpFollows
    <2>3. ASSUME NEW w \in Workers,
                 DispatchQuery(w) \/ (\E f \in Frames : DispatchSubmit(w, f)) \/ Work(w)
          PROVE  [Touchpad!Next]_Touchpad!touchpad
      BY <2>3, WorkFollows
    <2>4. ASSUME NEW t \in VhfThreads, Call(t) \/ Answer(t)
          PROVE  [Touchpad!Next]_Touchpad!touchpad
      BY <2>4, CallbackUnseen
    <2> QED
      BY <2>1, <2>2, <2>3, <2>4 DEF Next
  <1>3. Spec => []TouchpadInv
    BY InitTouchpadInv, NextTouchpadInv, DriverInvariant, PTL DEF Spec
  <1> QED
    BY <1>1, <1>2, <1>3, DriverInvariant, PTL DEF Spec, ImplementsTouchpad, Touchpad!Spec
=============================================================================
