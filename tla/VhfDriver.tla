----------------------------- MODULE VhfDriver -----------------------------
(***************************************************************************)
(* The kernel driver, windows/driver/Driver.c: a virtual HID device that   *)
(* is created in stages, torn down in one callback, fed by IOCTLs from the *)
(* receiver, and asked by Windows for feature reports at any time.         *)
(*                                                                         *)
(* Three kinds of threads meet in one DEVICE_CONTEXT: Plug and Play, which *)
(* adds and removes the device, the workers that run a request of the      *)
(* default queue, and the threads of the VHF library.  The libraries (WDF  *)
(* and VHF) are external: how they may call the driver is modelled from    *)
(* the configuration the driver gives them.                                *)
(***************************************************************************)
EXTENDS Integers, FiniteSets

CONSTANTS
    Slots,       \* HID contact slots, 0 .. MTP_HID_MAX_CONTACTS - 1
    Workers,     \* threads WDF may run a request on
    VhfThreads,  \* threads VHF may run a feature callback on
    MaxSubmits   \* bound: submissions that are counted

ASSUME SlotsAssumption   == IsFiniteSet(Slots)
\* "free" is the lock's own value.
ASSUME ThreadsAssumption == Workers \cap VhfThreads = {} /\ "free" \notin Workers
ASSUME BoundsAssumption  == MaxSubmits \in Nat

VARIABLES
    stage,                  \* how far Plug and Play has got with the device
    vhf,                    \* the virtual HID device the VHF library keeps
    VhfHandle,              \* whether the context's handle is not NULL
    SubmitLock,             \* the worker that holds it, or "free"
    SubmitCount,
    LastSubmitStatus,
    LastActiveContactCount,
    InputMode,              \* what Windows has set, and FunctionSwitch likewise
    pc,                     \* what each worker and each VHF thread does
    request,                \* the frame a worker has been given, if any
    reply,                  \* the last status answered, or NoReply
    attempt,                \* history: what the last submission left behind
    screen                  \* the last report Windows has taken

device == <<stage, vhf, VhfHandle>>
status == <<SubmitCount, LastSubmitStatus, LastActiveContactCount>>
io == <<SubmitLock, status, InputMode, pc, request, reply, attempt>>
vars == <<device, io, screen>>

-----------------------------------------------------------------------------
\* An MTP_IOCTL_FRAME lists contacts, each touching (TIP) or lifted, and has a
\* field for how many are active, which the driver takes as it comes; or a
\* field of its header or of one of its contacts is out of range.
Contacts == UNION {[S -> BOOLEAN] : S \in SUBSET Slots}
Touching(f) == {s \in DOMAIN f.contacts : f.contacts[s]}
Counts == 0..Cardinality(Slots)
Invalid == [contacts |-> << >>, active |-> 0, valid |-> FALSE]
Frames == [contacts : Contacts, active : Counts, valid : {TRUE}] \cup {Invalid}

\* An MTP_PTP_REPORT: the slots with Tip, and ContactCount.
Reports == [touched : SUBSET Slots, active : Counts]
Untouched == [touched |-> {}, active |-> 0]

NoReply == [count |-> -1, status |-> "none", active |-> 0]

\* VHF accepts a report or refuses it.
Results == {"accepted", "refused"}

\* WDF zeroes the context.
Fresh ==
    /\ VhfHandle' = FALSE
    /\ SubmitLock' = "free"
    /\ SubmitCount' = 0
    /\ LastSubmitStatus' = "not found"
    /\ LastActiveContactCount' = 0
    /\ InputMode' = 0
    /\ reply' = NoReply
    /\ attempt' = [count |-> 0, status |-> "not found", active |-> 0]

Init ==
    /\ stage = "absent"
    /\ vhf = "none"
    /\ VhfHandle = FALSE
    /\ SubmitLock = "free"
    /\ SubmitCount = 0
    /\ LastSubmitStatus = "not found"
    /\ LastActiveContactCount = 0
    /\ InputMode = 0
    /\ pc = [t \in Workers \cup VhfThreads |-> "idle"]
    /\ request = [w \in Workers |-> Invalid]
    /\ reply = NoReply
    /\ attempt = [count |-> 0, status |-> "not found", active |-> 0]
    /\ screen = Untouched

-----------------------------------------------------------------------------
(* Plug and Play: MtpEvtDeviceAdd and MtpEvtDeviceCleanup                  *)

\* The device object exists; its symbolic link, lock and queue come next.
DeviceCreate ==
    /\ stage = "absent"
    /\ stage' = "preparing"
    /\ Fresh
    /\ UNCHANGED <<vhf, pc, request, screen>>

\* WdfDeviceCreateSymbolicLink, WdfWaitLockCreate, WdfIoQueueCreate or
\* VhfCreate fails.
PrepareFails ==
    /\ stage = "preparing"
    /\ stage' = "cleanup"
    /\ UNCHANGED <<vhf, VhfHandle, io, screen>>

VhfCreateSucceeds ==
    /\ stage = "preparing"
    /\ stage' = "created"
    /\ vhf' = "created"
    /\ VhfHandle' = TRUE
    /\ UNCHANGED <<io, screen>>

\* Windows enumerates the child device and may ask for feature reports
\* before VhfStart has returned.
VhfStartSucceeds ==
    /\ stage = "created"
    /\ stage' = "starting"
    /\ vhf' = "started"
    /\ UNCHANGED <<VhfHandle, io, screen>>

DeviceAdded ==
    /\ stage = "starting"
    /\ stage' = "running"
    /\ UNCHANGED <<vhf, VhfHandle, io, screen>>

\* The device is deleted again, so WDF calls MtpEvtDeviceCleanup later.
VhfStartFails_KeepsHandle ==
    /\ stage = "created"
    /\ stage' = "cleanup"
    /\ vhf' = "none"
    /\ UNCHANGED <<VhfHandle, io, screen>>

VhfStartFails_Succeeds ==
    /\ stage = "created"
    /\ stage' = "running"
    /\ UNCHANGED <<vhf, VhfHandle, io, screen>>

VhfStartFails ==
    /\ stage = "created"
    /\ stage' = "cleanup"
    /\ vhf' = "none"
    /\ VhfHandle' = FALSE
    /\ UNCHANGED <<io, screen>>

\* WDF stops the queue and waits for its request before the device goes.
Remove ==
    /\ stage = "running"
    /\ \A w \in Workers : pc[w] = "idle"
    /\ stage' = "cleanup"
    /\ UNCHANGED <<vhf, VhfHandle, io, screen>>

NothingToDelete ==
    /\ stage = "cleanup"
    /\ ~VhfHandle
    /\ stage' = "absent"
    /\ UNCHANGED <<vhf, VhfHandle, io, screen>>

\* VhfDelete makes no further callbacks; Windows drops the touchpad with
\* everything on it.
VhfDelete ==
    /\ stage = "cleanup"
    /\ VhfHandle
    /\ vhf # "deleting"
    /\ vhf' = "deleting"
    /\ screen' = Untouched
    /\ UNCHANGED <<stage, VhfHandle, io>>

\* With Wait = TRUE it returns when the running callbacks have completed.
CallbacksDone_NoWait == TRUE
CallbacksDone == \A t \in VhfThreads : pc[t] = "idle"

Deleted ==
    /\ vhf = "deleting"
    /\ CallbacksDone
    /\ vhf' = "none"
    /\ VhfHandle' = FALSE
    /\ stage' = "absent"
    /\ UNCHANGED <<io, screen>>

MtpEvtDeviceCleanup == NothingToDelete \/ VhfDelete \/ Deleted

-----------------------------------------------------------------------------
(* The default queue: MtpEvtIoDeviceControl and SubmitIoctlFrame           *)

\* The queue is sequential: it hands out one request at a time.
QueueReady_Parallel == stage = "running"
QueueReady == stage = "running" /\ \A w \in Workers : pc[w] = "idle"

Goto(t, label) == pc' = [pc EXCEPT ![t] = label]

DispatchSubmit(w, f) ==
    /\ QueueReady
    /\ pc[w] = "idle"
    /\ SubmitCount < MaxSubmits
    /\ request' = [request EXCEPT ![w] = f]
    /\ Goto(w, "lock")
    /\ UNCHANGED <<device, SubmitLock, status, InputMode, reply, attempt, screen>>

DispatchQuery(w) ==
    /\ QueueReady
    /\ pc[w] = "idle"
    /\ Goto(w, "query")
    /\ UNCHANGED <<device, SubmitLock, status, InputMode, request, reply, attempt, screen>>

Acquire(w) ==
    /\ pc[w] = "lock"
    /\ SubmitLock = "free"
    /\ SubmitLock' = w
    /\ Goto(w, "check")
    /\ UNCHANGED <<device, status, InputMode, request, reply, attempt, screen>>

RefuseFrame_KeepsLock(w) ==
    /\ pc[w] = "check"
    /\ ~request[w].valid
    /\ Goto(w, "idle")
    /\ UNCHANGED <<device, SubmitLock, status, InputMode, request, reply, attempt, screen>>

\* STATUS_INVALID_PARAMETER
RefuseFrame(w) ==
    /\ pc[w] = "check"
    /\ ~request[w].valid
    /\ Goto(w, "unlock")
    /\ UNCHANGED <<device, SubmitLock, status, InputMode, request, reply, attempt, screen>>

BuildReport(w) ==
    /\ pc[w] = "check"
    /\ request[w].valid
    /\ LastActiveContactCount' = request[w].active
    /\ Goto(w, "submit")
    /\ UNCHANGED <<device, SubmitLock, SubmitCount, LastSubmitStatus, InputMode, request, reply,
                   attempt, screen>>

\* Mutants: every listed contact is down; the report counts for itself.
Report_IgnoresTip(f) == [touched |-> DOMAIN f.contacts, active |-> f.active]
Report_CountsTips(f) == [touched |-> Touching(f), active |-> Cardinality(Touching(f))]

\* The report starts from zeroes: a slot the frame does not list is up.
Report(f) == [touched |-> Touching(f), active |-> f.active]

VhfReadReportSubmit(w, result) ==
    /\ pc[w] = "submit"
    /\ LastSubmitStatus' = result
    /\ screen' = IF result = "accepted" THEN Report(request[w]) ELSE screen
    /\ Goto(w, "count")
    /\ UNCHANGED <<device, SubmitLock, SubmitCount, LastActiveContactCount, InputMode, request,
                   reply, attempt>>

\* Mutant: only a report that VHF has accepted is counted.
CountSubmit_OnlyAccepted(w) ==
    /\ pc[w] = "count"
    /\ SubmitCount' = SubmitCount + (IF LastSubmitStatus = "accepted" THEN 1 ELSE 0)
    /\ attempt' = [count |-> SubmitCount', status |-> LastSubmitStatus,
                   active |-> request[w].active]
    /\ Goto(w, "unlock")
    /\ UNCHANGED <<device, SubmitLock, LastSubmitStatus, LastActiveContactCount, InputMode, request,
                   reply, screen>>

CountSubmit(w) ==
    /\ pc[w] = "count"
    /\ SubmitCount' = SubmitCount + 1
    /\ attempt' = [count |-> SubmitCount', status |-> LastSubmitStatus,
                   active |-> request[w].active]
    /\ Goto(w, "unlock")
    /\ UNCHANGED <<device, SubmitLock, LastSubmitStatus, LastActiveContactCount, InputMode, request,
                   reply, screen>>

\* WdfWaitLockRelease and WdfRequestComplete; the buffer is gone with it.
Release(w) ==
    /\ pc[w] = "unlock"
    /\ SubmitLock' = "free"
    /\ request' = [request EXCEPT ![w] = Invalid]
    /\ Goto(w, "idle")
    /\ UNCHANGED <<device, status, InputMode, reply, attempt, screen>>

\* The lock is not taken.  The feature fields that are copied as well are
\* read while callbacks may be running and promise nothing.
QueryStatus(w) ==
    /\ pc[w] = "query"
    /\ reply' = [count |-> SubmitCount, status |-> LastSubmitStatus,
                 active |-> LastActiveContactCount]
    /\ Goto(w, "idle")
    /\ UNCHANGED <<device, SubmitLock, status, InputMode, request, attempt, screen>>

-----------------------------------------------------------------------------
(* Feature reports: MtpEvtVhfGetFeature and MtpEvtVhfSetFeature            *)

\* Mouse and Windows Precision Touchpad.
InputModes == {0, 3}

\* The callback has a packet: a report it knows, or not.
Call(t) ==
    /\ vhf = "started"
    /\ pc[t] = "idle"
    /\ \E label \in {"get", "set", "unknown"} : Goto(t, label)
    /\ UNCHANGED <<device, SubmitLock, status, InputMode, request, reply, attempt, screen>>

MtpEvtVhfGetFeature(t) ==
    /\ pc[t] = "get"
    /\ Goto(t, "idle")
    /\ UNCHANGED <<device, SubmitLock, status, InputMode, request, reply, attempt, screen>>

MtpEvtVhfSetFeature(t) ==
    /\ pc[t] = "set"
    /\ InputMode' \in InputModes
    /\ Goto(t, "idle")
    /\ UNCHANGED <<device, SubmitLock, status, request, reply, attempt, screen>>

RefusePacket_NotCompleted(t) == pc[t] = "unknown" /\ UNCHANGED vars

\* STATUS_INVALID_PARAMETER completes the operation as well.
RefusePacket(t) ==
    /\ pc[t] = "unknown"
    /\ Goto(t, "idle")
    /\ UNCHANGED <<device, SubmitLock, status, InputMode, request, reply, attempt, screen>>

Answer(t) == MtpEvtVhfGetFeature(t) \/ MtpEvtVhfSetFeature(t) \/ RefusePacket(t)

-----------------------------------------------------------------------------
Work(w) ==
    \/ Acquire(w) \/ RefuseFrame(w) \/ BuildReport(w)
    \/ \E result \in Results : VhfReadReportSubmit(w, result)
    \/ CountSubmit(w) \/ Release(w) \/ QueryStatus(w)

MtpEvtDeviceAdd ==
    \/ DeviceCreate \/ PrepareFails \/ VhfCreateSucceeds
    \/ VhfStartSucceeds \/ VhfStartFails \/ DeviceAdded

Next ==
    \/ MtpEvtDeviceAdd \/ Remove \/ MtpEvtDeviceCleanup
    \/ \E w \in Workers :
          \/ DispatchQuery(w)
          \/ \E f \in Frames : DispatchSubmit(w, f)
          \/ Work(w)
    \/ \E t \in VhfThreads : Call(t) \/ Answer(t)

Spec == Init /\ [][Next]_vars

(* Code of the driver that is running keeps running, WDF calls the cleanup *)
(* callback, and VhfDelete returns once it can.  Nothing else is assumed   *)
(* of Windows, and nothing of the receiver.                                *)
FairSpec ==
    /\ Spec
    /\ \A w \in Workers : WF_vars(Work(w))
    /\ \A t \in VhfThreads : WF_vars(Answer(t))
    /\ WF_vars(MtpEvtDeviceCleanup)

-----------------------------------------------------------------------------
(* Every variable has its type, and the lock is held exactly by a worker   *)
(* between Acquire and Release.                                            *)
TypeOK ==
    /\ stage \in {"absent", "preparing", "created", "starting", "running", "cleanup"}
    /\ vhf \in {"none", "created", "started", "deleting"}
    /\ VhfHandle \in BOOLEAN
    /\ SubmitLock \in Workers \cup {"free"}
    /\ SubmitCount \in 0..MaxSubmits
    /\ LastSubmitStatus \in Results \cup {"not found"}
    /\ LastActiveContactCount \in Counts
    /\ InputMode \in InputModes
    /\ pc \in [Workers \cup VhfThreads ->
                  {"idle", "lock", "check", "submit", "count", "unlock", "query",
                   "get", "set", "unknown"}]
    /\ request \in [Workers -> Frames]
    /\ screen \in Reports
    /\ \A w \in Workers :
          pc[w] \in {"check", "submit", "count", "unlock"} <=> SubmitLock = w

(* However far MtpEvtDeviceAdd got before it failed, the cleanup deletes   *)
(* the virtual device exactly if there is one: the handle is never left to *)
(* a device that is gone, and no device is left behind (Driver.c:107-122). *)
HandleOwnsVhf ==
    /\ VhfHandle <=> vhf # "none"
    /\ stage = "absent" => vhf = "none"

(* The device context is not used any more when the cleanup has returned:  *)
(* no feature callback and no request is left running (Driver.c:116-122).  *)
NothingRunsAfterCleanup == stage = "absent" => \A t \in DOMAIN pc : pc[t] = "idle"

\* A submission has happened when VHF answers, although it is counted later.
Tally ==
    IF \E w \in Workers : pc[w] = "count"
    THEN [count |-> SubmitCount + 1, status |-> LastSubmitStatus,
          active |-> LastActiveContactCount]
    ELSE attempt

Touchpad == INSTANCE TouchpadDevice WITH
    present <- vhf = "started", shown <- screen, tally <- Tally, answer <- reply

(* Threads, lock and stages cannot be seen from outside: whoever submits,  *)
(* queries, starts or removes the device, whatever fails on the way, it is *)
(* a touchpad on which one whole report at a time appears, together with   *)
(* the status that tells of it, and every query is answered by what was    *)
(* true at one moment (Driver.c:3-47, 74-162).  The count in the status is *)
(* the count in the report, which is the client's: it is not compared with *)
(* the contacts that have Tip (Driver.c:10, 18, 43).                       *)
ImplementsTouchpad == Touchpad!Spec

(* Every request is completed: none waits for SubmitLock for ever, also    *)
(* after a frame that was refused (Driver.c:158-162).                      *)
RequestCompletes == \A w \in Workers : pc[w] # "idle" ~> pc[w] = "idle"

(* A device that is being removed or that failed to start goes away: the   *)
(* wait in VhfDelete ends (Driver.c:116-122, 183, 201).                    *)
RemovalCompletes == stage = "cleanup" ~> stage = "absent"
=============================================================================
