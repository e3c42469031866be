------------------------------ MODULE Receiver ------------------------------
(***************************************************************************)
(* The Windows receiver process: the loop of windows/receiver/main.cpp     *)
(* around one TouchSession per connection, the submission of its frames    *)
(* through the driver, and what Windows believes about the touchpad.       *)
(*                                                                         *)
(* main() is one thread; pc names the blocking call or loop it is in.      *)
(* The environment decides what recv returns, whether DeviceIoControl      *)
(* succeeds, and when the process is stopped and started again.            *)
(* One tick of the clock is one receive timeout, 50 ms.                    *)
(***************************************************************************)
EXTENDS TouchSession

CONSTANTS
    MaxBatch,     \* bound: complete messages one recv can bring
    MaxFragments, \* receives in a row that end inside the same message: a
                  \* message has 476 bytes at most, so 475 of them
    MaxFailures,  \* bound: DeviceIoControl calls that fail
    MaxStops      \* bound: times the process ends

ASSUME BatchAssumption    == MaxBatch \in Nat \ {0}
ASSUME FragmentAssumption == MaxFragments \in Nat
ASSUME BoundsAssumption   == MaxFailures \in Nat /\ MaxStops \in Nat

VARIABLES
    pc,        \* where main() is
    pending,   \* messages decoded and not yet processed (StreamDecoder::messages_)
    frag,      \* receives since the last complete message or receive timeout
    host,      \* the last report Windows got: contacts down, and Button 1
    failures,  \* DeviceIoControl calls that have failed
    stops,     \* times the process has ended
    exposed    \* history: a frame was lost or main() ended, and no RESET
               \* report has been delivered since

receiverVars == <<pc, pending, frag, host, failures, stops, exposed>>
vars == <<sessionVars, receiverVars>>

-----------------------------------------------------------------------------
Labels == {"accept", "recv", "process", "submit", "closing", "release", "exited"}

Clear == [touch |-> Nothing, button |-> FALSE]
Hosts == [touch : UNION {[down -> Positions] : down \in SUBSET Slots}, button : BOOLEAN]

\* SubmitIoctlFrame of the driver builds each report from zeroes, so Windows
\* sees down exactly the contacts the frame reports with TIP.
Tips(frame) == {s \in DOMAIN frame.contacts : frame.contacts[s].tip}
Reported(frame) ==
    [touch |-> [s \in Tips(frame) |-> frame.contacts[s].pos], button |-> frame.button]

HostActive == host.touch # Nothing \/ host.button

Init ==
    /\ SessionInit
    /\ pc = "accept"
    /\ pending = 0
    /\ frag = 0
    /\ host = Clear
    /\ failures = 0
    /\ stops = 0
    /\ exposed = FALSE

-----------------------------------------------------------------------------
(* The connection loop.                                                    *)

\* accept returns; decoder and session are constructed.
Accept ==
    /\ pc = "accept"
    /\ pc' = "recv"
    /\ Construct
    /\ pending' = 0
    /\ frag' = 0
    /\ UNCHANGED <<host, failures, stops, exposed>>

\* Mutant: the loop returns to accept without OnDisconnect.
RecvEnds_NoRelease ==
    /\ pc = "recv"
    /\ pc' = "accept"
    /\ UNCHANGED <<sessionVars, pending, frag, host, failures, stops, exposed>>

\* recv returns 0: the peer closed.  Or recv fails, or StreamDecoder::Append
\* throws: messages decoded from the same bytes before the bad one are dropped.
RecvEnds ==
    /\ pc = "recv"
    /\ pc' = "closing"
    /\ UNCHANGED <<sessionVars, pending, frag, host, failures, stops, exposed>>

\* Mutant: what OnTimeout returns is not submitted.
RecvTimeout_NotSubmitted ==
    /\ pc = "recv"
    /\ OnTimeout(Older(age, 1))
    /\ frag' = 0
    /\ UNCHANGED <<pc, pending, host, failures, stops, exposed>>

RecvTimeout ==
    /\ pc = "recv"
    /\ OnTimeout(Older(age, 1))
    /\ pc' = IF output' = {} THEN "recv" ELSE "submit"
    /\ frag' = 0
    /\ UNCHANGED <<pending, host, failures, stops, exposed>>

\* recv brings bytes, before its timeout, that complete n messages.
RecvData(n, ticks) ==
    /\ pc = "recv"
    /\ n = 0 => frag < MaxFragments
    /\ pc' = IF n = 0 THEN "recv" ELSE "process"
    /\ pending' = n
    /\ frag' = IF n = 0 THEN frag + 1 ELSE 0
    /\ age' = Older(age, ticks)
    /\ UNCHANGED <<hello_seen, reset_seen, sequence_seen, button_down,
                   previous_sequence, slots, previous_contacts, output, error,
                   host, failures, stops, exposed>>

\* Where the loop over decoded messages goes when left messages remain.
Resume(left) == IF left = 0 THEN "recv" ELSE "process"

ProcessMessage(m) ==
    /\ pc = "process"
    /\ Process(m)
    /\ pending' = IF error' = "none" THEN pending - 1 ELSE 0
    /\ pc' = IF error' # "none" THEN "closing"
             ELSE IF output' # {} THEN "submit" ELSE Resume(pending')
    /\ UNCHANGED <<frag, host, failures, stops, exposed>>

-----------------------------------------------------------------------------
(* Submit: DeviceIoControl, IOCTL_MTP_SUBMIT_FRAME.                        *)

Deliver ==
    \E frame \in output :
        /\ host' = Reported(frame)
        /\ exposed' = (exposed /\ ~frame.reset)

Lose ==
    /\ failures < MaxFailures
    /\ failures' = failures + 1
    /\ exposed' = TRUE
    /\ UNCHANGED host

\* Mutant: the frame is kept for the next Submit.
ForgetOutput_Keeps == UNCHANGED sessionVars

\* The frame Submit was called with is a local of main().
ForgetOutput ==
    /\ output' = {}
    /\ UNCHANGED <<hello_seen, reset_seen, sequence_seen, button_down,
                   previous_sequence, slots, previous_contacts, age, error>>

SubmitSucceeds ==
    /\ pc = "submit"
    /\ Deliver
    /\ ForgetOutput
    /\ pc' = Resume(pending)
    /\ UNCHANGED <<pending, frag, failures, stops>>

\* The exception reaches the handler of main.cpp:134.
SubmitFails ==
    /\ pc = "submit"
    /\ Lose
    /\ ForgetOutput
    /\ pc' = "closing"
    /\ pending' = 0
    /\ UNCHANGED <<frag, stops>>

-----------------------------------------------------------------------------
(* The end of a connection.                                                *)

Disconnect ==
    /\ pc = "closing"
    /\ OnDisconnect
    /\ pc' = IF output' = {} THEN "accept" ELSE "release"
    /\ UNCHANGED <<pending, frag, host, failures, stops, exposed>>

ReleaseSucceeds ==
    /\ pc = "release"
    /\ Deliver
    /\ ForgetOutput
    /\ pc' = "accept"
    /\ UNCHANGED <<pending, frag, failures, stops>>

\* The process ends and takes session and decoder with it.
Exit ==
    /\ stops < MaxStops
    /\ stops' = stops + 1
    /\ pc' = "exited"
    /\ Construct
    /\ pending' = 0
    /\ frag' = 0

\* Nothing catches this exception but the outermost handler, which returns.
ReleaseFails == pc = "release" /\ Lose /\ Exit

\* The process is stopped (Ctrl-C, service stop, crash) or accept fails.
\* main() has no handler for it and the driver keeps the last report.
Stop ==
    /\ pc # "exited"
    /\ Exit
    /\ exposed' = TRUE
    /\ UNCHANGED <<host, failures>>

Start ==
    /\ pc = "exited"
    /\ pc' = "accept"
    /\ UNCHANGED <<sessionVars, pending, frag, host, failures, stops, exposed>>

-----------------------------------------------------------------------------
Receive ==
    \/ RecvEnds
    \/ RecvTimeout
    \/ \E n \in 0..MaxBatch, ticks \in {0, 1} : RecvData(n, ticks)

\* What main() does by itself once it has a connection.
Step ==
    \/ Receive
    \/ \E m \in Messages : ProcessMessage(m)
    \/ SubmitSucceeds
    \/ SubmitFails
    \/ Disconnect
    \/ ReleaseSucceeds
    \/ ReleaseFails

Next == Accept \/ Step \/ Stop \/ Start

Spec == Init /\ [][Next]_vars

\* recv returns within its timeout and main() never blocks elsewhere than in
\* accept: nothing is assumed of the peer, of stops or of restarts.
Fairness == WF_vars(Step)
FairSpec == Spec /\ Fairness

-----------------------------------------------------------------------------
(* Every variable has its type, output is what pc is about to submit, and  *)
(* PopMessage is never called on an empty queue.                           *)
TypeOK ==
    /\ SessionTypeOK
    /\ pc \in Labels
    /\ pending \in 0..MaxBatch
    /\ frag \in 0..MaxFragments
    /\ host \in Hosts
    /\ failures \in 0..MaxFailures
    /\ stops \in 0..MaxStops
    /\ exposed \in BOOLEAN
    /\ pc \in {"submit", "release"} <=> output # {}
    /\ pc = "process" => pending > 0

(* "Disconnect and 200 ms timeout both release all contacts" and "never a  *)
(* stuck contact" (docs/WINDOWS_HANDOFF.md:245, 248): while no connection  *)
(* is open, Windows sees no contact and no button, whichever way the last  *)
(* connection ended, unless a submission failed or the process was stopped *)
(* since the last RESET report.                                            *)
GhostFree == pc = "accept" /\ ~exposed => ~HostActive

(* Between messages Windows sees exactly what the session tracks, so every *)
(* later release covers everything that is down.                           *)
HostMatchesSession ==
    pc = "recv" /\ ~exposed =>
        /\ DOMAIN host.touch = SlotRange(slots)
        /\ host.button = button_down
        /\ \A id \in DOMAIN slots :
              host.touch[slots[id]] = previous_contacts[slots[id]].pos

(* The hold time of a contact is bounded: while recv waits, the last frame *)
(* of a session that holds anything is younger than kFrameTimeout plus one *)
(* receive timeout for every receive that brought only part of a message.  *)
BoundedHold ==
    pc = "recv" /\ HasActiveContacts => age < FrameTimeout + frag

(* The next connection heals what a lost frame or a stop left behind: the  *)
(* RESET that opens it is submitted before any FRAME is, so a FRAME report *)
(* never reaches Windows while stale contacts may still be down.           *)
ResetHeals ==
    [][\A frame \in output :
          host' # host /\ ~frame.reset => ~exposed]_vars

(* A peer that goes silent, or sends a message that never ends, holds no   *)
(* contact forever: what Windows sees down is released or confirmed by a   *)
(* newer frame, unless the process ends or a submission fails.             *)
StaleTouchReleased ==
    (HostActive /\ ~exposed /\ age > 0) ~> (~HostActive \/ age = 0 \/ exposed)

(* "Release mappings only after the corresponding lift has been delivered  *)
(* to VHF" (docs/WINDOWS_HANDOFF.md:171): a slot Windows sees down is one  *)
(* a later release of this connection will lift.                           *)
MappingKeptUntilDelivered ==
    stops = 0 /\ pc \in {"recv", "closing"} =>
        DOMAIN host.touch \subseteq DOMAIN previous_contacts
=============================================================================
