-------------------------- MODULE ReceiverSurface ---------------------------
(***************************************************************************)
(* The receiver implements TouchSurface.  A report names slots only; the   *)
(* history variable owner adds which contact of the Mac is behind each of  *)
(* the slots that Windows sees down.                                       *)
(***************************************************************************)
EXTENDS Receiver

VARIABLE owner \* slot -> identifier

surfaceVars == <<vars, owner>>

\* A report has reached Windows.
Delivered == SubmitSucceeds \/ ReleaseSucceeds

SurfaceInit == Init /\ owner = Nothing

SurfaceNext ==
    /\ Next
    /\ owner' = IF Delivered
                THEN [s \in DOMAIN host'.touch |-> previous_contacts[s].id]
                ELSE owner

SurfaceSpec == SurfaceInit /\ [][SurfaceNext]_surfaceVars

Surface ==
    INSTANCE TouchSurface WITH
        touches <- [s \in DOMAIN host.touch |-> [id |-> owner[s], pos |-> host.touch[s]]],
        button  <- host.button,
        stale   <- exposed

(* Whatever the connections do, Windows sees one surface: over the whole   *)
(* life of the receiver, across messages, timeouts, reconnects, lost       *)
(* submissions and restarts, a finger keeps its slot from its first report *)
(* to its last, no slot changes hands within a report, releases leave      *)
(* nothing, and after a fault a release comes first (TouchSession.cpp:     *)
(* 50-104, 132-152, main.cpp:129-137).                                     *)
ImplementsSurface == Surface!Spec
=============================================================================
