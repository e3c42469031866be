---------------------------- MODULE MCVhfDriver -----------------------------
(***************************************************************************)
(* The driver's device on a small instance, and its report descriptor.     *)
(***************************************************************************)
EXTENDS VhfDriver, HidDescriptor

(* From VhfStart on Windows reads reports by the descriptor: it finds in   *)
(* an input report what SubmitIoctlFrame has put there, also after five    *)
(* finger collections that each leave their global items behind, and no    *)
(* value is beyond the logical maximum in force; the feature callbacks     *)
(* take the buffers the descriptor announces, and announce themselves as   *)
(* many contacts as there are finger collections                           *)
(* (Descriptor.c:3-116, Driver.h:14-28, Driver.c:15-43, 172-192).          *)
ReportsAsDeclared == vhf = "started" => DescriptorAgrees
=============================================================================
