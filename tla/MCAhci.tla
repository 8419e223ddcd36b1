------------------------------- MODULE MCAhci -------------------------------
(* A controller with three disks, of which two say "ROOT" and one is an     *)
(* ATAPI device that sleeps, a port multiplier, a port with a device that   *)
(* is off, and a port that is not there. *)
EXTENDS Ahci

Disk == [implemented |-> TRUE, det |-> 3, ipm |-> 1, Signature |-> "ATA"]

MCHba == <<[Disk EXCEPT !.ipm = 0], Disk, [Disk EXCEPT !.implemented = FALSE],
           [Disk EXCEPT !.Signature = "Atapi", !.ipm = 6], [Disk EXCEPT !.Signature = "PM"], Disk>>
=============================================================================
