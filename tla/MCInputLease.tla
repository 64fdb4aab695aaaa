--------------------------- MODULE MCInputLease ---------------------------
(* Instances of InputLease for TLC: a device that can resume, an N-1       *)
(* client with a TTL, and one whose lease lives as long as its stream.     *)
EXTENDS InputLease, TLC

CONSTANTS device, legacy, streamBound, a1, a2

Symmetry == Permutations(Attachments)
===========================================================================
