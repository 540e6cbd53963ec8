---------------------------- MODULE MCOem4Stream -----------------------------
(* Small frames: a header of six bytes, three of synchronisation and two   *)
(* of length among them, a checksum of one, messages of one or two.        *)
EXTENDS Oem4Stream

MCMessages == { << 7 >>, << 7, 9 >> }

(* One message holds a synchronisation code, followed by a length. *)
MCDeceptive == { << 7 >>, << 1, 2, 3, 4, 0 >> }

(* The beginning of a synchronisation code, the beginning of a frame, and  *)
(* one whose length has a high byte and does not fit the buffer.           *)
MCNoise == { << 1, 2 >>, << 1, 2, 3, 2, 0 >>, << 1, 2, 3, 0, 1 >> }
==============================================================================
