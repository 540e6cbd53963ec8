------------------------------ MODULE FrameFeed ------------------------------
(***************************************************************************)
(* What the rest of the daemon relies on from the report stream: every     *)
(* report handed over is one the decoder sent, whole; reports are handed   *)
(* over in the order they were sent, none twice.  Reports may be lost on   *)
(* the way, and the decoder may die while it writes one, which then is     *)
(* never handed over.                                                      *)
(***************************************************************************)
EXTENDS Naturals, Sequences

VARIABLES sent,    \* how many reports the decoder has begun
          lost,    \* the numbers of those it did not finish
          handed   \* the numbers of those handed over, in order

Latest == IF handed = << >> THEN 0 ELSE handed[Len(handed)]

Init == sent = 0 /\ lost = {} /\ handed = << >>

Send == sent' = sent + 1 /\ UNCHANGED << lost, handed >>

Lose ==
  /\ lost \subseteq lost' /\ lost' \ lost \subseteq Latest + 1 .. sent
  /\ UNCHANGED << sent, handed >>

Hand ==
  /\ \E k \in (Latest + 1 .. sent) \ lost : handed' = Append(handed, k)
  /\ UNCHANGED << sent, lost >>

Next == Send \/ Lose \/ Hand

Spec == Init /\ [][Next]_<<sent, lost, handed>>
=============================================================================
