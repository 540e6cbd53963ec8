------------------------------- MODULE MCGuide -------------------------------
(* Small sets of reports for Guide. *)
EXTENDS Guide

Sat(svid, status, sig) == [svid |-> svid, satstatus |-> status, sigtype |-> sig]
Dms(d, m, s) == [deg |-> d, min |-> m, sec |-> s]

(* Two boards that differ in every number, so that a mixed-up cut shows. *)
MCBoards == {
  [ip |-> <<10, 11, 12, 13>>, port |-> 14, status |-> 0, socktype |-> 0],
  [ip |-> <<20, 21, 22, 23>>, port |-> 24, status |-> 1, socktype |-> 1]}

(* No satellite; a satellite seen on two signals and one that is not used; *)
(* other satellites of other constellations, one number above 255.         *)
MCSats == {
  [lat |-> Dms(1, 1, 1), lon |-> Dms(2, 2, 2), stnid |-> <<0, 0, 0, 0>>,
   pvtstatus |-> 0, sats |-> << >>],
  [lat |-> Dms(3, 3, 3), lon |-> Dms(4, 4, 4), stnid |-> <<0, 0, 0, 7>>,
   pvtstatus |-> 4, sats |-> << Sat(5, 0, 0), Sat(5, 0, 4), Sat(9, 2, 1) >>],
  [lat |-> Dms(5, 5, 5), lon |-> Dms(6, 6, 6), stnid |-> <<1, 2, 3, 4>>,
   pvtstatus |-> 5, sats |-> << Sat(300, 0, 2), Sat(6, 0, 7), Sat(120, 1, 10) >>]}

MCInters == {
  [inters |-> << >>, retype |-> 1, stray |-> 0],
  [inters |-> << [msgid |-> 42, rest |-> 0], [msgid |-> 99, rest |-> 1] >>,
   retype |-> 2, stray |-> 0]}

MCPipes == {{0, 4, 2}, {1, 9}}
(* Fewer reports for the runs whose question is about the pages. *)
OneSat  == {f \in MCSats : f.pvtstatus = 4}
OnePipe == {{1, 9}}
OneBoard == {b \in MCBoards : b.port = 14}

MCDirecs == {"heading"}
MCMsgTable == {42}
==============================================================================
