-------------------------------- MODULE Guide --------------------------------
(***************************************************************************)
(* The report store of mycgi.                                              *)
(*                                                                         *)
(* The daemon keeps one record, *guide, of what the receiver last said.    *)
(* deal_pro (deal_pro.c) writes it, one action per kind of report; the     *)
(* twelve pages of /get_receiver_guide.cmd (web_pro.c) read it, one action *)
(* per page.  Both run as callbacks of one event loop, so each is one      *)
(* step.  A page first writes "log ... ontime 1" commands to the decoder   *)
(* and answers with what the store holds at that moment, without waiting   *)
(* for the report it asked for.                                            *)
(*                                                                         *)
(* The decoder is another process (not in this repository): it may die,    *)
(* which makes every command write fail, and be started again, which makes *)
(* it forget the logs it was asked for.                                    *)
(***************************************************************************)
EXTENDS Integers, Sequences, FiniteSets

CONSTANTS
  Boards,     \* oemstatus reports: [ip, port, status, socktype]
  Sats,       \* satinfo reports: [lat, lon, stnid, pvtstatus, sats]
  Inters,     \* interfaceinfo reports: [inters, retype, stray]
  Pipes,      \* channelinfo reports: sets of frequency numbers
  Direcs,     \* gputab reports: opaque values
  MsgTable,   \* the message numbers named in /web/sbin/msgid
  Zeros,      \* the contents of a part of the store never written
  None        \* the absence of an answer or of a report

FRENUM    == 14    \* deco.h: frequencies a channel can be on
MAXPRNGPS == 32    \* pro.h: every array of sateprn_t has this length
Byte      == 0..255
Short     == 0..65535    \* unsigned short

Systems == {"gps", "glo", "gali", "cmp", "sbas"}

(* Which constellation a signal type belongs to: the table sys[] that      *)
(* actionsend, possend and tracesend each carry a copy of.                 *)
SYS == << "gps", "glo", "cmp", "cmp", "gps", "glo", "cmp",
          "gps", "glo", "gali", "sbas", "sbas", "gali", "gali" >>

SysOf(sat) == SYS[sat.sigtype + 1]

SatRecord == [svid : Short, satstatus : Byte, sigtype : 0 .. Len(SYS) - 1]
Lat == [deg : Int, min : Nat, sec : Nat]

BoardFrame == [ip : [1..4 -> Byte], port : Short, status : Nat, socktype : Byte]
SatFrame   == [lat : Lat, lon : Lat, stnid : [1..4 -> Byte],
               pvtstatus : 0..15, sats : Seq(SatRecord)]
InterFrame == [inters : Seq([msgid : Nat, rest : Nat]), retype : Byte, stray : Byte]
PipeFrame  == SUBSET (0 .. FRENUM - 1)   \* the frequencies that have a channel

(* Entry k of a satinfo report lands in the list of its own constellation. *)
(* Lists are kept as sets of [at, prn], `at' being the place in the report,*)
(* which gives their order and keeps two signals of one satellite apart.   *)
Of(sats, s)      == {k \in DOMAIN sats : SysOf(sats[k]) = s}
Entry_wide(sats, k) == [at |-> k, prn |-> sats[k].svid]   \* faulty: not narrowed
Entry(sats, k)   == [at |-> k, prn |-> sats[k].svid % 256]
Row(sats, k)     == [at |-> k, prn |-> sats[k].svid % 256, satstatus |-> sats[k].satstatus]

(* What the receiver is trusted for: reports of the documented shape, and  *)
(* no constellation with more entries than its array in the store.         *)
ASSUME ReceiverContract ==
  /\ Boards \subseteq BoardFrame
  /\ Sats \subseteq SatFrame
  /\ Inters \subseteq InterFrame
  /\ Pipes \subseteq PipeFrame
  /\ \A f \in Sats, s \in Systems : Cardinality(Of(f.sats, s)) <= MAXPRNGPS

ASSUME DistinctValues ==
  /\ None # Zeros
  /\ None \notin Sats /\ None \notin Pipes
  /\ Zeros \notin Boards /\ Zeros \notin Direcs

(* The five logs sendcmd can ask for, and the pages. *)
Logs  == {"oemstatus", "satinfo", "interfaceinfo", "gputab", "channelinfo"}
Pages == {"state", "action", "position", "tracetable", "getpos", "getpassword",
          "getdir", "getengine", "getip", "getinter", "getchansta", "getserclient"}

VARIABLES
  board,       \* state, entype, serclient and the constant part of net
  ip,          \* net.ip, a string of dotted numbers, as their sequence
  basepos,     \* basepos: the reference position
  sateprn,     \* sateprn: satellites tracked, per constellation
  posstate,    \* posstate: the fix and the satellites used in it
  tracetable,  \* tracetable: the tracking table, per constellation
  interface,   \* interface: the logging interfaces
  chansta,     \* chansta: which frequencies have a channel
  direcdata,   \* direcdata: the two-antenna heading solution
  alive,       \* the daemon has not crashed
  reply,       \* what this step sent to a browser: [page, body]
  decoder,     \* the decoder process is "up" or "down"
  logs,        \* the logs the running decoder was asked for
  asked,       \* the logs any decoder was ever asked for
  seen,        \* history: the satinfo and the channelinfo report handled last,
               \* and whether getdir has asked for gputab
  readings     \* history: answers of getip since the last oemstatus report

store == << board, ip, basepos, sateprn, posstate, tracetable,
            interface, chansta, direcdata, seen, readings >>
env   == << decoder, logs, asked >>
vars  == << store, alive, reply, env >>

Silence == [page |-> None, body |-> None]

Empty == [s \in Systems |-> {}]
NoFix == [deg |-> 0, min |-> 0, sec |-> 0]

-----------------------------------------------------------------------------
(* calloc'ed store; deconnect has asked for some of the logs. *)
StartedWith(cmds) ==
  /\ board = Zeros /\ ip = << >>
  /\ basepos = [lat |-> NoFix, lon |-> NoFix]
  /\ sateprn = Empty /\ tracetable = Empty
  /\ posstate = [lat |-> NoFix, lon |-> NoFix, pvtstatus |-> 0,
                 stnid |-> [i \in 1..4 |-> 0], sateprn |-> Empty]
  /\ interface = [inters |-> << >>, retype |-> 0]
  /\ chansta = [n \in 0 .. FRENUM - 1 |-> 0]
  /\ direcdata = Zeros
  /\ seen = [sat |-> None, pipe |-> None, dir |-> FALSE] /\ readings = 0
  /\ alive = TRUE /\ reply = Silence
  /\ decoder = "up"
  /\ logs = cmds /\ asked = cmds

Init_all_logs == StartedWith(Logs)   \* faulty: asks for gputab as well

Init == StartedWith(Logs \ {"gputab"})

-----------------------------------------------------------------------------
(* Reports.  A report of a kind arrives only if its log was asked for; it  *)
(* may have been waiting in the FIFO since before the decoder died.        *)
Arrives(log) ==
  /\ alive
  /\ log \in asked
  /\ reply' = Silence
  /\ UNCHANGED << alive, env >>

Dotted(b) == << b.ip[1], b.ip[2], b.ip[3], b.ip[4], b.port >>

ipsend(b) == ip' = Dotted(b)

rboard(b) ==
  /\ Arrives("oemstatus")
  /\ board' = b
  /\ ipsend(b) /\ readings' = 0
  /\ UNCHANGED << basepos, sateprn, posstate, tracetable, interface, chansta,
                  direcdata, seen >>

(* decode_sat reads the four bytes of the station id into one place. *)
decode_stnid(id) == [i \in 1..4 |-> IF i = 1 THEN id[4] ELSE 0]

(* The effect of getpossend and actionsend, and of tracesend: nothing when *)
(* the report lists no satellite.                                          *)
getpossend(f) ==
  basepos' = IF f.sats = << >> THEN basepos ELSE [lat |-> f.lat, lon |-> f.lon]

actionsend(f) ==
  sateprn' = IF f.sats = << >> THEN sateprn
             ELSE [s \in Systems |-> {Entry(f.sats, k) : k \in Of(f.sats, s)}]

(* possend has no such guard, and keeps only the satellites used. *)
Used(f, s) == {Entry(f.sats, k) : k \in {j \in Of(f.sats, s) : f.sats[j].satstatus = 0}}

Position(f, before) ==
  posstate' = [lat |-> f.lat, lon |-> f.lon, pvtstatus |-> f.pvtstatus,
               stnid |-> decode_stnid(f.stnid),
               sateprn |-> [s \in Systems |-> before[s] \cup Used(f, s)]]

possend_no_reset(f) == Position(f, posstate.sateprn)   \* faulty: counters kept

possend(f) == Position(f, Empty)

tracesend_no_guard(f) ==                               \* faulty: no early return
  tracetable' = [s \in Systems |-> {Row(f.sats, k) : k \in Of(f.sats, s)}]

tracesend(f) ==
  tracetable' = IF f.sats = << >> THEN tracetable
                ELSE [s \in Systems |-> {Row(f.sats, k) : k \in Of(f.sats, s)}]

rsat(f) ==
  /\ Arrives("satinfo")
  /\ getpossend(f) /\ actionsend(f) /\ possend(f) /\ tracesend(f)
  /\ seen' = [seen EXCEPT !.sat = f]
  /\ UNCHANGED << board, ip, interface, chansta, direcdata, readings >>

(* decode_inter indexes `retype' with the loop variable left at num: right *)
(* for no more than one interface, else some other byte of the buffer.     *)
decode_retype(f) == IF Len(f.inters) <= 1 THEN f.retype ELSE f.stray

rinter(f) ==
  /\ Arrives("interfaceinfo")
  /\ interface' = [inters |-> f.inters, retype |-> decode_retype(f)]
  /\ UNCHANGED << board, ip, basepos, sateprn, posstate, tracetable, chansta,
                  direcdata, seen, readings >>

Channels(f, before) ==
  /\ Arrives("channelinfo")
  /\ chansta' = [n \in 0 .. FRENUM - 1 |-> IF n \in f THEN 1 ELSE before[n]]
  /\ seen' = [seen EXCEPT !.pipe = f]
  /\ UNCHANGED << board, ip, basepos, sateprn, posstate, tracetable, interface,
                  direcdata, readings >>

rchansta_no_reset(f) == Channels(f, chansta)           \* faulty: no memset

rchansta(f) == Channels(f, [n \in 0 .. FRENUM - 1 |-> 0])

rdirec(f) ==
  /\ Arrives("gputab")
  /\ direcdata' = f
  /\ UNCHANGED << board, ip, basepos, sateprn, posstate, tracetable, interface,
                  chansta, seen, readings >>

deal_pro ==
  \/ \E b \in Boards : rboard(b)
  \/ \E f \in Sats   : rsat(f)
  \/ \E f \in Inters : rinter(f)
  \/ \E f \in Pipes  : rchansta(f)
  \/ \E f \in Direcs : rdirec(f)

-----------------------------------------------------------------------------
(* Pages.  sendcmd asks for logs; a page that could not write answers      *)
(* nothing (Refused).                                                      *)
sendcmd(cmds) ==
  /\ alive
  /\ decoder = "up"
  /\ logs' = logs \cup cmds
  /\ asked' = asked \cup cmds
  /\ UNCHANGED << alive, decoder >>

Replies(page, body) == reply' = [page |-> page, body |-> body]

Refused(page) ==
  /\ alive
  /\ decoder = "down"
  /\ Replies(page, None)
  /\ UNCHANGED << alive, env, store >>

state        == sendcmd({"oemstatus"})   /\ Replies("state", board)        /\ UNCHANGED store
getengine    == sendcmd({"oemstatus"})   /\ Replies("getengine", board)    /\ UNCHANGED store
getserclient == sendcmd({"oemstatus"})   /\ Replies("getserclient", board) /\ UNCHANGED store
action       == sendcmd({"satinfo"})     /\ Replies("action", sateprn)     /\ UNCHANGED store
position     == sendcmd({"satinfo"})     /\ Replies("position", posstate)  /\ UNCHANGED store
table        == sendcmd({"satinfo"})     /\ Replies("tracetable", tracetable) /\ UNCHANGED store

getdir ==
  /\ sendcmd({"gputab"})
  /\ Replies("getdir", direcdata)
  /\ seen' = [seen EXCEPT !.dir = TRUE]
  /\ UNCHANGED << board, ip, basepos, sateprn, posstate, tracetable, interface,
                  chansta, direcdata, readings >>

(* The names getchansta shows, and the flag each one reads. *)
LABELS == [L1 |-> 0, L2 |-> 4, L5 |-> 7, B1 |-> 2, B2 |-> 6, B3 |-> 3,
           GL1 |-> 1, GL2 |-> 5]

ChannelPage(cmd) ==
  /\ sendcmd({cmd})
  /\ Replies("getchansta", [l \in DOMAIN LABELS |-> chansta[LABELS[l]]])
  /\ UNCHANGED store

getchansta_wrong_cmd == ChannelPage("gputab")          \* faulty: another page's log

getchansta == ChannelPage("channelinfo")

(* The seconds of the longitude are filled from the latitude. *)
getpos ==
  /\ sendcmd({"satinfo"})
  /\ Replies("getpos", [lat |-> basepos.lat,
                        lon |-> [basepos.lon EXCEPT !.sec = basepos.lat.sec]])
  /\ UNCHANGED store

(* net.ip holds "a.b.c.d.port"; the page cuts it at the last dot, in       *)
(* place, and so keeps all but one of its numbers.  Without a dot it       *)
(* answers nothing.                                                        *)
IpPage(cmds, kept) ==
  /\ sendcmd(cmds)
  /\ IF Len(ip) > 1
       THEN /\ ip' = SubSeq(ip, 1, kept) /\ readings' = readings + 1
            /\ Replies("getip", [ip |-> ip', port |-> ip[kept + 1], net |-> board.status])
       ELSE /\ Replies("getip", None)
            /\ UNCHANGED << ip, readings >>
  /\ UNCHANGED << board, basepos, sateprn, posstate, tracetable, interface,
                  chansta, direcdata, seen >>

getip_one_cmd == IpPage({"oemstatus"}, Len(ip) - 1)    \* faulty

(* Faulty: the port is cut off as well. *)
getip_cuts_twice == IpPage({"interfaceinfo", "oemstatus"}, Len(ip) - 2)

getip == IpPage({"interfaceinfo", "oemstatus"}, Len(ip) - 1)

(* The decoder may die between the two commands of getip. *)
getip_half ==
  /\ alive /\ decoder = "up"
  /\ decoder' = "down"
  /\ logs' = logs \cup {"interfaceinfo"}
  /\ asked' = asked \cup {"interfaceinfo"}
  /\ Replies("getip", None)
  /\ UNCHANGED << alive, store >>

(* Interfaces whose message number the table does not name are left out of *)
(* the list, not of `num'; without the table there is no answer.           *)
getinter ==
  /\ sendcmd({"oemstatus"})
  /\ \/ Replies("getinter",
          [num |-> Len(interface.inters), retype |-> interface.retype,
           listed |-> {k \in DOMAIN interface.inters : interface.inters[k].msgid \in MsgTable}])
     \/ Replies("getinter", None)
  /\ UNCHANGED store

(* Sends no command: the password file as it is, or nothing. *)
getpassword ==
  /\ alive
  /\ \E body \in {"password", None} : Replies("getpassword", body)
  /\ UNCHANGED << alive, env, store >>

(* A page that is not in guidetype[] leaves `response' uninitialised: NULL *)
(* by luck, or a stray pointer that is printed and freed.                  *)
unknown_page ==
  /\ alive
  /\ \/ Replies("unknown", None) /\ UNCHANGED alive
     \/ reply' = Silence /\ alive' = FALSE
  /\ UNCHANGED << env, store >>

pro_guide ==
  \/ state \/ getengine \/ getserclient
  \/ action \/ position \/ table \/ getpos
  \/ getdir \/ getchansta \/ getip \/ getip_half \/ getinter
  \/ getpassword
  \/ \E page \in Pages \ {"getpassword"} : Refused(page)
  \/ unknown_page

-----------------------------------------------------------------------------
(* The decoder process: external. *)
DecoderDies ==
  /\ alive /\ decoder = "up"
  /\ decoder' = "down"
  /\ reply' = Silence
  /\ UNCHANGED << alive, logs, asked, store >>

DecoderStarts ==
  /\ alive /\ decoder = "down"
  /\ decoder' = "up" /\ logs' = {}
  /\ reply' = Silence
  /\ UNCHANGED << alive, asked, store >>

Next == deal_pro \/ pro_guide \/ DecoderDies \/ DecoderStarts

Spec == Init /\ [][Next]_vars

-----------------------------------------------------------------------------
(* The types of the store; bodies of answers are left open. *)
EntryType == [at : Nat, prn : Byte]
RowType   == [at : Nat, prn : Byte, satstatus : Byte]

TypeOK ==
  /\ board \in Boards \cup {Zeros}
  /\ ip \in Seq(Nat)
  /\ basepos \in [lat : Lat, lon : Lat]
  /\ sateprn \in [Systems -> SUBSET EntryType]
  /\ posstate \in [lat : Lat, lon : Lat, pvtstatus : 0..15, stnid : [1..4 -> Byte],
                    sateprn : [Systems -> SUBSET EntryType]]
  /\ tracetable \in [Systems -> SUBSET RowType]
  /\ interface \in [inters : Seq([msgid : Nat, rest : Nat]), retype : Byte]
  /\ chansta \in [0 .. FRENUM - 1 -> {0, 1}]
  /\ direcdata \in Direcs \cup {Zeros}
  /\ alive \in BOOLEAN
  /\ reply.page \in Pages \cup {"unknown", None}
  /\ decoder \in {"up", "down"}
  /\ logs \subseteq Logs /\ asked \subseteq Logs
  /\ seen \in [sat : Sats \cup {None}, pipe : Pipes \cup {None}, dir : BOOLEAN]
  /\ readings \in Nat

(* The position page never lists a satellite as used in the fix that the   *)
(* action page does not list as tracked, whatever reports came, empty ones *)
(* included (possend resets its lists on every report, actionsend only on  *)
(* reports that list a satellite).                                         *)
UsedAreTracked == \A s \in Systems : posstate.sateprn[s] \subseteq sateprn[s]

(* The tracking table and the action page always list the same satellites  *)
(* in the same order, and every satellite the position page lists has      *)
(* status 0 in the table: three loops over the report agree.               *)
TableMatchesAction ==
  \A s \in Systems :
    /\ sateprn[s] = {[at |-> r.at, prn |-> r.prn] : r \in tracetable[s]}
    /\ \A e \in posstate.sateprn[s] :
         \E r \in tracetable[s] : r.at = e.at /\ r.prn = e.prn /\ r.satstatus = 0

(* getip cuts the string it answers from, by one number at each reading    *)
(* and no more: its first answer after an oemstatus report is that report's*)
(* address and port, and its k-th is the first 5 - k numbers of the report *)
(* and the one behind them, until one number is left.                      *)
IpReplyIsCut ==
  (reply.page = "getip" /\ reply.body # None) =>
    LET n == Len(reply.body.ip) IN
    /\ n = 5 - readings /\ n \in 1..4
    /\ \A i \in 1..n : reply.body.ip[i] = Dotted(board)[i]
    /\ reply.body.port = Dotted(board)[n + 1]

(* getchansta says that a frequency is in use only if the last channelinfo *)
(* report had a channel on a frequency of that name's constellation (the   *)
(* table of names in web_pro.c against the table of signals in deal_pro.c).*)
LabelSystem == [L1 |-> "gps", L2 |-> "gps", L5 |-> "gps",
                B1 |-> "cmp", B2 |-> "cmp", B3 |-> "cmp", GL1 |-> "glo", GL2 |-> "glo"]

ChannelPageTruthful ==
  (reply.page = "getchansta" /\ reply.body # None) =>
    \A l \in DOMAIN LabelSystem :
      reply.body[l] = 1 => /\ seen.pipe # None
                           /\ \E n \in seen.pipe : SYS[n + 1] = LabelSystem[l]

(* A page that answers has (re)subscribed, with the decoder now running,   *)
(* to the report its own contents come from, so that polling a page keeps  *)
(* it current across restarts of the decoder.  getinter is the exception   *)
(* in the code: it asks for oemstatus.                                     *)
RefreshedBy ==
  [state |-> "oemstatus", getengine |-> "oemstatus", getserclient |-> "oemstatus",
   getip |-> "oemstatus", action |-> "satinfo", position |-> "satinfo",
   tracetable |-> "satinfo", getpos |-> "satinfo", getdir |-> "gputab",
   getchansta |-> "channelinfo"]

AnswerKeepsItsLogAlive ==
  [][(reply'.page \in DOMAIN RefreshedBy /\ reply'.body # None)
       => RefreshedBy[reply'.page] \in logs']_vars

(* deconnect does not ask for gputab and getdir does not wait for it: the  *)
(* first getdir after the start of the daemon answers zeros, and a heading *)
(* is shown only where an earlier getdir had asked for it.                 *)
FirstHeadingIsZero ==
  [][(reply'.page = "getdir" /\ reply'.body \notin {None, Zeros}) => seen.dir]_vars

(* After the decoder has been restarted (it forgets its logs, and the      *)
(* daemon does not ask again by itself), the pages alone bring all five    *)
(* logs back, if the decoder then stays up and getip, getdir, getchansta   *)
(* and action keep being asked for.                                        *)
HealsAfterRestart ==
  (/\ <>[](decoder = "up")
   /\ \A page \in {"getip", "getdir", "getchansta", "action"} : []<>(reply.page = page))
  => <>[](logs = Logs)

(* What the code's comments promise and the code does not do. *)

(* web_pro.c:471-472 put what getip has found under the names "ip" and     *)
(* "port" of an answer about the receiver's net_t, whose members pro.h:75  *)
(* has as strings of their own: they would be the address and the port of  *)
(* the last oemstatus report, however often the page is read.              *)
IpAddressIntact ==
  (reply.page = "getip" /\ reply.body # None) =>
    reply.body.ip = SubSeq(Dotted(board), 1, 4) /\ reply.body.port = board.port

(* pro.h:58-61 says of sateprn that satnu counts the satellites and that   *)
(* the arrays hold those tracked.                                          *)
TrackedIsCurrent ==
  seen.sat # None =>
    \A s \in Systems : Cardinality(sateprn[s]) = Cardinality(Of(seen.sat.sats, s))
=============================================================================
