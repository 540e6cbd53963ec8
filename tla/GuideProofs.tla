----------------------------- MODULE GuideProofs -----------------------------
(***************************************************************************)
(* Theorems about Guide, for every set of reports the receiver contract    *)
(* allows.  The inductive invariant is split by the part of the store it   *)
(* is about; a report disturbs only the parts it writes, a page none but   *)
(* net.ip.                                                                 *)
(***************************************************************************)
EXTENDS Guide, SequenceTheorems, TLAPS

(* net.ip is a non-empty prefix of the dotted string of the last oemstatus *)
(* report, shorter by as many numbers as it has been read, or empty before *)
(* the first.                                                              *)
IpIsPrefix ==
  /\ board = Zeros => ip = << >>
  /\ board # Zeros => /\ Len(ip) \in 1..5 /\ Len(ip) = 5 - readings
                      /\ \A i \in 1..Len(ip) : ip[i] = Dotted(board)[i]

(* gputab is the one log no decoder is asked for before getdir. *)
HeadingNeedsGetdir ==
  /\ "gputab" \in asked => seen.dir
  /\ direcdata # Zeros => seen.dir

SatLists == UsedAreTracked /\ TableMatchesAction

-----------------------------------------------------------------------------
(* The lists rsat builds are lists of entries. *)
LEMMA EntriesTyped ==
  ASSUME NEW f \in SatFrame, NEW s \in Systems, NEW k \in Of(f.sats, s)
  PROVE  /\ Entry(f.sats, k) \in EntryType
         /\ Row(f.sats, k) \in RowType
<1>1. f.sats \in Seq(SatRecord)
  BY DEF SatFrame
<1>2. k \in DOMAIN f.sats /\ k \in Nat
  BY <1>1 DEF Of
<1>3. f.sats[k] \in SatRecord
  BY <1>1, <1>2
<1>4. f.sats[k].svid \in Short /\ f.sats[k].satstatus \in Byte
  BY <1>3 DEF SatRecord
<1>5. \A n \in Short : n % 256 \in Byte
  BY DEF Byte, Short
<1>6. f.sats[k].svid % 256 \in Byte
  BY <1>4, <1>5
<1>7. \A p, t \in Byte : /\ [at |-> k, prn |-> p] \in EntryType
                        /\ [at |-> k, prn |-> p, satstatus |-> t] \in RowType
  BY <1>2 DEF EntryType, RowType
<1>8. Entry(f.sats, k) \in EntryType
  BY <1>4, <1>6, <1>7 DEF Entry
<1>9. Row(f.sats, k) \in RowType
  BY <1>4, <1>6, <1>7 DEF Row
<1> QED
  BY <1>8, <1>9


-----------------------------------------------------------------------------
(* Type correctness. *)

LEMMA InitTyped == Init => TypeOK
<1> SUFFICES ASSUME Init PROVE TypeOK
  OBVIOUS
<1> USE DEF Init, StartedWith
<1>1. NoFix \in Lat
  BY DEF NoFix, Lat
<1>2. Empty \in [Systems -> SUBSET EntryType] /\ Empty \in [Systems -> SUBSET RowType]
  BY DEF Empty
<1>3. 0 \in Byte
  BY DEF Byte
<1>4. posstate \in [lat : Lat, lon : Lat, pvtstatus : 0..15, stnid : [1..4 -> Byte],
                    sateprn : [Systems -> SUBSET EntryType]]
  BY <1>1, <1>2, <1>3
<1>5. interface \in [inters : Seq([msgid : Nat, rest : Nat]), retype : Byte]
  BY <1>3
<1> QED
  BY <1>1, <1>2, <1>4, <1>5 DEF TypeOK, Silence, Logs

LEMMA ShortIsNat == Short \subseteq Nat
BY DEF Short

LEMMA BoardTyped ==
  ASSUME TypeOK, NEW b \in Boards, rboard(b)
  PROVE  TypeOK'
<1>1. b \in BoardFrame
  BY ReceiverContract
<1>2. /\ b.ip \in [1..4 -> Byte]
      /\ b.port \in Short
  BY <1>1 DEF BoardFrame
<1>3. Dotted(b) \in Seq(Nat)
  <2>1. b.ip[1] \in Nat /\ b.ip[2] \in Nat /\ b.ip[3] \in Nat /\ b.ip[4] \in Nat
    BY <1>2 DEF Byte
  <2>2. b.port \in Nat
    BY <1>2, ShortIsNat
  <2> QED
    BY <2>1, <2>2 DEF Dotted
<1> QED
  BY <1>3 DEF TypeOK, rboard, ipsend, Arrives, env, Silence

LEMMA SatTyped ==
  ASSUME TypeOK, NEW f \in Sats, rsat(f)
  PROVE  TypeOK'
<1> USE DEF rsat
<1>1. f \in SatFrame
  BY ReceiverContract
<1>2. /\ f.lat \in Lat /\ f.lon \in Lat /\ f.pvtstatus \in 0..15
      /\ f.stnid \in [1..4 -> Byte]
  BY <1>1 DEF SatFrame
<1>3. (basepos \in [lat : Lat, lon : Lat])'
  BY <1>2 DEF TypeOK, getpossend
<1>4. (sateprn \in [Systems -> SUBSET EntryType])'
  <2>1. \A s \in Systems : {Entry(f.sats, k) : k \in Of(f.sats, s)} \in SUBSET EntryType
    BY <1>1, EntriesTyped
  <2>2. [s \in Systems |-> {Entry(f.sats, k) : k \in Of(f.sats, s)}]
          \in [Systems -> SUBSET EntryType]
    BY <2>1
  <2> QED
    BY <2>2 DEF TypeOK, actionsend
<1>5. (tracetable \in [Systems -> SUBSET RowType])'
  <2>1. \A s \in Systems : {Row(f.sats, k) : k \in Of(f.sats, s)} \in SUBSET RowType
    BY <1>1, EntriesTyped
  <2>2. [s \in Systems |-> {Row(f.sats, k) : k \in Of(f.sats, s)}]
          \in [Systems -> SUBSET RowType]
    BY <2>1
  <2> QED
    BY <2>2 DEF TypeOK, tracesend
<1>6. decode_stnid(f.stnid) \in [1..4 -> Byte]
  BY <1>2 DEF decode_stnid, Byte
<1>7. [s \in Systems |-> Empty[s] \cup Used(f, s)] \in [Systems -> SUBSET EntryType]
  <2>1. \A s \in Systems : Used(f, s) \subseteq EntryType
    BY <1>1, EntriesTyped DEF Used
  <2> QED
    BY <2>1 DEF Empty
<1>8. (posstate \in [lat : Lat, lon : Lat, pvtstatus : 0..15, stnid : [1..4 -> Byte],
                     sateprn : [Systems -> SUBSET EntryType]])'
  BY <1>2, <1>6, <1>7 DEF possend, Position
<1>9. (seen \in [sat : Sats \cup {None}, pipe : Pipes \cup {None}, dir : BOOLEAN])'
  BY DEF TypeOK
<1> QED
  BY <1>3, <1>4, <1>5, <1>8, <1>9 DEF TypeOK, Arrives, env, Silence

LEMMA OtherReportsTyped ==
  ASSUME TypeOK,
         \/ \E f \in Inters : rinter(f)
         \/ \E f \in Pipes  : rchansta(f)
         \/ \E f \in Direcs : rdirec(f)
  PROVE  TypeOK'
<1>1. ASSUME NEW f \in Inters, rinter(f) PROVE TypeOK'
  <2>1. /\ f.inters \in Seq([msgid : Nat, rest : Nat])
        /\ f.retype \in Byte /\ f.stray \in Byte
    BY ReceiverContract DEF InterFrame
  <2>2. (interface \in [inters : Seq([msgid : Nat, rest : Nat]), retype : Byte])'
    BY <1>1, <2>1 DEF rinter, decode_retype
  <2> QED
    BY <1>1, <2>2 DEF TypeOK, rinter, Arrives, env, Silence
<1>2. ASSUME NEW f \in Pipes, rchansta(f) PROVE TypeOK'
  <2>1. (chansta \in [0 .. FRENUM - 1 -> {0, 1}])'
    BY <1>2 DEF rchansta, Channels
  <2>2. (seen \in [sat : Sats \cup {None}, pipe : Pipes \cup {None}, dir : BOOLEAN])'
    BY <1>2 DEF TypeOK, rchansta, Channels
  <2> QED
    BY <1>2, <2>1, <2>2 DEF TypeOK, rchansta, Channels, Arrives, env, Silence
<1>3. ASSUME NEW f \in Direcs, rdirec(f) PROVE TypeOK'
  BY <1>3 DEF TypeOK, rdirec, Arrives, env, Silence
<1> QED
  BY <1>1, <1>2, <1>3

LEMMA PagesTyped ==
  ASSUME TypeOK, pro_guide
  PROVE  TypeOK'
<1> USE DEF TypeOK, store, env, Replies, sendcmd, Logs, Pages
<1>1. CASE state
  BY <1>1 DEF state
<1>2. CASE getengine
  BY <1>2 DEF getengine
<1>3. CASE getserclient
  BY <1>3 DEF getserclient
<1>4. CASE action
  BY <1>4 DEF action
<1>5. CASE position
  BY <1>5 DEF position
<1>6. CASE table
  BY <1>6 DEF table
<1>7. CASE getpos
  BY <1>7 DEF getpos
<1>8. CASE getdir
  BY <1>8 DEF getdir
<1>9. CASE getchansta
  BY <1>9 DEF getchansta, ChannelPage
<1>10. CASE getip
  <2>1. ASSUME Len(ip) > 1 PROVE SubSeq(ip, 1, Len(ip) - 1) \in Seq(Nat)
    BY <2>1, SubSeqProperties
  <2>2. (ip \in Seq(Nat))'
    BY <1>10, <2>1 DEF getip, IpPage
  <2>3. (reply.page = "getip")'
    BY <1>10 DEF getip, IpPage
  <2>4. readings' \in Nat
    BY <1>10 DEF getip, IpPage
  <2>5. /\ logs' \subseteq Logs /\ asked' \subseteq Logs
        /\ alive' \in BOOLEAN /\ decoder' \in {"up", "down"}
    BY <1>10 DEF getip, IpPage
  <2>6. UNCHANGED << board, basepos, sateprn, posstate, tracetable, interface, chansta,
                     direcdata, seen >>
    BY <1>10 DEF getip, IpPage
  <2> HIDE DEF store, env, Replies, sendcmd, Logs
  <2> QED
    BY <2>2, <2>3, <2>4, <2>5, <2>6
<1>11. CASE getip_half
  BY <1>11 DEF getip_half
<1>12. CASE getinter
  BY <1>12 DEF getinter
<1>13. CASE getpassword
  BY <1>13 DEF getpassword
<1>14. CASE \E page \in Pages \ {"getpassword"} : Refused(page)
  BY <1>14 DEF Refused
<1>15. CASE unknown_page
  <2>1. alive' \in BOOLEAN
    BY <1>15 DEF unknown_page
  <2>2. CASE reply' = [page |-> "unknown", body |-> None]
    BY <1>15, <2>1, <2>2 DEF unknown_page
  <2>3. CASE reply' = Silence
    BY <1>15, <2>1, <2>3 DEF unknown_page, Silence
  <2> QED
    BY <1>15, <2>2, <2>3 DEF unknown_page
<1> QED
  BY <1>1, <1>2, <1>3, <1>4, <1>5, <1>6, <1>7, <1>8, <1>9, <1>10, <1>11,
     <1>12, <1>13, <1>14, <1>15 DEF pro_guide

(* The store keeps its types: lists hold byte-sized satellite numbers,     *)
(* net.ip a sequence of numbers, whatever reports and pages come.          *)
THEOREM TypeCorrect == Spec => []TypeOK
<1>1. TypeOK /\ [Next]_vars => TypeOK'
  <2> SUFFICES ASSUME TypeOK, [Next]_vars PROVE TypeOK'
    OBVIOUS
  <2>1. CASE deal_pro
    BY <2>1, BoardTyped, SatTyped, OtherReportsTyped DEF deal_pro
  <2>2. CASE pro_guide
    BY <2>2, PagesTyped
  <2>3. CASE DecoderDies \/ DecoderStarts
    BY <2>3 DEF DecoderDies, DecoderStarts, TypeOK, store, Silence
  <2>4. CASE UNCHANGED vars
    BY <2>4 DEF vars, store, env, TypeOK
  <2> QED
    BY <2>1, <2>2, <2>3, <2>4 DEF Next
<1> QED
  BY InitTyped, <1>1, PTL DEF Spec


-----------------------------------------------------------------------------
(* The satellite lists. *)

(* After a report that lists satellites, the three loops over it agree. *)
LEMMA SatListsOfReport ==
  ASSUME NEW f \in Sats, SatLists, rsat(f)
  PROVE  SatLists'
<1> USE DEF SatLists, UsedAreTracked, TableMatchesAction, rsat
<1>1. \A s \in Systems : posstate'.sateprn[s] = Used(f, s)
  BY DEF possend, Position, Empty
<1>2. CASE f.sats = << >>
  <2>1. \A s \in Systems : Used(f, s) = {}
    BY <1>2 DEF Used, Of
  <2>2. sateprn' = sateprn /\ tracetable' = tracetable
    BY <1>2 DEF actionsend, tracesend
  <2> QED
    BY <1>1, <2>1, <2>2
<1>3. CASE f.sats # << >>
  <2>1. \A s \in Systems : /\ sateprn'[s] = {Entry(f.sats, k) : k \in Of(f.sats, s)}
                           /\ tracetable'[s] = {Row(f.sats, k) : k \in Of(f.sats, s)}
    BY <1>3 DEF actionsend, tracesend
  <2>2. ASSUME NEW s \in Systems
        PROVE  posstate'.sateprn[s] \subseteq sateprn'[s]
    BY <1>1, <2>1 DEF Used
  <2>3. ASSUME NEW s \in Systems
        PROVE  sateprn'[s] = {[at |-> r.at, prn |-> r.prn] : r \in tracetable'[s]}
    <3>1. ASSUME NEW e \in sateprn'[s]
          PROVE  \E r \in tracetable'[s] : e = [at |-> r.at, prn |-> r.prn]
      <4>1. PICK k \in Of(f.sats, s) : e = Entry(f.sats, k)
        BY <2>1
      <4>2. Row(f.sats, k) \in tracetable'[s]
        BY <2>1
      <4> QED
        BY <4>1, <4>2 DEF Entry, Row
    <3>2. ASSUME NEW r \in tracetable'[s]
          PROVE  [at |-> r.at, prn |-> r.prn] \in sateprn'[s]
      <4>1. PICK k \in Of(f.sats, s) : r = Row(f.sats, k)
        BY <2>1
      <4>2. [at |-> r.at, prn |-> r.prn] = Entry(f.sats, k)
        BY <4>1 DEF Entry, Row
      <4> QED
        BY <2>1, <4>2
    <3> QED
      BY <3>1, <3>2
  <2>4. ASSUME NEW s \in Systems, NEW e \in posstate'.sateprn[s]
        PROVE  \E r \in tracetable'[s] : r.at = e.at /\ r.prn = e.prn /\ r.satstatus = 0
    <3>1. PICK k \in Of(f.sats, s) : f.sats[k].satstatus = 0 /\ e = Entry(f.sats, k)
      BY <1>1, <2>4 DEF Used
    <3>2. Row(f.sats, k) \in tracetable'[s]
      BY <2>1, <3>1
    <3> QED
      BY <3>1, <3>2 DEF Entry, Row
  <2> QED
    BY <2>2, <2>3, <2>4
<1> QED
  BY <1>2, <1>3

(* Nothing but a satinfo report writes the lists. *)
LEMMA ListsKept ==
  ASSUME [Next]_vars, \A f \in Sats : ~ rsat(f)
  PROVE  UNCHANGED << sateprn, posstate, tracetable >>
<1> USE DEF store, vars
<1>1. CASE deal_pro
  BY <1>1 DEF deal_pro, rboard, rinter, rchansta, Channels, rdirec
<1>2. CASE pro_guide
  BY <1>2 DEF pro_guide, state, getengine, getserclient, action, position, table, getpos,
     getdir, getchansta, ChannelPage, getip, IpPage, getip_half, getinter, getpassword,
     Refused, unknown_page
<1>3. CASE DecoderDies \/ DecoderStarts \/ UNCHANGED vars
  BY <1>3 DEF DecoderDies, DecoderStarts
<1> QED
  BY <1>1, <1>2, <1>3 DEF Next

LEMMA SatListsInductive ==
  /\ Init => SatLists
  /\ SatLists /\ [Next]_vars => SatLists'
<1>1. Init => SatLists
  BY DEF Init, StartedWith, Empty, SatLists, UsedAreTracked, TableMatchesAction
<1>2. ASSUME SatLists, [Next]_vars PROVE SatLists'
  <2>1. CASE \E f \in Sats : rsat(f)
    BY <1>2, <2>1, SatListsOfReport
  <2>2. CASE \A f \in Sats : ~ rsat(f)
    BY <1>2, <2>2, ListsKept DEF SatLists, UsedAreTracked, TableMatchesAction
  <2> QED
    BY <2>1, <2>2
<1> QED
  BY <1>1, <1>2

(* The position page never lists a satellite the action page does not,     *)
(* although the two are reset under different conditions.                  *)
THEOREM UsedSatellitesAreTracked == Spec => []UsedAreTracked
<1>1. SatLists => UsedAreTracked
  BY DEF SatLists
<1> QED
  BY SatListsInductive, <1>1, PTL DEF Spec

(* The tracking table, the action page and the position page agree on      *)
(* every satellite they share.                                             *)
THEOREM PagesAgreeOnSatellites == Spec => []TableMatchesAction
<1>1. SatLists => TableMatchesAction
  BY DEF SatLists
<1> QED
  BY SatListsInductive, <1>1, PTL DEF Spec


-----------------------------------------------------------------------------
(* net.ip. *)

IpInv == TypeOK /\ IpIsPrefix /\ IpReplyIsCut

(* Cutting at the last dot keeps the string a prefix, and answers with it. *)
LEMMA IpCutByPage ==
  ASSUME IpInv, getip
  PROVE  IpIsPrefix' /\ IpReplyIsCut'
<1> USE DEF IpInv, getip, IpPage, Replies
<1>1. CASE Len(ip) > 1
  <2> DEFINE n == Len(ip) - 1
  <2>1. ip \in Seq(Nat) /\ board # Zeros
    BY <1>1 DEF TypeOK, IpIsPrefix
  <2>2. Len(ip) \in 2..5 /\ n \in 1..4
    <3>1. Len(ip) \in 1..5
      BY <2>1 DEF IpIsPrefix
    <3> QED
      BY <1>1, <3>1
  <2>3. ip' = SubSeq(ip, 1, n)
    BY <1>1
  <2>4. Len(ip') = n /\ \A i \in 1..n : ip'[i] = ip[i]
    <3>1. n \in Int /\ \A i \in 1..n : ip[i] \in Nat
      BY <2>1, <2>2
    <3> HIDE DEF n
    <3>2. /\ Len(SubSeq(ip, 1, n)) = IF 1 <= n THEN n - 1 + 1 ELSE 0
          /\ \A i \in 1..n - 1 + 1 : SubSeq(ip, 1, n)[i] = ip[1 + i - 1]
      BY <3>1, SubSeqProperties
    <3> QED
      BY <2>2, <2>3, <3>2
  <2>5. \A i \in 1..n + 1 : ip[i] = Dotted(board)[i]
    BY <2>1, <2>2 DEF IpIsPrefix
  <2>6. /\ board' = board /\ Dotted(board') = Dotted(board)
        /\ n = 5 - readings'
    <3>1. readings \in Nat /\ Len(ip) = 5 - readings /\ readings' = readings + 1
      BY <1>1, <2>1 DEF TypeOK, IpIsPrefix
    <3> QED
      BY <2>2, <3>1
  <2> HIDE DEF n
  <2>7. IpIsPrefix'
    BY <2>1, <2>2, <2>4, <2>5, <2>6 DEF IpIsPrefix
  <2>8. /\ reply'.body.ip = ip'
        /\ reply'.body.port = ip[n + 1]
    BY <1>1, <2>1, <2>2 DEF n
  <2>9. reply'.body.port = Dotted(board)[n + 1]
    BY <2>2, <2>5, <2>8
  <2>10. IpReplyIsCut'
    BY <2>2, <2>4, <2>5, <2>6, <2>8, <2>9 DEF IpReplyIsCut
  <2> QED
    BY <2>7, <2>10
<1>2. CASE ~ (Len(ip) > 1)
  BY <1>2 DEF IpIsPrefix, Dotted, IpReplyIsCut
<1> QED
  BY <1>1, <1>2

(* An oemstatus report makes it whole again. *)
LEMMA IpMadeWhole ==
  ASSUME IpInv, NEW b \in Boards, rboard(b)
  PROVE  IpIsPrefix' /\ IpReplyIsCut'
<1>1. board' = b /\ ip' = Dotted(b) /\ reply' = Silence /\ readings' = 0
  BY DEF rboard, ipsend, Arrives
<1>2. b # Zeros
  BY DistinctValues
<1>3. Len(Dotted(b)) = 5
  BY DEF Dotted
<1> QED
  BY <1>1, <1>2, <1>3 DEF IpIsPrefix, IpReplyIsCut, Silence, Dotted

LEMMA IpKept ==
  ASSUME IpInv, [Next]_vars, ~ getip, \A b \in Boards : ~ rboard(b)
  PROVE  IpIsPrefix' /\ IpReplyIsCut'
<1> USE DEF store, vars
<1>1. UNCHANGED << board, ip, readings >>
  <2>1. CASE deal_pro
    BY <2>1 DEF deal_pro, rsat, rinter, rchansta, Channels, rdirec
  <2>2. CASE pro_guide
    BY <2>2 DEF pro_guide, state, getengine, getserclient, action, position, table, getpos,
       getdir, getchansta, ChannelPage, getip_half, getinter, getpassword, Refused, unknown_page
  <2>3. CASE DecoderDies \/ DecoderStarts \/ UNCHANGED vars
    BY <2>3 DEF DecoderDies, DecoderStarts
  <2> QED
    BY <2>1, <2>2, <2>3 DEF Next
<1>2. reply' = reply \/ reply'.page # "getip" \/ reply'.body = None
  <2>1. CASE deal_pro
    BY <2>1 DEF deal_pro, rsat, rinter, rchansta, Channels, rdirec, Arrives, Silence
  <2>2. CASE pro_guide
    BY <2>2 DEF pro_guide, state, getengine, getserclient, action, position, table, getpos,
       getdir, getchansta, ChannelPage, getip_half, getinter, getpassword, Refused, unknown_page,
       Replies, Silence
  <2>3. CASE DecoderDies \/ DecoderStarts \/ UNCHANGED vars
    BY <2>3 DEF DecoderDies, DecoderStarts, Silence
  <2> QED
    BY <2>1, <2>2, <2>3 DEF Next
<1>3. IpIsPrefix'
  BY <1>1 DEF IpInv, IpIsPrefix, Dotted
<1>4. IpReplyIsCut'
  BY <1>1, <1>2 DEF IpInv, IpReplyIsCut, Dotted
<1> QED
  BY <1>3, <1>4

(* The k-th answer of getip after an oemstatus report is that report's     *)
(* dotted string without its last k - 1 numbers: right after the report it *)
(* is the whole address and port.                                          *)
THEOREM IpAnswersAreCuts == Spec => []IpReplyIsCut
<1>1. Init => IpIsPrefix /\ IpReplyIsCut
  BY DEF Init, StartedWith, IpIsPrefix, IpReplyIsCut, Silence
<1>2. TypeOK /\ IpIsPrefix /\ IpReplyIsCut /\ [Next]_vars => (IpIsPrefix /\ IpReplyIsCut)'
  BY IpCutByPage, IpMadeWhole, IpKept DEF IpInv
<1> QED
  BY TypeCorrect, <1>1, <1>2, PTL DEF Spec

-----------------------------------------------------------------------------
(* The heading. *)

LEMMA HeadingInductive ==
  /\ Init => HeadingNeedsGetdir
  /\ TypeOK /\ HeadingNeedsGetdir /\ [Next]_vars => HeadingNeedsGetdir'
<1> USE DEF HeadingNeedsGetdir
<1>1. Init => HeadingNeedsGetdir
  BY DEF Init, StartedWith
<1>2. ASSUME TypeOK, HeadingNeedsGetdir, [Next]_vars PROVE HeadingNeedsGetdir'
  <2> USE <1>2 DEF store, env, sendcmd
  <2>. seen \in [sat : Sats \cup {None}, pipe : Pipes \cup {None}, dir : BOOLEAN]
    BY DEF TypeOK
  <2>1. CASE deal_pro
    <3>1. asked' = asked
      BY <2>1 DEF deal_pro, rboard, rsat, rinter, rchansta, Channels, rdirec, Arrives
    <3>2. seen'.dir = seen.dir
      BY <2>1 DEF deal_pro, rboard, rsat, rinter, rchansta, Channels, rdirec
    <3>3. direcdata' = direcdata \/ "gputab" \in asked
      BY <2>1 DEF deal_pro, rboard, rsat, rinter, rchansta, Channels, rdirec, Arrives
    <3> QED
      BY <3>1, <3>2, <3>3
  <2>2. CASE getdir
    BY <2>2 DEF getdir
  <2>3. CASE pro_guide /\ ~ getdir
    BY <2>3 DEF pro_guide, state, getengine, getserclient, action, position, table, getpos,
       getchansta, ChannelPage, getip, IpPage, getip_half, getinter, getpassword, Refused,
       unknown_page
  <2>4. CASE DecoderDies \/ DecoderStarts \/ UNCHANGED vars
    BY <2>4 DEF DecoderDies, DecoderStarts, vars
  <2> QED
    BY <2>1, <2>2, <2>3, <2>4 DEF Next
<1> QED
  BY <1>1, <1>2

(* The first getdir answers zeros: the log behind it is not asked for when *)
(* the daemon starts, and no answer waits for the report it asks for.      *)
THEOREM HeadingOnlyAfterGetdir == Spec => FirstHeadingIsZero
<1>1. HeadingNeedsGetdir /\ [Next]_vars =>
        [(reply'.page = "getdir" /\ reply'.body \notin {None, Zeros}) => seen.dir]_vars
  <2> SUFFICES ASSUME HeadingNeedsGetdir, Next,
                      reply'.page = "getdir", reply'.body \notin {None, Zeros}
               PROVE  seen.dir
    OBVIOUS
  <2>1. ~ deal_pro /\ ~ DecoderDies /\ ~ DecoderStarts
    BY DEF deal_pro, rboard, rsat, rinter, rchansta, Channels, rdirec, Arrives, Silence,
       DecoderDies, DecoderStarts
  <2>2. getdir
    BY <2>1 DEF Next, pro_guide, state, getengine, getserclient, action, position, table,
       getpos, getchansta, ChannelPage, getip, IpPage, getip_half, getinter, getpassword,
       Refused, unknown_page, Replies, Silence
  <2> QED
    BY <2>2 DEF getdir, Replies, HeadingNeedsGetdir
<1> QED
  BY TypeCorrect, HeadingInductive, <1>1, PTL DEF Spec, FirstHeadingIsZero

-----------------------------------------------------------------------------
(* The channels. *)

(* The flags are those of the last channelinfo report: each one is erased  *)
(* before the report's own are set.                                        *)
FlagsAreOfReport ==
  \A n \in 0 .. FRENUM - 1 : chansta[n] = 1 => seen.pipe # None /\ n \in seen.pipe

(* The two tables agree on the constellation of each name. *)
LEMMA TablesAgree ==
  /\ DOMAIN LABELS = DOMAIN LabelSystem
  /\ \A l \in DOMAIN LabelSystem :
       LABELS[l] \in 0 .. FRENUM - 1 /\ SYS[LABELS[l] + 1] = LabelSystem[l]
BY DEF LABELS, LabelSystem, SYS, FRENUM

LEMMA FlagsOfNewReport ==
  ASSUME TypeOK, NEW f \in Pipes, rchansta(f)
  PROVE  FlagsAreOfReport'
<1>1. seen' = [seen EXCEPT !.pipe = f]
  BY DEF rchansta, Channels
<1>2. seen'.pipe = f
  BY <1>1 DEF TypeOK
<1>3. f # None
  BY DistinctValues
<1>4. \A n \in 0 .. FRENUM - 1 : chansta'[n] = IF n \in f THEN 1 ELSE 0
  BY DEF rchansta, Channels
<1> QED
  BY <1>2, <1>3, <1>4 DEF FlagsAreOfReport

LEMMA FlagsInductive ==
  /\ Init => FlagsAreOfReport
  /\ TypeOK /\ FlagsAreOfReport /\ [Next]_vars => FlagsAreOfReport'
<1>1. Init => FlagsAreOfReport
  BY DEF Init, StartedWith, FlagsAreOfReport
<1>2. ASSUME TypeOK, FlagsAreOfReport, [Next]_vars PROVE FlagsAreOfReport'
  <2>1. CASE \E f \in Pipes : rchansta(f)
    BY <1>2, <2>1, FlagsOfNewReport
  <2>2. CASE ~ \E f \in Pipes : rchansta(f)
    <3>. seen \in [sat : Sats \cup {None}, pipe : Pipes \cup {None}, dir : BOOLEAN]
      BY <1>2 DEF TypeOK
    <3>1. chansta' = chansta /\ seen'.pipe = seen.pipe
      <4>1. CASE deal_pro
        BY <2>2, <4>1 DEF deal_pro, rboard, rsat, rinter, rdirec
      <4>2. CASE pro_guide
        BY <4>2 DEF pro_guide, state, getengine, getserclient, action, position, table, getpos,
           getdir, getchansta, ChannelPage, getip, IpPage, getip_half, getinter, getpassword,
           Refused, unknown_page, store
      <4>3. CASE DecoderDies \/ DecoderStarts \/ UNCHANGED vars
        BY <4>3 DEF DecoderDies, DecoderStarts, vars, store
      <4> QED
        BY <1>2, <4>1, <4>2, <4>3 DEF Next
    <3> QED
      BY <1>2, <3>1 DEF FlagsAreOfReport
  <2> QED
    BY <2>1, <2>2
<1> QED
  BY <1>1, <1>2

(* The page shows the flags, name by name. *)
LEMMA ChannelPageShowsFlags ==
  ASSUME FlagsAreOfReport, getchansta
  PROVE  ChannelPageTruthful'
<1>1. UNCHANGED << chansta, seen >>
  BY DEF getchansta, ChannelPage, store
<1>2. reply'.body = [l \in DOMAIN LABELS |-> chansta[LABELS[l]]]
  BY DEF getchansta, ChannelPage, Replies
<1>3. SUFFICES ASSUME NEW l \in DOMAIN LabelSystem, reply'.body[l] = 1
               PROVE  seen.pipe # None /\ \E n \in seen.pipe : SYS[n + 1] = LabelSystem[l]
  BY <1>1 DEF ChannelPageTruthful
<1>4. chansta[LABELS[l]] = 1
  BY <1>2, <1>3, TablesAgree
<1>5. seen.pipe # None /\ LABELS[l] \in seen.pipe
  BY <1>4, TablesAgree DEF FlagsAreOfReport
<1> QED
  BY <1>5, TablesAgree

LEMMA ChannelAnswerKept ==
  ASSUME ChannelPageTruthful, [Next]_vars, ~ getchansta
  PROVE  ChannelPageTruthful'
<1>1. UNCHANGED << reply, seen >> \/ reply'.page # "getchansta" \/ reply'.body = None
  <2>1. CASE deal_pro
    BY <2>1 DEF deal_pro, rboard, rsat, rinter, rchansta, Channels, rdirec, Arrives, Silence
  <2>2. CASE pro_guide
    BY <2>2 DEF pro_guide, state, getengine, getserclient, action, position, table, getpos,
       getdir, getip, IpPage, getip_half, getinter, getpassword, Refused, unknown_page,
       Replies, Silence
  <2>3. CASE DecoderDies \/ DecoderStarts \/ UNCHANGED vars
    BY <2>3 DEF DecoderDies, DecoderStarts, Silence, vars, store
  <2> QED
    BY <2>1, <2>2, <2>3 DEF Next
<1> QED
  BY <1>1 DEF ChannelPageTruthful

(* getchansta shows a frequency as used only if the last channelinfo       *)
(* report had a channel on one of that name's constellation (rchansta's    *)
(* memset, and the tables of web_pro.c and deal_pro.c).                    *)
THEOREM ChannelsShownAreReported == Spec => []ChannelPageTruthful
<1>1. Init => ChannelPageTruthful
  BY DEF Init, StartedWith, ChannelPageTruthful, Silence
<1>2. FlagsAreOfReport /\ ChannelPageTruthful /\ [Next]_vars => ChannelPageTruthful'
  BY ChannelPageShowsFlags, ChannelAnswerKept
<1> QED
  BY TypeCorrect, FlagsInductive, <1>1, <1>2, PTL DEF Spec

-----------------------------------------------------------------------------
(* The logs. *)

(* A page that answers has written its commands: the log its contents come *)
(* from is asked for, of the decoder that now runs.                        *)
THEOREM AnswersRefreshTheirLog == Spec => AnswerKeepsItsLogAlive
<1>1. [Next]_vars =>
        [(reply'.page \in DOMAIN RefreshedBy /\ reply'.body # None)
           => RefreshedBy[reply'.page] \in logs']_vars
  <2> SUFFICES ASSUME Next, reply'.page \in DOMAIN RefreshedBy, reply'.body # None
               PROVE  RefreshedBy[reply'.page] \in logs'
    OBVIOUS
  <2> USE DEF RefreshedBy, Replies, sendcmd
  <2>1. ~ deal_pro /\ ~ DecoderDies /\ ~ DecoderStarts
    BY DEF deal_pro, rboard, rsat, rinter, rchansta, Channels, rdirec, Arrives, Silence,
       DecoderDies, DecoderStarts
  <2>2. CASE state \/ getengine \/ getserclient
    BY <2>2 DEF state, getengine, getserclient
  <2>3. CASE action \/ position \/ table \/ getpos
    BY <2>3 DEF action, position, table, getpos
  <2>4. CASE getdir \/ getchansta
    BY <2>4 DEF getdir, getchansta, ChannelPage
  <2>5. CASE getip
    <3>1. reply'.page = "getip" /\ logs' = logs \cup {"interfaceinfo", "oemstatus"}
      BY <2>5 DEF getip, IpPage
    <3> QED
      BY <3>1
  <2>6. CASE getinter
    BY <2>6 DEF getinter
  <2>7. CASE getip_half \/ getpassword \/ unknown_page \/ \E page \in Pages : Refused(page)
    BY <2>7 DEF getip_half, getpassword, unknown_page, Refused, Silence
  <2> QED
    BY <2>1, <2>2, <2>3, <2>4, <2>5, <2>6, <2>7 DEF Next, pro_guide
<1> QED
  BY <1>1, PTL DEF Spec, AnswerKeepsItsLogAlive

=============================================================================
