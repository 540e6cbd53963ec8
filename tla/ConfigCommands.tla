--------------------------- MODULE ConfigCommands ----------------------------
(***************************************************************************)
(* pro_config and its setters (web_pro.c): a request with a query of named *)
(* values becomes a sequence of commands, written to the decoder one by    *)
(* one.  The decoder (external) may die and come back between two of them; *)
(* the first write that fails ends the request.                            *)
(*                                                                         *)
(* A setter goes through a fixed number of places.  At a place it writes   *)
(* the command its value calls for, or none.  The value of a place the     *)
(* query has no value for is that of an array nobody has written: any.     *)
(*                                                                         *)
(* setpassword writes no command; ConfigSystem adds the file it writes.    *)
(***************************************************************************)
EXTENDS Integers, Sequences, SequencesExt

CONSTANTS
  Requests,   \* the requests: [config, params, tail], as url_parse leaves them
  Junk,       \* values an array that was not written may hold
  MAXPRN,     \* places of a list of satellites: 30
  None        \* no request

VARIABLES
  request,    \* the request being served, or the last one
  todo,       \* for each place to come, the commands that may be written there
  sent,       \* the commands of this request that have been written
  outcome,    \* of the request: "none", "writing", "done", "failed"
  decoder     \* "up" or "down"

vars == << request, todo, sent, outcome, decoder >>

-----------------------------------------------------------------------------
(* The query: parameters in order, each a name and a value.  Behind them   *)
(* is its tail, the parameters at its end once more, which decoding leaves *)
(* there if escapes made the query shorter.                                *)
Has(q, name) == \E i \in DOMAIN q : q[i].name = name

get_param_value(q, name) ==
  q[CHOOSE i \in DOMAIN q : q[i].name = name /\ \A j \in 1 .. i - 1 : q[j].name # name].value

(* The entries of a sequence that are not in a set. *)
Kept(s, T) ==
  LET upto[n \in Nat] ==
        IF n = 0 THEN << >>
        ELSE IF s[n] \in T THEN upto[n - 1] ELSE Append(upto[n - 1], s[n])
  IN upto

Without(s, T) == Kept(s, T)[Len(s)]

(* Every value of that name, in order. *)
Values(q, name) ==
  LET named == Without(q, {p \in Range(q) : p.name # name})
  IN [i \in DOMAIN named |-> named[i].value]

(* What the loops over get_param_array collect: they look into the tail. *)
Listed(r, name) == Values(r.params, name) \o Values(r.tail, name)

(* A number put in a char keeps its low byte. *)
Char(v) == v % 256

Cmd(verb, of, args) == [verb |-> verb, of |-> of, args |-> args]

Skip == Cmd("", "", << >>)     \* no command

(* What may be written at place i of a list. *)
At(list, i, Say(_)) ==
  IF i <= Len(list) THEN {Say(list[i])} ELSE {Say(v) : v \in Junk}

(* A setter that returns at once unless all these names are in the query. *)
Given(q, names, places) == IF \A n \in names : Has(q, n) THEN places ELSE << >>

Single(q, names, verb, of, args) == Given(q, names, << {Cmd(verb, of, args)} >>)

Get(q, names) == [i \in DOMAIN names |-> get_param_value(q, names[i])]

-----------------------------------------------------------------------------
(* Setters of one write.  A number that selects a word of a table is taken *)
(* to be in the table; an address is its numbers, with dots or without.    *)
setrov(q) == << {Cmd("fix", "none", << >>)} >>

setbasepos(q) ==
  Single(q, {"lat", "lon", "hgt"}, "fix", "position", Get(q, << "lat", "lon", "hgt" >>))

ENTYPE == << "single", "rtk", "sbasppp", "sbasspp", "ssrppp", "ssrspp" >>
engineset(q) == Single(q, {"eng"}, "setpvt", ENTYPE[get_param_value(q, "eng") + 1], << >>)

eleset(q) == Single(q, {"ele"}, "ecutoff", "", Get(q, << "ele" >>))

netset(q) ==
  LET names == << "ip", "gateway", "netmask", "dns" >>
  IN Single(q, {names[i] : i \in DOMAIN names}, "setip, saveconfig", "", Get(q, names))

DIRMODE == << "snb", "swb", "dnb", "dwb" >>
dirset(q) ==
  LET baseline == get_param_value(q, "baseline")
      basebool == IF baseline = 0 THEN 0 ELSE 1
  IN Single(q, {"type", "baseline"}, "set",
            DIRMODE[get_param_value(q, "type") + basebool + 1],
            IF basebool = 1 THEN << baseline >> ELSE << >>)

dirsyset(q) ==
  Single(q, {"type"}, "setpvt", << "dynamic", "static" >>[get_param_value(q, "type") + 1], << >>)

BAUDTYPE == << "921600", "460800", "115200", "38400", "19200", "9600", "4800", "2400",
               "1200", "300" >>
guideserial(q) ==
  Single(q, {"port", "baud", "databit", "check", "stop"}, "com",
         BAUDTYPE[get_param_value(q, "baud") + 1],
         Get(q, << "port", "check", "databit", "stop" >>))

ClientOrServer(q) ==
  IF Char(get_param_value(q, "clientbool")) # 0
    THEN Cmd("setclient", "", Get(q, << "ip", "port" >>))
    ELSE Cmd("setserver", "", Get(q, << "port" >>))

guidenet(q) == Given(q, {"clientbool", "ip", "port"}, << {ClientOrServer(q)} >>)

output(q) ==
  Single(q, {"rtkout", "com"}, "log ontime",
         IF Char(get_param_value(q, "rtkout")) = 0 THEN "gpgga" ELSE "gputa",
         << get_param_value(q, "com"), 1 >>)

rebootset(q) ==
  Single(q, {"type"}, << "reboot", "freset" >>[get_param_value(q, "type") + 1], "", << >>)

-----------------------------------------------------------------------------
(* Setters of many commands. *)
OnOff(v, on, off, of, args) ==
  IF Char(v) = 0 THEN Skip ELSE Cmd(IF Char(v) = 1 THEN on ELSE off, of, args)

Lock(v, sys, args) == OnOff(v, "lockout", "unlockout", sys, args)

SYSTYPE == << "gps", "gln", "gal", "bds", "sbas" >>

(* Five lists of n satellites, then five systems. *)
Row(prn, j, n) == [i \in 1..n |-> At(prn[j], i, LAMBDA v : Lock(v, SYSTYPE[j], << i - 1 >>))]

Locks(sys, prn, n) ==
  Row(prn, 1, n) \o Row(prn, 2, n) \o Row(prn, 3, n) \o Row(prn, 4, n) \o Row(prn, 5, n)
  \o [j \in 1..5 |-> At(sys, j, LAMBDA v : Lock(v, SYSTYPE[j], << >>))]

(* No list is read into the third row. *)
Prn(r) == << Listed(r, "gpsprn"), Listed(r, "gloprn"), << >>,
             Listed(r, "bdsprn"), Listed(r, "sbasprn") >>

satset_past_end(r)  == Locks(Listed(r, "sys"), Prn(r), MAXPRN + 1)     \* faulty: one place too many

satset(r) == Locks(Listed(r, "sys"), Prn(r), MAXPRN)

FRE == << "L1", "L2", "L5", "B1", "B2", "B3", "GL1", "GL2" >>

Close(v, of, args) == OnOff(v, "close", "unclose", of, args)

CloseChannel(q) == Close(get_param_value(q, "chsta"), "", Get(q, << "channel" >>))

channelset(r) ==
  Given(r.params, {"channel", "chsta"},
    [i \in 1..8 |-> At(Listed(r, "closefre"), i, LAMBDA v : Close(v, FRE[i], << >>))]
    \o << {CloseChannel(r.params)} >>)

Antenna(v, com) == Cmd("set com", IF Char(v) = 1 THEN "antn1" ELSE "antn2", << com >>)

antnset(r) == [i \in 1..3 |-> At(Listed(r, "com"), i, LAMBDA v : Antenna(v, i))]

UPRAW == <<
  << "rangeb", "gpsephemb", "bdsephemb", "gloephemb" >>,
  << "rtcm1033b", "rtcm1005b", "rtcm1006b", "rtcm1004b", "rtcm1104b", "rtcm1012b",
     "rtcm1019b", "rtcm1020b", "rtcm4011b" >>,
  << "rtcm1033b", "rtcm1005b", "rtcm1006b", "rtcm1074b", "rtcm1124b", "rtcm1084b",
     "rtcm1019b", "rtcm1020b", "rtcm4011b" >>,
  << "gpgga", "gpgsv", "gprmc", "gpgrs", "gpgsa", "gputa", "gpgll", "gpzda", "gpvtg", "gpgst" >> >>

(* A time of -1 asks for the ranges, of 0 for silence. *)
Upload(time, com, log) ==
  IF time = -1 THEN Cmd("log onchanged", "ranged", << com >>)
  ELSE IF time = 0 THEN Cmd("unlog", log, << com >>)
  ELSE Cmd("log ontime", log, << com, time >>)

Logs(q) == UPRAW[get_param_value(q, "datatype") + 1]

ioset(r) ==
  Given(r.params, {"clientbool", "ip", "port", "com", "datatype"},
    LET logs == Logs(r.params)
        com  == get_param_value(r.params, "com")
    IN << {ClientOrServer(r.params)} >>
       \o [i \in DOMAIN logs |->
             At(Listed(r, "datatime"), i, LAMBDA time : Upload(time, com, logs[i]))])

pro_config(r) ==
  LET q == r.params IN
  CASE r.config = "setrov"      -> setrov(q)
    [] r.config = "setbasepos"  -> setbasepos(q)
    [] r.config = "engineset"   -> engineset(q)
    [] r.config = "eleset"      -> eleset(q)
    [] r.config = "satset"      -> satset(r)
    [] r.config = "channelset"  -> channelset(r)
    [] r.config = "netset"      -> netset(q)
    [] r.config = "dirset"      -> dirset(q)
    [] r.config = "antnset"     -> antnset(r)
    [] r.config = "ioset"       -> ioset(r)
    [] r.config = "guideserial" -> guideserial(q)
    [] r.config = "guidenet"    -> guidenet(q)
    [] r.config = "output"      -> output(q)
    [] r.config = "dirsyset"    -> dirsyset(q)
    [] r.config = "rebootset"   -> rebootset(q)
    [] OTHER                    -> << >>     \* not a setter of commands, or no name

-----------------------------------------------------------------------------
(* What the page is trusted for: no list longer than its array, the tail   *)
(* included, and no type of data outside the table.                        *)
LongestList ==
  [sys |-> 5, gpsprn |-> MAXPRN, gloprn |-> MAXPRN, bdsprn |-> MAXPRN, sbasprn |-> MAXPRN,
   closefre |-> 8, com |-> 3, datatime |-> 10]

ASSUME PageContract ==
  /\ MAXPRN \in Nat \ {0, 1} /\ Junk \subseteq Int /\ None \notin Requests
  /\ \A r \in Requests : r.params \in Seq(Range(r.params)) /\ r.tail \in Seq(Range(r.tail))
  /\ \A r \in Requests : \A name \in DOMAIN LongestList :
       Len(Listed(r, name)) <= LongestList[name]
  /\ \A r \in Requests : (r.config = "ioset" /\ Has(r.params, "datatype")) =>
       get_param_value(r.params, "datatype") + 1 \in DOMAIN UPRAW

Init ==
  /\ request = None /\ todo = << >> /\ sent = << >> /\ outcome = "none"
  /\ decoder = "up"

web_pro(r) ==
  /\ outcome # "writing"
  /\ request' = r /\ todo' = pro_config(r) /\ sent' = << >> /\ outcome' = "writing"
  /\ UNCHANGED decoder

(* The next place: nothing to write, a write, or a write that fails. *)
Place(c) ==
  /\ outcome = "writing" /\ todo # << >>
  /\ c \in Head(todo)

Pass ==
  /\ Place(Skip)
  /\ todo' = Tail(todo)
  /\ UNCHANGED << request, sent, outcome, decoder >>

Write(c) ==
  /\ Place(c) /\ c # Skip /\ decoder = "up"
  /\ sent' = Append(sent, c) /\ todo' = Tail(todo)
  /\ UNCHANGED << request, outcome, decoder >>

WriteFails_goes_on(c) ==     \* faulty: the next command is tried all the same
  /\ Place(c) /\ c # Skip /\ decoder = "down"
  /\ todo' = Tail(todo)
  /\ UNCHANGED << request, sent, outcome, decoder >>

WriteFails(c) ==
  /\ Place(c) /\ c # Skip /\ decoder = "down"
  /\ todo' = << >> /\ outcome' = "failed"
  /\ UNCHANGED << request, sent, decoder >>

Return ==
  /\ outcome = "writing" /\ todo = << >>
  /\ outcome' = "done"
  /\ UNCHANGED << request, todo, sent, decoder >>

(* The decoder: external. *)
DecoderDies ==
  /\ decoder = "up" /\ decoder' = "down"
  /\ UNCHANGED << request, todo, sent, outcome >>

DecoderStarts ==
  /\ decoder = "down" /\ decoder' = "up"
  /\ UNCHANGED << request, todo, sent, outcome >>

Commands ==
  \/ Pass
  \/ \E c \in UNION {todo[i] : i \in DOMAIN todo} : Write(c) \/ WriteFails(c)

Next ==
  \/ \E r \in Requests : web_pro(r)
  \/ Commands \/ Return
  \/ DecoderDies \/ DecoderStarts

Spec == Init /\ [][Next]_vars

-----------------------------------------------------------------------------
(* No request writes more commands than there are places in the longest,   *)
(* satset: 155 in the code, the MAXCMDS of EventLoop.                      *)
MostCommands == 5 * MAXPRN + 5

TypeOK ==
  /\ request \in Requests \cup {None}
  /\ Len(sent) + Len(todo) <= MostCommands
  /\ \A i \in DOMAIN sent : sent[i] # Skip
  /\ outcome \in {"none", "writing", "done", "failed"}
  /\ outcome # "writing" => todo = << >>
  /\ decoder \in {"up", "down"}

(* What a query asks for, read off its lists: a command for every value    *)
(* that is not 0.                                                          *)
Said(s) == Without(s, {Skip})

Satellites(q, name, of) ==
  LET list == Values(q, name)
  IN Said([i \in DOMAIN list |-> Lock(list[i], of, << i - 1 >>)])

Asked(r) ==
  LET q == r.params IN
  CASE r.config = "satset" ->
         LET sys == Values(q, "sys") IN
         Satellites(q, "gpsprn", "gps") \o Satellites(q, "gloprn", "gln")
         \o Satellites(q, "bdsprn", "bds") \o Satellites(q, "sbasprn", "sbas")
         \o Said([i \in DOMAIN sys |-> Lock(sys[i], SYSTYPE[i], << >>)])
    [] r.config = "channelset" ->
         LET closefre == Values(q, "closefre") IN
         Given(q, {"channel", "chsta"},
           Said([i \in DOMAIN closefre |-> Close(closefre[i], FRE[i], << >>)])
           \o Said(<< CloseChannel(q) >>))
    [] r.config = "antnset" ->
         LET com == Values(q, "com") IN [i \in DOMAIN com |-> Antenna(com[i], i)]
    [] r.config = "ioset" ->
         LET times == Values(q, "datatime") IN
         Given(q, {"clientbool", "ip", "port", "com", "datatype"},
           << ClientOrServer(q) >>
           \o [i \in DOMAIN Logs(q) |-> Upload(times[i], get_param_value(q, "com"), Logs(q)[i])])

(* Requests of several commands.  Of ioset one with a time for each log:   *)
(* a command for the ranges does not tell which log it is for.             *)
OfMany(r) ==
  \/ r.config \in {"satset", "channelset", "antnset"}
  \/ /\ r.config = "ioset"
     /\ \/ ~ Has(r.params, "datatype")
        \/ Len(Values(r.params, "datatime")) >= Len(Logs(r.params))

(* The commands about places the query gives no value for. *)
NoValue(r, name) == Len(Values(r.params, name)) + 1 .. LongestList[name]

LOCKS == {"lockout", "unlockout"}

Prns(of, places) == {Cmd(verb, of, << i - 1 >>) : verb \in LOCKS, i \in places}

Systems(places) == {Cmd(verb, SYSTYPE[i], << >>) : verb \in LOCKS, i \in places}

Frequencies(places) ==
  {Cmd(verb, FRE[i], << >>) : verb \in {"close", "unclose"}, i \in places}

Unasked(r) ==
  CASE r.config = "satset" ->
         Prns("gps", NoValue(r, "gpsprn")) \cup Prns("gln", NoValue(r, "gloprn"))
         \cup Prns("gal", 1..MAXPRN) \cup Prns("bds", NoValue(r, "bdsprn"))
         \cup Prns("sbas", NoValue(r, "sbasprn")) \cup Systems(NoValue(r, "sys"))
    [] r.config = "channelset" -> Frequencies(NoValue(r, "closefre"))
    [] r.config = "antnset" -> {Antenna(v, i) : v \in {1, 2}, i \in NoValue(r, "com")}
    [] OTHER -> {}

(* The decoder is sent what was asked for, in order, up to the first write *)
(* that fails: never a later command without an earlier one, also if the   *)
(* decoder is back for it.  What else it is sent, as the arrays nobody     *)
(* wrote or the tail of the query have it, is about the places the query   *)
(* gave no value for, and all Galileo satellites.                          *)
AskedInOrder ==
  (request # None /\ OfMany(request)) =>
    LET mine == Without(sent, Unasked(request)) IN
    /\ IsPrefix(mine, Asked(request))
    /\ outcome = "done" => mine = Asked(request)

(* What a comment of the code says of dirset's type, pro.h:160: 0 is for   *)
(* one frequency, 1 for two; the baseline decides between nb and wb.       *)
DirectionAsDocumented ==
  (outcome = "done" /\ request.config = "dirset") =>
    LET q == request.params
        dual == get_param_value(q, "type") = 1
        baseline == get_param_value(q, "baseline")
    IN sent = << IF baseline = 0
                   THEN Cmd("set", IF dual THEN "dnb" ELSE "snb", << >>)
                   ELSE Cmd("set", IF dual THEN "dwb" ELSE "swb", << baseline >>) >>
=============================================================================
