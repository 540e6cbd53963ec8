---------------------------- MODULE ConfigProofs -----------------------------
(***************************************************************************)
(* The password file, the number of commands and their order, for every   *)
(* set of texts and of requests.                                           *)
(*                                                                         *)
(* The file holds the newest text, unless it was cut to nothing for it and *)
(* the text has not come: because it is still to be written, or because    *)
(* the daemon was stopped or the disk full.                                *)
(*                                                                         *)
(* A setter goes through a bounded number of places, and writes at most a  *)
(* command at each.  What it has written, with what it still goes through, *)
(* is what the request asked for.                                          *)
(***************************************************************************)
EXTENDS ConfigSystem, SequenceTheorems, WellFoundedInduction, TLAPS

FileInv ==
  /\ FileTypeOK
  /\ file \in {newest, Broken}
  /\ saving # NoText => saving = newest /\ file = Broken
  /\ (saving = NoText /\ ~ disturbed) => file = newest

(* What setpassword makes of two texts is an object. *)
LEMMA TextsMakeObject ==
  ASSUME NEW account \in Texts, NEW password \in Texts
  PROVE  [account  |-> json_object_set_string(account),
          password |-> json_object_set_string(password)] \in Object
BY DEF Texts, Object, Strings, json_object_set_string

(* What is read from a file is what it holds, or nothing. *)
LEMMA ParsedOrNothing ==
  ASSUME NEW f
  PROVE  /\ json_parse_file(f) \in Object \cup {NoText}
         /\ json_parse_file(f) # NoText => json_parse_file(f) = f /\ f \in Object
BY DEF json_parse_file

LEMMA BrokenIsNoObject == Broken \notin Object
<1>1. "password" \notin DOMAIN Broken
  BY DEF Broken
<1>2. \A f \in Object : "password" \in DOMAIN f
  BY DEF Object
<1> QED
  BY <1>1, <1>2

LEMMA FileInitInv == SystemInit => FileInv
BY TextAssumption DEF SystemInit, FileInit, FileInv, FileTypeOK

(* Every step keeps the invariant: by what it does to the file. *)
LEMMA FileStepInv == FileInv /\ [SystemNext]_SystemVars => FileInv'
<1> SUFFICES ASSUME FileInv, [SystemNext]_SystemVars PROVE FileInv'
  OBVIOUS
<1> USE DEF FileInv, FileTypeOK
<1>1. ASSUME NEW account \in Texts, NEW password \in Texts, setpassword(account, password)
      PROVE  FileInv'
  <2> DEFINE jv == [account  |-> json_object_set_string(account),
                    password |-> json_object_set_string(password)]
  <2>1. jv \in Object /\ jv # NoText
    BY TextsMakeObject, TextAssumption
  <2>2. saving' = jv /\ newest' = jv /\ disturbed' = FALSE /\ file' = Broken /\ answer' = answer
    BY <1>1 DEF setpassword, Opened
  <2> QED
    BY <2>1, <2>2
<1>2. CASE UNCHANGED fileVars
  BY <1>2 DEF fileVars
<1>3. CASE Closed
  BY <1>3 DEF Closed
<1>4. CASE DiskFull
  BY <1>4 DEF DiskFull
<1>5. CASE FileStops
  BY <1>5 DEF FileStops
<1>6. CASE getpassword
  BY <1>6, ParsedOrNothing DEF getpassword
<1>7. ASSUME NEW r \in Requests, Serve(r) PROVE FileInv'
  <2>1. CASE UNCHANGED fileVars
    BY <2>1, <1>2
  <2>2. CASE OpenFails
    BY <2>2, <1>2 DEF OpenFails, fileVars
  <2>3. CASE /\ r.config = "setpassword" /\ Both(r)
             /\ setpassword(Text(r, "account"), Text(r, "password"))
    BY <2>3, <1>1, PasswordContract
  <2> QED
    BY <1>7, <2>1, <2>2, <2>3 DEF Serve
<1> QED
  BY <1>2, <1>3, <1>4, <1>5, <1>6, <1>7
  DEF SystemNext, SystemVars, ReadPassword, DaemonStops

LEMMA FileInvariant == SystemSpec => []FileInv
BY FileInitInv, FileStepInv, PTL DEF SystemSpec

(* The file, what is being written to it, and what was read from it are    *)
(* objects of at most two strings, or nothing.                             *)
THEOREM FileTypeCorrect == SystemSpec => []FileTypeOK
<1>1. FileInv => FileTypeOK
  BY DEF FileInv
<1> QED
  BY <1>1, FileInvariant, PTL

(* Undisturbed, a password that was set is kept and reads as it was        *)
(* written, unless it holds a control character (setpassword,              *)
(* json_serialize_to_file, json_parse_file).                               *)
THEOREM PasswordIsKept == SystemSpec => []PasswordKept
<1>1. FileInv => PasswordKept
  BY DEF FileInv, FileTypeOK, PasswordKept, json_parse_file
<1> QED
  BY <1>1, FileInvariant, PTL

(* What getpassword answers, if anything, is the newest account and        *)
(* password the file was opened for.                                       *)
THEOREM AnswersAreNewest == SystemSpec => AnswerIsNewest
<1>1. FileInv /\ [SystemNext]_SystemVars
        => [(ReadPassword /\ answer' # NoText) => answer' = newest]_SystemVars
  <2> SUFFICES ASSUME FileInv, ReadPassword, answer' # NoText PROVE answer' = newest
    OBVIOUS
  <2>1. answer' = json_parse_file(file)
    BY DEF ReadPassword, getpassword
  <2>2. answer' = file /\ file \in Object
    BY <2>1, ParsedOrNothing
  <2> QED
    BY <2>2, BrokenIsNoObject DEF FileInv
<1> QED
  BY <1>1, FileInvariant, PTL DEF SystemSpec, AnswerIsNewest

-----------------------------------------------------------------------------
(* The commands of a request.                                              *)

(* A sequence of at most n. *)
UpTo(s, n) == \E S : s \in Seq(S) /\ Len(s) <= n

LEMMA UpToMore ==
  ASSUME NEW s, NEW m \in Nat, NEW n \in Nat, UpTo(s, m), m <= n
  PROVE  UpTo(s, n)
<1>1. PICK S : s \in Seq(S) /\ Len(s) <= m
  BY DEF UpTo
<1>2. Len(s) \in Nat
  BY <1>1, LenProperties
<1> QED
  BY <1>1, <1>2 DEF UpTo

LEMMA NoneUpTo ==
  ASSUME NEW n \in Nat
  PROVE  UpTo(<< >>, n)
<1>1. << >> \in Seq({}) /\ Len(<< >>) <= n
  BY EmptySeq
<1> QED
  BY <1>1 DEF UpTo

LEMMA OneUpTo ==
  ASSUME NEW x
  PROVE  UpTo(<< x >>, 1)
<1>1. << x >> \in Seq({x}) /\ Len(<< x >>) <= 1
  OBVIOUS
<1> QED
  BY <1>1 DEF UpTo

LEMMA ListUpTo ==
  ASSUME NEW n \in Nat, NEW f, f = [i \in 1..n |-> f[i]]
  PROVE  UpTo(f, n)
<1>1. f \in [1..n -> {f[i] : i \in 1..n}]
  OBVIOUS
<1>2. f \in Seq({f[i] : i \in 1..n}) /\ Len(f) = n
  BY <1>1
<1> QED
  BY <1>2 DEF UpTo

LEMMA JoinedUpTo ==
  ASSUME NEW f, NEW g, NEW m \in Nat, NEW n \in Nat, UpTo(f, m), UpTo(g, n)
  PROVE  UpTo(f \o g, m + n)
<1>1. PICK S : f \in Seq(S) /\ Len(f) <= m
  BY DEF UpTo
<1>2. PICK T : g \in Seq(T) /\ Len(g) <= n
  BY DEF UpTo
<1>3. f \in Seq(S \cup T) /\ g \in Seq(S \cup T)
  BY <1>1, <1>2, SeqMonotonic
<1>4. f \o g \in Seq(S \cup T) /\ Len(f \o g) = Len(f) + Len(g)
  BY <1>3, ConcatProperties
<1>5. Len(f) \in Nat /\ Len(g) \in Nat
  BY <1>1, <1>2, LenProperties
<1> QED
  BY <1>1, <1>2, <1>4, <1>5 DEF UpTo

LEMMA GivenUpTo ==
  ASSUME NEW q, NEW names, NEW places, NEW n \in Nat \ {0}, UpTo(places, n)
  PROVE  UpTo(Given(q, names, places), n)
<1>1. UpTo(<< >>, n)
  BY NoneUpTo
<1> QED
  BY <1>1 DEF Given

LEMMA SingleUpTo ==
  ASSUME NEW q, NEW names, NEW verb, NEW of, NEW args
  PROVE  UpTo(Single(q, names, verb, of, args), 1)
BY OneUpTo, GivenUpTo DEF Single

LEMMA SettersOfOne ==
  ASSUME NEW q
  PROVE  /\ UpTo(setrov(q), 1) /\ UpTo(setbasepos(q), 1) /\ UpTo(engineset(q), 1)
         /\ UpTo(eleset(q), 1) /\ UpTo(netset(q), 1) /\ UpTo(dirset(q), 1)
         /\ UpTo(dirsyset(q), 1) /\ UpTo(guideserial(q), 1) /\ UpTo(guidenet(q), 1)
         /\ UpTo(output(q), 1) /\ UpTo(rebootset(q), 1)
<1>1. UpTo(setrov(q), 1)
  BY OneUpTo DEF setrov
<1>2. UpTo(setbasepos(q), 1) /\ UpTo(engineset(q), 1) /\ UpTo(eleset(q), 1)
  BY SingleUpTo DEF setbasepos, engineset, eleset
<1>3. UpTo(netset(q), 1) /\ UpTo(dirset(q), 1) /\ UpTo(dirsyset(q), 1)
  BY SingleUpTo DEF netset, dirset, dirsyset
<1>4. UpTo(guideserial(q), 1) /\ UpTo(output(q), 1) /\ UpTo(rebootset(q), 1)
  BY SingleUpTo DEF guideserial, output, rebootset
<1>5. UpTo(guidenet(q), 1)
  BY OneUpTo, GivenUpTo DEF guidenet
<1> QED
  BY <1>1, <1>2, <1>3, <1>4, <1>5

LEMMA SatsetUpTo ==
  ASSUME NEW r
  PROVE  UpTo(satset(r), MostCommands)
<1> DEFINE row(j) == Row(Prn(r), j, MAXPRN)
           systems == [j \in 1..5 |->
                         At(Listed(r, "sys"), j, LAMBDA v : Lock(v, SYSTYPE[j], << >>))]
<1>1. satset(r) = row(1) \o row(2) \o row(3) \o row(4) \o row(5) \o systems
  BY DEF satset, Locks
<1>2. MAXPRN \in Nat
  BY PageContract
<1>3. \A j : row(j) = [i \in 1..MAXPRN |-> row(j)[i]]
  BY DEF Row
<1>4. systems = [j \in 1..5 |-> systems[j]]
  OBVIOUS
<1> HIDE DEF row, systems
<1>5. (\A j : UpTo(row(j), MAXPRN)) /\ UpTo(systems, 5)
  BY <1>2, <1>3, <1>4, ListUpTo
<1>6. UpTo(row(1) \o row(2), MAXPRN + MAXPRN)
  BY <1>2, <1>5, JoinedUpTo
<1>7. UpTo(row(1) \o row(2) \o row(3), MAXPRN + MAXPRN + MAXPRN)
  BY <1>2, <1>5, <1>6, JoinedUpTo
<1>8. UpTo(row(1) \o row(2) \o row(3) \o row(4), MAXPRN + MAXPRN + MAXPRN + MAXPRN)
  BY <1>2, <1>5, <1>7, JoinedUpTo
<1>9. UpTo(row(1) \o row(2) \o row(3) \o row(4) \o row(5), MAXPRN + MAXPRN + MAXPRN + MAXPRN + MAXPRN)
  BY <1>2, <1>5, <1>8, JoinedUpTo
<1>10. UpTo(satset(r), MAXPRN + MAXPRN + MAXPRN + MAXPRN + MAXPRN + 5)
  BY <1>1, <1>2, <1>5, <1>9, JoinedUpTo
<1>11. MAXPRN + MAXPRN + MAXPRN + MAXPRN + MAXPRN + 5 = MostCommands
  BY <1>2 DEF MostCommands
<1> QED
  BY <1>10, <1>11

LEMMA ChannelsetUpTo ==
  ASSUME NEW r
  PROVE  UpTo(channelset(r), 9)
<1> DEFINE closed == [i \in 1..8 |->
                        At(Listed(r, "closefre"), i, LAMBDA v : Close(v, FRE[i], << >>))]
           channel == << {CloseChannel(r.params)} >>
<1>1. channelset(r) = Given(r.params, {"channel", "chsta"}, closed \o channel)
  BY DEF channelset
<1>2. closed = [i \in 1..8 |-> closed[i]]
  OBVIOUS
<1>3. UpTo(channel, 1)
  BY OneUpTo
<1> HIDE DEF closed, channel
<1>4. UpTo(closed \o channel, 8 + 1)
  BY <1>2, <1>3, ListUpTo, JoinedUpTo
<1> QED
  BY <1>1, <1>4, GivenUpTo

LEMMA AntnsetUpTo ==
  ASSUME NEW r
  PROVE  UpTo(antnset(r), 3)
<1>1. antnset(r) = [i \in 1..3 |-> antnset(r)[i]]
  BY DEF antnset
<1> QED
  BY <1>1, ListUpTo

(* The type of data is one of the table. *)
LEMMA IosetUpTo ==
  ASSUME NEW r, Has(r.params, "datatype") => get_param_value(r.params, "datatype") + 1 \in DOMAIN UPRAW
  PROVE  UpTo(ioset(r), 11)
<1> DEFINE q == r.params
           logs == Logs(q)
           com  == get_param_value(q, "com")
           uploads == [i \in DOMAIN logs |->
              At(Listed(r, "datatime"), i, LAMBDA time : Upload(time, com, logs[i]))]
           names == {"clientbool", "ip", "port", "com", "datatype"}
<1>1. ioset(r) = Given(q, names, << {ClientOrServer(q)} >> \o uploads)
  BY DEF ioset
<1>2. CASE Has(q, "datatype")
  <2>1. DOMAIN UPRAW = 1..4 /\ \A t \in 1..4 : \E n \in 1..10 : DOMAIN UPRAW[t] = 1..n
    BY DEF UPRAW
  <2>2. PICK n \in 1..10 : DOMAIN logs = 1..n
    BY <1>2, <2>1 DEF Logs
  <2>3. uploads = [i \in 1..n |-> uploads[i]]
    BY <2>2
  <2> HIDE DEF uploads
  <2>4. UpTo(uploads, n)
    BY <2>3, ListUpTo
  <2>5. UpTo(uploads, 10)
    BY <2>4, UpToMore
  <2>6. UpTo(<< {ClientOrServer(q)} >> \o uploads, 1 + 10)
    BY <2>5, OneUpTo, JoinedUpTo
  <2> QED
    BY <1>1, <2>6, GivenUpTo
<1>3. CASE ~ Has(q, "datatype")
  <2>1. ioset(r) = << >>
    BY <1>1, <1>3 DEF Given
  <2> QED
    BY <2>1, NoneUpTo
<1> QED
  BY <1>2, <1>3

(* No setter has more places than satset. *)
LEMMA PlacesBounded ==
  ASSUME NEW r \in Requests
  PROVE  UpTo(pro_config(r), MostCommands)
<1> DEFINE q == r.params
<1>1. MostCommands \in Nat /\ 15 <= MostCommands
  BY PageContract DEF MostCommands
<1> HIDE DEF q
<1>2. /\ UpTo(setrov(q), MostCommands) /\ UpTo(setbasepos(q), MostCommands)
      /\ UpTo(engineset(q), MostCommands) /\ UpTo(eleset(q), MostCommands)
      /\ UpTo(netset(q), MostCommands) /\ UpTo(dirset(q), MostCommands)
      /\ UpTo(dirsyset(q), MostCommands) /\ UpTo(guideserial(q), MostCommands)
      /\ UpTo(guidenet(q), MostCommands) /\ UpTo(output(q), MostCommands)
      /\ UpTo(rebootset(q), MostCommands) /\ UpTo(<< >>, MostCommands)
  <2>1. \A s : UpTo(s, 1) => UpTo(s, MostCommands)
    BY <1>1, UpToMore
  <2> QED
    BY <1>1, <2>1, SettersOfOne, NoneUpTo
<1>3. UpTo(channelset(r), MostCommands) /\ UpTo(antnset(r), MostCommands)
  BY <1>1, ChannelsetUpTo, AntnsetUpTo, UpToMore
<1>4. UpTo(satset(r), MostCommands)
  BY SatsetUpTo
<1>5. ASSUME r.config = "ioset" PROVE UpTo(ioset(r), MostCommands)
  <2>1. UpTo(ioset(r), 11)
    BY <1>5, PageContract, IosetUpTo DEF q
  <2> QED
    BY <1>1, <2>1, UpToMore
<1> QED
  BY <1>2, <1>3, <1>4, <1>5 DEF pro_config, q

(* What has been sent and what is to come are sequences. *)
CommandInv ==
  /\ TypeOK
  /\ \E S : todo \in Seq(S)
  /\ \E S : sent \in Seq(S)

LEMMA CommandInitInv == SystemInit => CommandInv
<1>1. << >> \in Seq({}) /\ Len(<< >>) = 0
  BY EmptySeq
<1>2. 0 <= MostCommands
  BY PageContract DEF MostCommands
<1> QED
  BY <1>1, <1>2 DEF SystemInit, Init, CommandInv, TypeOK

(* A request begins with all its places to come. *)
LEMMA RequestBegins ==
  ASSUME NEW r \in Requests, CommandInv, web_pro(r)
  PROVE  CommandInv'
<1>1. PICK S : todo' \in Seq(S) /\ Len(todo') <= MostCommands
  BY PlacesBounded DEF web_pro, UpTo
<1>2. sent' = << >> /\ sent' \in Seq({}) /\ Len(sent') = 0
  BY EmptySeq DEF web_pro
<1>3. Len(todo') \in Nat
  BY <1>1, LenProperties
<1>4. Len(sent') + Len(todo') <= MostCommands
  BY <1>1, <1>2, <1>3
<1> QED
  BY <1>1, <1>2, <1>4 DEF web_pro, CommandInv, TypeOK

(* A place goes, and a command comes for it at the most. *)
LEMMA PlaceGoes ==
  ASSUME CommandInv, Commands
  PROVE  CommandInv'
<1>1. PICK S : todo \in Seq(S)
  BY DEF CommandInv
<1>2. PICK T : sent \in Seq(T)
  BY DEF CommandInv
<1>3. MostCommands \in Nat /\ Len(sent) \in Nat /\ Len(todo) \in Nat
  BY <1>1, <1>2, LenProperties, PageContract DEF MostCommands
<1>4. todo # << >> => Tail(todo) \in Seq(S) /\ Len(Tail(todo)) = Len(todo) - 1
  BY <1>1, HeadTailProperties
<1>5. CASE Pass
  <2>1. todo' = Tail(todo) /\ todo # << >> /\ UNCHANGED << request, sent, outcome, decoder >>
        /\ outcome = "writing"
    BY <1>5 DEF Pass, Place
  <2>2. Len(sent) + Len(todo') <= MostCommands
    BY <1>3, <1>4, <2>1 DEF CommandInv, TypeOK
  <2> QED
    BY <1>4, <2>1, <2>2 DEF CommandInv, TypeOK
<1>6. ASSUME NEW c, Write(c) PROVE CommandInv'
  <2>1. /\ todo' = Tail(todo) /\ todo # << >> /\ outcome = "writing" /\ c # Skip
        /\ sent' = Append(sent, c) /\ UNCHANGED << request, outcome, decoder >>
    BY <1>6 DEF Write, Place
  <2>2. sent \in Seq(T \cup {c})
    BY <1>2, SeqMonotonic
  <2>3. /\ Append(sent, c) \in Seq(T \cup {c})
        /\ Len(Append(sent, c)) = Len(sent) + 1
        /\ \A i \in 1 .. Len(sent) + 1 :
             Append(sent, c)[i] = IF i <= Len(sent) THEN sent[i] ELSE c
    BY <2>2, AppendProperties
  <2>4. Len(sent') + Len(todo') <= MostCommands
    BY <1>3, <1>4, <2>1, <2>3 DEF CommandInv, TypeOK
  <2>5. DOMAIN sent' = 1 .. Len(sent) + 1 /\ DOMAIN sent = 1 .. Len(sent)
    BY <2>1, <2>2, <2>3, LenProperties
  <2>6. \A i \in DOMAIN sent' : sent'[i] # Skip
    <3>1. \A i \in 1 .. Len(sent) : sent[i] # Skip
      BY <2>5 DEF CommandInv, TypeOK
    <3> QED
      BY <1>3, <2>1, <2>3, <2>5, <3>1
  <2> QED
    BY <1>4, <2>1, <2>3, <2>4, <2>6 DEF CommandInv, TypeOK
<1>7. ASSUME NEW c, WriteFails(c) PROVE CommandInv'
  <2>1. todo' = << >> /\ outcome' = "failed" /\ UNCHANGED << request, sent, decoder >>
    BY <1>7 DEF WriteFails
  <2>2. todo' \in Seq({}) /\ Len(todo') = 0
    BY <2>1, EmptySeq
  <2>3. Len(sent) + Len(todo') <= MostCommands
    BY <1>3, <2>2 DEF CommandInv, TypeOK
  <2> QED
    BY <2>1, <2>2, <2>3 DEF CommandInv, TypeOK
<1> QED
  BY <1>5, <1>6, <1>7 DEF Commands

LEMMA DaemonStopsCommands ==
  ASSUME CommandInv, DaemonStops
  PROVE  CommandInv'
<1>1. /\ todo' = << >> /\ UNCHANGED << request, sent, decoder >>
      /\ outcome' = IF outcome = "writing" THEN "failed" ELSE outcome
  BY DEF DaemonStops
<1>2. todo' \in Seq({}) /\ Len(todo') = 0
  BY <1>1, EmptySeq
<1>3. MostCommands \in Nat /\ Len(sent) \in Nat /\ Len(todo) \in Nat
  BY LenProperties, PageContract DEF MostCommands, CommandInv
<1>4. Len(sent) + Len(todo') <= MostCommands
  BY <1>2, <1>3 DEF CommandInv, TypeOK
<1> QED
  BY <1>1, <1>2, <1>4 DEF CommandInv, TypeOK

LEMMA CommandStepInv == CommandInv /\ [SystemNext]_SystemVars => CommandInv'
<1> SUFFICES ASSUME CommandInv, [SystemNext]_SystemVars PROVE CommandInv'
  OBVIOUS
<1>1. CASE UNCHANGED vars
  BY <1>1 DEF vars, CommandInv, TypeOK
<1>2. ASSUME NEW r \in Requests, Serve(r) PROVE CommandInv'
  BY <1>2, RequestBegins DEF Serve
<1>3. CASE Commands
  BY <1>3, PlaceGoes
<1>4. CASE DecoderDies \/ DecoderStarts
  BY <1>4 DEF DecoderDies, DecoderStarts, CommandInv, TypeOK
<1>5. CASE Return
  BY <1>5 DEF Return, CommandInv, TypeOK
<1>6. CASE DaemonStops
  BY <1>6, DaemonStopsCommands
<1> QED
  BY <1>1, <1>2, <1>3, <1>4, <1>5, <1>6
  DEF SystemNext, SystemVars, Finish, ReadPassword

(* A request writes no more commands than satset has places, whatever      *)
(* lists the query has and whenever the daemon or the decoder stops; and   *)
(* nothing is to come once it has ended (pro_config and its setters).      *)
THEOREM CommandsAreBounded == SystemSpec => []TypeOK
<1>1. CommandInv => TypeOK
  BY DEF CommandInv
<1> QED
  BY <1>1, CommandInitInv, CommandStepInv, PTL DEF SystemSpec

-----------------------------------------------------------------------------
(* What Kept leaves of a sequence.                                         *)

(* A set of numbers has a least. *)
LEMMA Least ==
  ASSUME NEW T \in SUBSET Nat, T # {}
  PROVE  \E x \in T : \A y \in T : x <= y
<1>1. IsWellFoundedOn(OpToRel(<, Nat), Nat)
  BY NatLessThanWellFounded, Zenon
<1>2. \E x \in T : \A y \in T : ~ (<< y, x >> \in OpToRel(<, Nat))
  BY <1>1, WFMin, Zenon
<1>3. \A x, y \in Nat : << y, x >> \in OpToRel(<, Nat) <=> y < x
  BY Zenon DEF OpToRel
<1>4. \E x \in T : \A y \in T : ~ (y < x)
  BY <1>2, <1>3, Zenon
<1> QED
  BY <1>4

(* A set that contains 0, and with a number the next, contains all.        *)
LEMMA Induct ==
  ASSUME NEW S, 0 \in S, \A n \in Nat : n \in S => n + 1 \in S
  PROVE  Nat \subseteq S
<1> SUFFICES ASSUME Nat \ S # {} PROVE FALSE
  OBVIOUS
<1>1. PICK x \in Nat \ S : \A y \in Nat \ S : x <= y
  BY Least
<1>2. x # 0 /\ x - 1 \in Nat
  BY <1>1
<1>3. x - 1 \in S
  BY <1>1, <1>2
<1> QED
  BY <1>2, <1>3

LEMMA KeptEquation ==
  ASSUME NEW s, NEW T
  PROVE  Kept(s, T) = [n \in Nat |->
           IF n = 0 THEN << >>
           ELSE IF s[n] \in T THEN Kept(s, T)[n - 1] ELSE Append(Kept(s, T)[n - 1], s[n])]
<1> DEFINE upto == Kept(s, T)
<1>1. NatInductiveDefHypothesis(upto, << >>,
        LAMBDA p, n : IF s[n] \in T THEN p ELSE Append(p, s[n]))
  BY DEF NatInductiveDefHypothesis, Kept
<1>2. NatInductiveDefConclusion(upto, << >>,
        LAMBDA p, n : IF s[n] \in T THEN p ELSE Append(p, s[n]))
  BY <1>1, NatInductiveDef
<1> QED
  BY <1>2 DEF NatInductiveDefConclusion

LEMMA KeptStart ==
  ASSUME NEW s, NEW T
  PROVE  Kept(s, T)[0] = << >>
<1> DEFINE upto == Kept(s, T)
<1>1. upto = [n \in Nat |->
           IF n = 0 THEN << >>
           ELSE IF s[n] \in T THEN upto[n - 1] ELSE Append(upto[n - 1], s[n])]
  BY KeptEquation
<1> HIDE DEF upto
<1>2. upto[0] = << >>
  BY <1>1
<1> QED
  BY <1>2 DEF upto

LEMMA KeptStep ==
  ASSUME NEW s, NEW T, NEW n \in Nat
  PROVE  Kept(s, T)[n + 1] =
           IF s[n + 1] \in T THEN Kept(s, T)[n] ELSE Append(Kept(s, T)[n], s[n + 1])
<1> DEFINE upto == Kept(s, T)
<1>1. upto = [k \in Nat |->
           IF k = 0 THEN << >>
           ELSE IF s[k] \in T THEN upto[k - 1] ELSE Append(upto[k - 1], s[k])]
  BY KeptEquation
<1> HIDE DEF upto
<1>2. n + 1 \in Nat /\ n + 1 # 0 /\ (n + 1) - 1 = n
  OBVIOUS
<1>3. upto[n + 1] = IF s[n + 1] \in T THEN upto[n] ELSE Append(upto[n], s[n + 1])
  BY <1>1, <1>2, Zenon
<1> QED
  BY <1>3 DEF upto

LEMMA Appended ==
  ASSUME NEW S, NEW s \in Seq(S), NEW x \in S
  PROVE  Append(s, x) \in Seq(S)
OBVIOUS

(* What is left of a sequence is one of the same things. *)
LEMMA KeptSeq ==
  ASSUME NEW S, NEW s \in Seq(S), NEW T
  PROVE  \A n \in 0 .. Len(s) : Kept(s, T)[n] \in Seq(S)
<1> DEFINE K(n) == Kept(s, T)[n]
           Good == {n \in Nat : n <= Len(s) => K(n) \in Seq(S)}
<1>1. Len(s) \in Nat /\ \A i \in 1 .. Len(s) : s[i] \in S
  BY LenProperties
<1>2. K(0) = << >>
  BY KeptStart
<1>3. \A n \in Nat : K(n + 1) = IF s[n + 1] \in T THEN K(n) ELSE Append(K(n), s[n + 1])
  BY KeptStep
<1> HIDE DEF K
<1>4. 0 \in Good
  BY <1>2, EmptySeq
<1>5. ASSUME NEW n \in Nat, n \in Good PROVE n + 1 \in Good
  <2> SUFFICES ASSUME n + 1 <= Len(s) PROVE K(n + 1) \in Seq(S)
    OBVIOUS
  <2>1. K(n) \in Seq(S) /\ s[n + 1] \in S
    BY <1>1, <1>5
  <2>2. Append(K(n), s[n + 1]) \in Seq(S)
    BY <2>1, Appended
  <2> QED
    BY <1>3, <2>1, <2>2
<1>6. \A n \in Nat : n \in Good => n + 1 \in Good
  BY <1>5
<1> HIDE DEF Good
<1>7. Nat \subseteq Good
  BY <1>4, <1>6, Induct
<1> QED
  BY <1>1, <1>7 DEF Good, K

LEMMA WithoutSeq ==
  ASSUME NEW S, NEW s \in Seq(S), NEW T
  PROVE  Without(s, T) \in Seq(S)
BY KeptSeq, LenProperties DEF Without

(* What is left of two sequences joined. *)
LEMMA WithoutJoined ==
  ASSUME NEW S, NEW s \in Seq(S), NEW t \in Seq(S), NEW T
  PROVE  Without(s \o t, T) = Without(s, T) \o Without(t, T)
<1> DEFINE K(n) == Kept(s, T)[n]
           L(n) == Kept(t, T)[n]
           M(n) == Kept(s \o t, T)[n]
           a == Len(s)
           b == Len(t)
           u == s \o t
           First == {n \in Nat : n <= a => M(n) = K(n)}
           Second == {n \in Nat : n <= b => M(a + n) = K(a) \o L(n)}
<1>1. a \in Nat /\ b \in Nat /\ Len(u) = a + b
  BY LenProperties, ConcatProperties
<1>2. (\A i \in 1..a : u[i] = s[i]) /\ \A i \in 1..b : u[a + i] = t[i] /\ t[i] \in S
  BY LenProperties, ConcatProperties
<1>3. K(0) = << >> /\ L(0) = << >> /\ M(0) = << >>
  BY KeptStart
<1>4. \A n \in Nat : K(n + 1) = IF s[n + 1] \in T THEN K(n) ELSE Append(K(n), s[n + 1])
  BY KeptStep
<1>5. \A n \in Nat : L(n + 1) = IF t[n + 1] \in T THEN L(n) ELSE Append(L(n), t[n + 1])
  BY KeptStep
<1>6. \A n \in Nat : M(n + 1) = IF u[n + 1] \in T THEN M(n) ELSE Append(M(n), u[n + 1])
  BY KeptStep
<1>7. K(a) \in Seq(S) /\ \A n \in 0..b : L(n) \in Seq(S)
  BY <1>1, KeptSeq
<1>8. Without(s, T) = K(a) /\ Without(t, T) = L(b) /\ Without(u, T) = M(a + b)
  BY <1>1 DEF Without
<1> HIDE DEF K, L, M, a, b, u
<1>9. 0 \in First
  BY <1>3
<1>10. \A n \in Nat : n \in First => n + 1 \in First
  <2> SUFFICES ASSUME NEW n \in Nat, n \in First, n + 1 <= a PROVE M(n + 1) = K(n + 1)
    OBVIOUS
  <2>1. M(n) = K(n) /\ u[n + 1] = s[n + 1]
    BY <1>1, <1>2
  <2> QED
    BY <1>4, <1>6, <2>1
<1> HIDE DEF First
<1>11. Nat \subseteq First
  BY <1>9, <1>10, Induct
<1>12. M(a) = K(a)
  BY <1>1, <1>11 DEF First
<1>13. 0 \in Second
  BY <1>1, <1>3, <1>7, <1>12, ConcatEmptySeq
<1>14. ASSUME NEW n \in Nat, n \in Second PROVE n + 1 \in Second
  <2> SUFFICES ASSUME n + 1 <= b PROVE M(a + (n + 1)) = K(a) \o L(n + 1)
    OBVIOUS
  <2>1. M(a + n) = K(a) \o L(n)
    BY <1>1, <1>14
  <2>2. u[a + n + 1] = t[n + 1] /\ t[n + 1] \in S /\ a + n \in Nat
    BY <1>1, <1>2
  <2>3. M((a + n) + 1) = IF t[n + 1] \in T THEN M(a + n) ELSE Append(M(a + n), t[n + 1])
    BY <1>6, <2>2
  <2>4. L(n) \in Seq(S)
    BY <1>1, <1>7
  <2> DEFINE k == K(a)
             l == L(n)
             x == t[n + 1]
  <2>5. Append(k \o l, x) = k \o Append(l, x)
    <3>1. k \in Seq(S) /\ l \in Seq(S) /\ x \in S
      BY <1>7, <2>2, <2>4
    <3> HIDE DEF k, l, x
    <3>2. Append(l, x) = l \o << x >> /\ << x >> \in Seq(S)
      BY <3>1, AppendIsConcat
    <3>3. Append(k \o l, x) = (k \o l) \o << x >>
      <4>1. k \o l \in Seq(S)
        BY <3>1, ConcatProperties
      <4> QED
        BY <3>1, <4>1, AppendIsConcat
    <3>4. (k \o l) \o << x >> = k \o (l \o << x >>)
      BY <3>1, <3>2, ConcatAssociative
    <3> QED
      BY <3>2, <3>3, <3>4, Zenon
  <2>6. a + (n + 1) = (a + n) + 1
    BY <1>1
  <2> QED
    BY <1>5, <2>1, <2>3, <2>5, <2>6
<1>15. \A n \in Nat : n \in Second => n + 1 \in Second
  BY <1>14
<1> HIDE DEF Second
<1>16. Nat \subseteq Second
  BY <1>13, <1>15, Induct
<1>17. M(a + b) = K(a) \o L(b)
  BY <1>1, <1>16 DEF Second
<1> QED
  BY <1>8, <1>17 DEF u


LEMMA WithoutOne ==
  ASSUME NEW c, NEW T
  PROVE  Without(<< c >>, T) = IF c \in T THEN << >> ELSE << c >>
<1> DEFINE K(n) == Kept(<< c >>, T)[n]
<1>1. K(0) = << >>
  BY KeptStart
<1>2. K(0 + 1) = IF << c >>[0 + 1] \in T THEN K(0) ELSE Append(K(0), << c >>[0 + 1])
  BY KeptStep
<1>3. Without(<< c >>, T) = K(1)
  BY DEF Without
<1> HIDE DEF K
<1>4. Append(<< >>, c) = << c >>
  OBVIOUS
<1>5. K(1) = IF c \in T THEN K(0) ELSE Append(K(0), c)
  BY <1>2
<1> QED
  BY <1>1, <1>3, <1>4, <1>5

(* Nothing is left where all goes. *)
LEMMA WithoutNone ==
  ASSUME NEW S, NEW s \in Seq(S), NEW T, \A i \in 1 .. Len(s) : s[i] \in T
  PROVE  Without(s, T) = << >>
<1> DEFINE K(n) == Kept(s, T)[n]
           Empty == {n \in Nat : n <= Len(s) => K(n) = << >>}
<1>1. K(0) = << >>
  BY KeptStart
<1>2. \A n \in Nat : K(n + 1) = IF s[n + 1] \in T THEN K(n) ELSE Append(K(n), s[n + 1])
  BY KeptStep
<1>3. Without(s, T) = K(Len(s)) /\ Len(s) \in Nat
  BY LenProperties DEF Without
<1> HIDE DEF K
<1>4. 0 \in Empty
  BY <1>1
<1>5. ASSUME NEW n \in Nat, n \in Empty PROVE n + 1 \in Empty
  <2> SUFFICES ASSUME n + 1 <= Len(s) PROVE K(n + 1) = << >>
    OBVIOUS
  <2>1. n <= Len(s) /\ n + 1 \in 1 .. Len(s)
    BY <1>3
  <2>2. K(n) = << >>
    BY <1>5, <2>1
  <2>3. s[n + 1] \in T
    BY <2>1
  <2> QED
    BY <1>2, <2>2, <2>3, Zenon
<1> HIDE DEF Empty
<1>6. Nat \subseteq Empty
  BY <1>4, <1>5, Induct
<1> QED
  BY <1>3, <1>6 DEF Empty

(* All is left where nothing goes. *)
LEMMA WithoutAll ==
  ASSUME NEW S, NEW s \in Seq(S), NEW T, \A i \in 1 .. Len(s) : s[i] \notin T
  PROVE  Without(s, T) = s
<1> DEFINE K(n) == Kept(s, T)[n]
           m == Len(s)
           Same == {n \in Nat : n <= m => K(n) = SubSeq(s, 1, n)}
<1>1. K(0) = << >>
  BY KeptStart
<1>2. \A n \in Nat : K(n + 1) = IF s[n + 1] \in T THEN K(n) ELSE Append(K(n), s[n + 1])
  BY KeptStep
<1>3. Without(s, T) = K(m) /\ m \in Nat
  BY LenProperties DEF Without
<1> HIDE DEF K
<1>4. 0 \in Same
  <2>1. SubSeq(s, 1, 0) = << >>
    BY SubSeqEmpty
  <2> QED
    BY <1>1, <2>1
<1>5. ASSUME NEW n \in Nat, n \in Same, n + 1 <= m PROVE K(n + 1) = SubSeq(s, 1, n + 1)
  <2>3. K(n) = SubSeq(s, 1, n) /\ s[n + 1] \notin T
    BY <1>3, <1>5
  <2>1. K(n + 1) = Append(SubSeq(s, 1, n), s[n + 1])
    BY <1>2, <2>3, Zenon
  <2>2. SubSeq(s, 1, n + 1) = Append(SubSeq(s, 1, n), s[n + 1])
    BY <1>3, <1>5
  <2> QED
    BY <2>1, <2>2
<1>6. \A n \in Nat : n \in Same => n + 1 \in Same
  BY <1>5
<1> HIDE DEF Same
<1>7. Nat \subseteq Same
  BY <1>4, <1>6, Induct
<1>8. K(m) = SubSeq(s, 1, m)
  BY <1>3, <1>7 DEF Same
<1> QED
  BY <1>3, <1>8, SubSeqFull

-----------------------------------------------------------------------------
(* The values of a name in a query.                                        *)

LEMMA ValuesSeq ==
  ASSUME NEW S, NEW q \in Seq(S), NEW name
  PROVE  \E n \in Nat : Values(q, name) = [i \in 1..n |-> Values(q, name)[i]]
<1> DEFINE named == Without(q, {p \in Range(q) : p.name # name})
<1>1. named \in Seq(S)
  BY WithoutSeq
<1>2. DOMAIN named = 1 .. Len(named) /\ Len(named) \in Nat
  BY <1>1, LenProperties
<1>3. Values(q, name) = [i \in DOMAIN named |-> named[i].value]
  BY DEF Values
<1> QED
  BY <1>2, <1>3

-----------------------------------------------------------------------------
(* What the places of a setter ask for.  A command is ours unless it is    *)
(* none, or one of U, that nobody asked for.  A place is settled if it has *)
(* one of ours only alone.                                                 *)
Ours(U, c) == c # Skip /\ c \notin U

Mine(U, P) == IF \E c \in P : Ours(U, c) THEN CHOOSE c \in P : Ours(U, c) ELSE Skip

Settled(U, P) == \A c \in P : Ours(U, c) => \A d \in P : d = c

(* Settled places call for these commands, in order. *)
Calls(U, places, asked) ==
  /\ \E S : places \in Seq(S)
  /\ \E C : asked \in Seq(C)
  /\ \A i \in 1 .. Len(places) : Settled(U, places[i])
  /\ asked = Said([i \in 1 .. Len(places) |-> Mine(U, places[i])])

LEMMA MineAlone ==
  ASSUME NEW U, NEW c, Ours(U, c) \/ c = Skip
  PROVE  Settled(U, {c}) /\ Mine(U, {c}) = c
BY DEF Settled, Mine, Ours

LEMMA MineSaid ==
  ASSUME NEW U, NEW P, Settled(U, P), NEW c \in P
  PROVE  Mine(U, P) = IF Ours(U, c) THEN c ELSE Skip
<1>1. CASE Ours(U, c)
  <2>1. \A d \in P : d = c
    BY <1>1 DEF Settled
  <2> QED
    BY <1>1, <2>1 DEF Mine
<1>2. CASE ~ Ours(U, c)
  <2>1. \A d \in P : ~ Ours(U, d)
    BY <1>2 DEF Settled
  <2> QED
    BY <1>2, <2>1 DEF Mine
<1> QED
  BY <1>1, <1>2

LEMMA CallsNone ==
  ASSUME NEW U
  PROVE  Calls(U, << >>, << >>)
<1> DEFINE none == << >>
           mines == [i \in 1 .. Len(none) |-> Mine(U, none[i])]
<1>1. none \in Seq({}) /\ Len(none) = 0
  BY EmptySeq
<1>2. mines \in Seq({}) /\ Len(mines) = 0
  BY <1>1
<1>3. Said(mines) = none
  BY <1>2, KeptStart DEF Said, Without
<1> QED
  BY <1>1, <1>3 DEF Calls

(* A list of places with one thing at each. *)
LEMMA CallsList ==
  ASSUME NEW U, NEW n \in Nat, NEW g, g = [i \in 1..n |-> g[i]],
         \A i \in 1..n : Ours(U, g[i]) \/ g[i] = Skip
  PROVE  Calls(U, [i \in 1..n |-> {g[i]}], Said(g))
<1> DEFINE p == [i \in 1..n |-> {g[i]}]
           C == {g[i] : i \in 1..n}
<1>1. g \in Seq(C)
  OBVIOUS
<1>2. p \in Seq({{g[i]} : i \in 1..n}) /\ Len(p) = n /\ \A i \in 1..n : p[i] = {g[i]}
  OBVIOUS
<1>3. \A i \in 1..n : Settled(U, {g[i]}) /\ Mine(U, {g[i]}) = g[i]
  BY MineAlone
<1> HIDE DEF p, C
<1>4. [i \in 1 .. Len(p) |-> Mine(U, p[i])] = g
  BY <1>2, <1>3
<1>5. Said(g) \in Seq(C)
  BY <1>1, WithoutSeq DEF Said
<1>6. \A i \in 1 .. Len(p) : Settled(U, p[i])
  BY <1>2, <1>3
<1>7. Calls(U, p, Said(g))
  BY <1>2, <1>4, <1>5, <1>6 DEF Calls
<1> QED
  BY <1>7 DEF p

LEMMA CallsOne ==
  ASSUME NEW U, NEW c, Ours(U, c) \/ c = Skip
  PROVE  Calls(U, << {c} >>, Said(<< c >>))
<1> DEFINE g == << c >>
           p == [i \in 1..1 |-> {g[i]}]
<1>1. g = [i \in 1..1 |-> g[i]] /\ g[1] = c
  OBVIOUS
<1>2. p = << {c} >>
  OBVIOUS
<1>3. Calls(U, p, Said(g))
  <2>1. \A i \in 1..1 : Ours(U, g[i]) \/ g[i] = Skip
    BY <1>1
  <2> HIDE DEF g
  <2> QED
    BY <1>1, <2>1, CallsList
<1> HIDE DEF p
<1> QED
  BY <1>2, <1>3

(* Places none of which has a command of ours. *)
LEMMA CallsNothing ==
  ASSUME NEW U, NEW S, NEW p \in Seq(S), \A i \in 1 .. Len(p) : \A c \in p[i] : ~ Ours(U, c)
  PROVE  Calls(U, p, << >>)
<1> DEFINE mines == [i \in 1 .. Len(p) |-> Mine(U, p[i])]
<1>1. Len(p) \in Nat
  BY LenProperties
<1>2. \A i \in 1 .. Len(p) : Settled(U, p[i]) /\ Mine(U, p[i]) = Skip
  BY DEF Settled, Mine
<1>3. mines = [i \in 1 .. Len(p) |-> Skip]
  BY <1>2
<1>4. mines \in Seq({Skip}) /\ Len(mines) = Len(p) /\ \A i \in 1 .. Len(p) : mines[i] \in {Skip}
  BY <1>1, <1>3
<1> HIDE DEF mines
<1>5. Said(mines) = << >>
  BY <1>4, WithoutNone DEF Said
<1>6. << >> \in Seq({})
  BY EmptySeq
<1> QED
  BY <1>2, <1>5, <1>6 DEF Calls, mines

LEMMA CallsJoined ==
  ASSUME NEW U, NEW p, NEW r, NEW a, NEW b, Calls(U, p, a), Calls(U, r, b)
  PROVE  Calls(U, p \o r, a \o b)
<1> DEFINE s == [i \in 1 .. Len(p) |-> Mine(U, p[i])]
           t == [i \in 1 .. Len(r) |-> Mine(U, r[i])]
           u == p \o r
           m == Len(p)
           n == Len(r)
<1>1. a = Said(s) /\ b = Said(t)
  BY DEF Calls
<1>2. PICK S1 : p \in Seq(S1)
  BY DEF Calls
<1>3. PICK S2 : r \in Seq(S2)
  BY DEF Calls
<1>4. p \in Seq(S1 \cup S2) /\ r \in Seq(S1 \cup S2)
  BY <1>2, <1>3, SeqMonotonic
<1>5. /\ m \in Nat /\ n \in Nat
      /\ u \in Seq(S1 \cup S2) /\ Len(u) = m + n
      /\ \A i \in 1 .. m + n : u[i] = IF i <= m THEN p[i] ELSE r[i - m]
  BY <1>4, LenProperties, ConcatProperties
<1> DEFINE M == {Mine(U, u[i]) : i \in 1 .. m + n}
           v == [i \in 1 .. Len(u) |-> Mine(U, u[i])]
<1>6. \A i \in 1..m : u[i] = p[i]
  BY <1>5
<1>7. \A i \in 1..n : u[m + i] = r[i] /\ m + i \in 1 .. m + n
  BY <1>5
<1>8. s \in Seq(M) /\ t \in Seq(M) /\ Len(s) = m /\ Len(t) = n
  <2>1. \A i \in 1..m : Mine(U, p[i]) \in M
    BY <1>5, <1>6
  <2>2. \A i \in 1..n : Mine(U, r[i]) \in M
    BY <1>5, <1>7
  <2> HIDE DEF M, m, n
  <2>3. s \in [1..m -> M] /\ t \in [1..n -> M]
    BY <2>1, <2>2 DEF m, n
  <2> QED
    BY <1>5, <2>3
<1>9. v \in Seq(M) /\ Len(v) = m + n
  BY <1>5
<1>10. s \o t = v
  <2>1. /\ s \o t \in Seq(M) /\ Len(s \o t) = m + n
        /\ \A i \in 1 .. m + n : (s \o t)[i] = IF i <= m THEN s[i] ELSE t[i - m]
    BY <1>8, ConcatProperties
  <2>2. \A i \in 1 .. m + n : v[i] = IF i <= m THEN Mine(U, p[i]) ELSE Mine(U, r[i - m])
    BY <1>5
  <2>3. (\A i \in 1 .. m : s[i] = Mine(U, p[i])) /\ \A i \in 1 .. n : t[i] = Mine(U, r[i])
    OBVIOUS
  <2>4. \A i \in 1 .. m + n : i <= m => i \in 1..m
    BY <1>5
  <2>5. \A i \in 1 .. m + n : ~ (i <= m) => i - m \in 1..n
    BY <1>5
  <2> HIDE DEF s, t, v, m, n, M, u
  <2>6. \A i \in 1 .. m + n : (s \o t)[i] = v[i]
    BY <2>1, <2>2, <2>3, <2>4, <2>5
  <2> QED
    BY <1>9, <2>1, <2>6, SeqEqual
<1>11. Said(v) = a \o b
  <2> HIDE DEF s, t, v, M
  <2>1. Without(s \o t, {Skip}) = Without(s, {Skip}) \o Without(t, {Skip})
    BY <1>8, WithoutJoined
  <2> QED
    BY <1>1, <1>10, <2>1, Zenon DEF Said
<1>12. Said(v) \in Seq(M)
  <2> HIDE DEF v, M
  <2> QED
    BY <1>9, WithoutSeq DEF Said
<1>13. \A i \in 1 .. Len(u) : Settled(U, u[i])
  <2>1. (\A i \in 1..m : Settled(U, p[i])) /\ (\A i \in 1..n : Settled(U, r[i]))
    BY DEF Calls
  <2>2. \A i \in 1 .. m + n : i \in 1..m \/ i - m \in 1..n
    BY <1>5
  <2> HIDE DEF u, m, n
  <2>3. \A i \in 1 .. m + n : ~ (i <= m) => i - m \in 1..n
    BY <1>5, <2>2
  <2>4. \A i \in 1 .. m + n : i <= m => i \in 1..m
    BY <1>5, <2>2
  <2> QED
    BY <1>5, <2>1, <2>3, <2>4
<1> QED
  BY <1>5, <1>11, <1>12, <1>13 DEF Calls


(* The first place, and what the others call for. *)
SaidFirst(U, p) == Said(<< Mine(U, Head(p)) >>)

LEMMA CallsHead ==
  ASSUME NEW U, NEW p, NEW a, Calls(U, p, a), p # << >>
  PROVE  /\ Settled(U, Head(p))
         /\ \E b : Calls(U, Tail(p), b) /\ a = SaidFirst(U, p) \o b
<1> DEFINE P == Head(p)
           first == << P >>
           rest == Tail(p)
           mines == [i \in 1 .. Len(rest) |-> Mine(U, rest[i])]
           whole == [i \in 1 .. Len(p) |-> Mine(U, p[i])]
           b == Said(mines)
<1>1. PICK S : p \in Seq(S)
  BY DEF Calls
<1>2. /\ rest \in Seq(S) /\ P \in S /\ Len(rest) = Len(p) - 1 /\ P = p[1]
      /\ \A i \in 1 .. Len(rest) : rest[i] = p[i + 1]
  BY <1>1, HeadTailProperties
<1>3. Len(rest) \in Nat /\ Len(p) \in Nat /\ Len(p) = Len(rest) + 1
  BY <1>1, <1>2, LenProperties
<1>4. Settled(U, P) /\ \A i \in 1 .. Len(rest) : Settled(U, rest[i])
  BY <1>2, <1>3 DEF Calls
<1> DEFINE M == {Mine(U, p[i]) : i \in 1 .. Len(p)}
<1>5. mines \in Seq(M) /\ Len(mines) = Len(rest)
  <2>1. \A i \in 1 .. Len(rest) : Mine(U, rest[i]) \in M
    BY <1>2, <1>3
  <2> HIDE DEF M, rest
  <2> QED
    BY <1>3, <2>1
<1>6. b \in Seq(M)
  <2> HIDE DEF mines, M
  <2> QED
    BY <1>5, WithoutSeq DEF Said
<1>7. Calls(U, rest, b)
  BY <1>2, <1>4, <1>6 DEF Calls
<1>8. << Mine(U, P) >> \in Seq(M) /\ whole \in Seq(M) /\ Len(whole) = Len(rest) + 1
  BY <1>2, <1>3
<1>9. << Mine(U, P) >> \o mines = whole
  <2> DEFINE s == << Mine(U, P) >>
  <2>1. s \in Seq(M) /\ Len(s) = 1 /\ s[1] = Mine(U, p[1])
    BY <1>2, <1>8
  <2>2. /\ s \o mines \in Seq(M) /\ Len(s \o mines) = 1 + Len(rest)
        /\ \A i \in 1 .. 1 + Len(rest) : (s \o mines)[i] = IF i <= 1 THEN s[i] ELSE mines[i - 1]
    <3>1. mines \in Seq(M) /\ Len(mines) = Len(rest)
      BY <1>5
    <3> HIDE DEF s, mines, M, rest
    <3>2. /\ s \o mines \in Seq(M) /\ Len(s \o mines) = Len(s) + Len(mines)
          /\ \A i \in 1 .. Len(s) + Len(mines) :
               (s \o mines)[i] = IF i <= Len(s) THEN s[i] ELSE mines[i - Len(s)]
      BY <2>1, <3>1, ConcatProperties
    <3> QED
      BY <2>1, <3>1, <3>2
  <2>3. \A i \in 1 .. Len(rest) : mines[i] = Mine(U, p[i + 1])
    BY <1>2
  <2>4. \A i \in 1 .. 1 + Len(rest) : whole[i] = Mine(U, p[i])
    BY <1>3
  <2> HIDE DEF s, mines, M, whole, rest
  <2>5. ASSUME NEW i \in 1 .. 1 + Len(rest) PROVE (s \o mines)[i] = whole[i]
    <3>1. CASE i = 1
      BY <2>1, <2>2, <2>4, <3>1, <1>3
    <3>2. CASE i # 1
      <4>1. i - 1 \in 1 .. Len(rest) /\ (i - 1) + 1 = i /\ ~ (i <= 1)
        BY <1>3, <3>2
      <4>2. mines[i - 1] = Mine(U, p[i])
        BY <2>3, <4>1
      <4> QED
        BY <2>2, <2>4, <4>1, <4>2
    <3> QED
      BY <3>1, <3>2
  <2> QED
    BY <1>3, <1>8, <2>2, <2>5, SeqEqual DEF s
<1>10. a = Said(whole)
  BY DEF Calls
<1>11. Without(<< Mine(U, P) >> \o mines, {Skip}) = Without(<< Mine(U, P) >>, {Skip}) \o Without(mines, {Skip})
  <2> DEFINE s == << Mine(U, P) >>
  <2>1. s \in Seq(M)
    BY <1>8
  <2> HIDE DEF s, mines, M
  <2>2. Without(s \o mines, {Skip}) = Without(s, {Skip}) \o Without(mines, {Skip})
    BY <1>5, <2>1, WithoutJoined
  <2> QED
    BY <2>2 DEF s
<1>12. a = Said(<< Mine(U, P) >>) \o b
  <2> HIDE DEF mines, whole, P
  <2> QED
    BY <1>9, <1>10, <1>11, Zenon DEF Said
<1>13. a = SaidFirst(U, p) \o b
  BY <1>12 DEF SaidFirst
<1> QED
  BY <1>4, <1>7, <1>13

-----------------------------------------------------------------------------
(* What the setters of many commands call for.                             *)

LEMMA PartsJoined ==
  ASSUME NEW S, NEW s \in Seq(S), NEW t \in Seq(S), NEW p \in Seq(S),
         Len(p) = Len(s) + Len(t),
         \A i \in 1 .. Len(s) : s[i] = p[i], \A i \in 1 .. Len(t) : t[i] = p[Len(s) + i]
  PROVE  s \o t = p
<1> DEFINE m == Len(s)
           k == Len(t)
<1>1. m \in Nat /\ k \in Nat
  OBVIOUS
<1>2. /\ s \o t \in Seq(S) /\ Len(s \o t) = m + k
      /\ \A i \in 1 .. m + k : (s \o t)[i] = IF i <= m THEN s[i] ELSE t[i - m]
  BY ConcatProperties
<1> HIDE DEF m, k
<1>3. \A i \in 1 .. m + k : IF i <= m THEN i \in 1..m ELSE i - m \in 1..k /\ m + (i - m) = i
  BY <1>1
<1>4. \A i \in 1 .. m + k : (s \o t)[i] = p[i]
  BY <1>2, <1>3 DEF m, k
<1> QED
  BY <1>2, <1>4, SeqEqual DEF m, k

(* A list of places: the first have a thing each, the rest none of ours.   *)
LEMMA CallsPart ==
  ASSUME NEW U, NEW n \in Nat, NEW m \in 0..n,
         NEW p, p = [i \in 1..n |-> p[i]], NEW g, g = [i \in 1..m |-> g[i]],
         \A i \in 1..m : p[i] = {g[i]} /\ (Ours(U, g[i]) \/ g[i] = Skip),
         \A i \in m + 1 .. n : \A c \in p[i] : ~ Ours(U, c)
  PROVE  Calls(U, p, Said(g))
<1> DEFINE h == [i \in 1..m |-> {g[i]}]
           k == n - m
           rest == [i \in 1..k |-> p[m + i]]
           S == {p[i] : i \in 1..n}
<1>1. Calls(U, h, Said(g))
  BY CallsList
<1>2. k \in Nat /\ m \in Nat
  OBVIOUS
<1>3. \A i \in 1..k : m + i \in m + 1 .. n /\ m + i \in 1..n
  OBVIOUS
<1>4. rest \in Seq(S) /\ Len(rest) = k
  <2>1. \A i \in 1..k : rest[i] \in S
    BY <1>3
  <2> HIDE DEF S, k
  <2>2. rest \in [1..k -> S]
    BY <2>1
  <2> HIDE DEF rest
  <2> QED
    BY <1>2, <2>2
<1>5. Calls(U, rest, << >>)
  <2>1. \A i \in 1 .. Len(rest) : \A c \in rest[i] : ~ Ours(U, c)
    BY <1>3, <1>4
  <2> HIDE DEF rest, S
  <2> QED
    BY <1>4, <2>1, CallsNothing
<1>6. h \in Seq(S) /\ Len(h) = m
  <2>1. \A i \in 1..m : i \in 1..n
    OBVIOUS
  <2>2. \A i \in 1..n : p[i] \in S
    OBVIOUS
  <2>3. \A i \in 1..m : {g[i]} \in S
    BY <2>1, <2>2
  <2> HIDE DEF S
  <2>4. h \in [1..m -> S]
    BY <2>3
  <2> HIDE DEF h
  <2> QED
    BY <1>2, <2>4
<1>7. p \in Seq(S) /\ Len(p) = n
  OBVIOUS
<1>8. h \o rest = p
  <2>1. (\A i \in 1..m : h[i] = p[i]) /\ (\A i \in 1..k : rest[i] = p[m + i]) /\ m + k = n
    OBVIOUS
  <2> HIDE DEF h, rest, S, k
  <2>2. /\ h \in Seq(S) /\ rest \in Seq(S) /\ p \in Seq(S) /\ Len(p) = Len(h) + Len(rest)
        /\ \A i \in 1 .. Len(h) : h[i] = p[i]
        /\ \A i \in 1 .. Len(rest) : rest[i] = p[Len(h) + i]
    BY <1>4, <1>6, <1>7, <2>1
  <2> QED
    BY <2>2, PartsJoined
<1>9. PICK C : Said(g) \in Seq(C)
  BY <1>1 DEF Calls
<1> HIDE DEF h, rest
<1>10. Calls(U, h \o rest, Said(g) \o << >>)
  BY <1>1, <1>5, CallsJoined
<1>11. Said(g) \o << >> = Said(g)
  BY <1>9, ConcatEmptySeq
<1> QED
  BY <1>8, <1>10, <1>11

(* What a loop collects begins with the values the query has. *)
LEMMA ListedBegins ==
  ASSUME NEW r \in Requests, NEW name \in DOMAIN LongestList
  PROVE  /\ Len(Values(r.params, name)) \in Nat
         /\ DOMAIN Values(r.params, name) = 1 .. Len(Values(r.params, name))
         /\ Len(Values(r.params, name)) <= LongestList[name]
         /\ \A i \in 1 .. Len(Values(r.params, name)) :
              i <= Len(Listed(r, name)) /\ Listed(r, name)[i] = Values(r.params, name)[i]
<1> DEFINE list == Values(r.params, name)
           tail == Values(r.tail, name)
<1>1. r.params \in Seq(Range(r.params)) /\ r.tail \in Seq(Range(r.tail))
  BY PageContract
<1>2. PICK k \in Nat : list = [i \in 1..k |-> list[i]]
  BY <1>1, ValuesSeq
<1>3. PICK l \in Nat : tail = [i \in 1..l |-> tail[i]]
  BY <1>1, ValuesSeq
<1>4. Listed(r, name) = list \o tail
  BY DEF Listed
<1> DEFINE S == {list[i] : i \in 1..k} \cup {tail[i] : i \in 1..l}
<1> HIDE DEF list, tail
<1>5. list \in Seq(S) /\ Len(list) = k /\ DOMAIN list = 1..k
  BY <1>2
<1>6. tail \in Seq(S) /\ Len(tail) = l
  BY <1>3
<1> HIDE DEF S
<1>7. /\ Len(list \o tail) = k + l
      /\ \A i \in 1 .. k + l : i <= k => (list \o tail)[i] = list[i]
  BY <1>5, <1>6, ConcatProperties
<1>8. Len(Listed(r, name)) <= LongestList[name]
  BY PageContract
<1>9. \A x \in DOMAIN LongestList : LongestList[x] \in Nat
  BY PageContract DEF LongestList
<1>10. k <= LongestList[name]
  BY <1>4, <1>7, <1>8, <1>9
<1>11. \A i \in 1..k : i <= Len(Listed(r, name)) /\ Listed(r, name)[i] = list[i]
  BY <1>4, <1>7
<1> QED
  BY <1>5, <1>10, <1>11 DEF list

(* The commands about certain satellites, or certain systems. *)
LEMMA AmongPrns ==
  ASSUME NEW of, NEW places \in SUBSET Int, NEW verb \in LOCKS, NEW other
  PROVE  /\ \A i \in Int : Cmd(verb, other, << i - 1 >>) \in Prns(of, places)
                             <=> other = of /\ i \in places
         /\ Cmd(verb, other, << >>) \notin Prns(of, places)
<1>1. ASSUME NEW v, NEW w, NEW f, NEW g, NEW i \in Int, NEW j \in Int,
             Cmd(v, f, << i - 1 >>) = Cmd(w, g, << j - 1 >>)
      PROVE  f = g /\ i = j
  <2>1. f = g /\ << i - 1 >> = << j - 1 >>
    BY <1>1 DEF Cmd
  <2>2. i - 1 = j - 1
    BY <2>1
  <2> QED
    BY <2>1, <2>2
<1>2. ASSUME NEW v, NEW w, NEW f, NEW g, NEW j \in Int
      PROVE  Cmd(v, f, << >>) # Cmd(w, g, << j - 1 >>)
  <2>1. << >> # << j - 1 >>
    OBVIOUS
  <2> QED
    BY <2>1 DEF Cmd
<1>3. ASSUME NEW i \in Int
      PROVE  Cmd(verb, other, << i - 1 >>) \in Prns(of, places) <=> other = of /\ i \in places
  <2>1. ASSUME Cmd(verb, other, << i - 1 >>) \in Prns(of, places)
        PROVE  other = of /\ i \in places
    <3>1. PICK w \in LOCKS, j \in places : Cmd(verb, other, << i - 1 >>) = Cmd(w, of, << j - 1 >>)
      BY <2>1 DEF Prns
    <3> QED
      BY <1>1, <3>1
  <2>2. ASSUME other = of, i \in places PROVE Cmd(verb, other, << i - 1 >>) \in Prns(of, places)
    BY <2>2 DEF Prns
  <2> QED
    BY <2>1, <2>2
<1>4. Cmd(verb, other, << >>) \notin Prns(of, places)
  <2> SUFFICES ASSUME Cmd(verb, other, << >>) \in Prns(of, places) PROVE FALSE
    OBVIOUS
  <2>1. PICK w \in LOCKS, j \in places : Cmd(verb, other, << >>) = Cmd(w, of, << j - 1 >>)
    BY DEF Prns
  <2> QED
    BY <1>2, <2>1
<1> QED
  BY <1>3, <1>4

LEMMA AmongSystems ==
  ASSUME NEW places \in SUBSET (1..5), NEW verb \in LOCKS
  PROVE  /\ \A i \in 1..5 : Cmd(verb, SYSTYPE[i], << >>) \in Systems(places) <=> i \in places
         /\ \A of, x : Cmd(verb, of, << x >>) \notin Systems(places)
<1>1. ASSUME NEW v, NEW w, NEW i \in 1..5, NEW j \in 1..5,
             Cmd(v, SYSTYPE[i], << >>) = Cmd(w, SYSTYPE[j], << >>)
      PROVE  i = j
  <2>1. SYSTYPE[i] = SYSTYPE[j]
    BY <1>1 DEF Cmd
  <2> QED
    BY <2>1 DEF SYSTYPE
<1>2. \A v, w, f, g, x : Cmd(v, f, << x >>) # Cmd(w, g, << >>)
  <2>1. \A x : << x >> # << >>
    OBVIOUS
  <2> QED
    BY <2>1 DEF Cmd
<1> QED
  BY <1>1, <1>2 DEF Systems

(* A lock that is written is one of the two commands. *)
LEMMA LockIs ==
  ASSUME NEW v, NEW of, NEW args
  PROVE  \/ Lock(v, of, args) = Skip
         \/ \E verb \in LOCKS : Lock(v, of, args) = Cmd(verb, of, args)
BY DEF Lock, OnOff, LOCKS

LEMMA VerbIsNotSkip ==
  ASSUME NEW verb, NEW of, NEW args, verb # ""
  PROVE  Cmd(verb, of, args) # Skip
BY DEF Cmd, Skip

LEMMA SatsetUnasked ==
  ASSUME NEW r \in Requests, r.config = "satset", NEW verb \in LOCKS
  PROVE  /\ \A i \in 1..MAXPRN :
              /\ Cmd(verb, "gps", << i - 1 >>) \in Unasked(r) <=> i \in NoValue(r, "gpsprn")
              /\ Cmd(verb, "gln", << i - 1 >>) \in Unasked(r) <=> i \in NoValue(r, "gloprn")
              /\ Cmd(verb, "gal", << i - 1 >>) \in Unasked(r)
              /\ Cmd(verb, "bds", << i - 1 >>) \in Unasked(r) <=> i \in NoValue(r, "bdsprn")
              /\ Cmd(verb, "sbas", << i - 1 >>) \in Unasked(r) <=> i \in NoValue(r, "sbasprn")
         /\ \A i \in 1..5 : Cmd(verb, SYSTYPE[i], << >>) \in Unasked(r) <=> i \in NoValue(r, "sys")
<1> DEFINE N(name) == NoValue(r, name)
<1>1. Unasked(r) = Prns("gps", N("gpsprn")) \cup Prns("gln", N("gloprn"))
            \cup Prns("gal", 1..MAXPRN) \cup Prns("bds", N("bdsprn"))
            \cup Prns("sbas", N("sbasprn")) \cup Systems(N("sys"))
  BY DEF Unasked
<1>2. (\A name : N(name) \in SUBSET Int) /\ N("sys") \in SUBSET (1..5) /\ 1..MAXPRN \in SUBSET Int
  <2>1. "sys" \in DOMAIN LongestList /\ LongestList["sys"] = 5
    BY DEF LongestList
  <2>2. Len(Values(r.params, "sys")) \in Nat
    BY <2>1, ListedBegins
  <2>3. N("sys") \in SUBSET (1..5)
    BY <2>1, <2>2 DEF NoValue
  <2>4. \A x, y : x .. y \in SUBSET Int
    OBVIOUS
  <2> QED
    BY <2>3, <2>4 DEF NoValue
<1> HIDE DEF N
<1>3. \A of, f, P : \A i \in Int : P \in SUBSET Int =>
        (Cmd(verb, of, << i - 1 >>) \in Prns(f, P) <=> of = f /\ i \in P)
  BY AmongPrns
<1>4. \A of, f, P : P \in SUBSET Int => Cmd(verb, of, << >>) \notin Prns(f, P)
  BY AmongPrns
<1>5. /\ \A i \in 1..5 : Cmd(verb, SYSTYPE[i], << >>) \in Systems(N("sys")) <=> i \in N("sys")
      /\ \A of, x : Cmd(verb, of, << x >>) \notin Systems(N("sys"))
  BY <1>2, AmongSystems
<1>6. ASSUME NEW i \in 1..MAXPRN
      PROVE  /\ Cmd(verb, "gps", << i - 1 >>) \in Unasked(r) <=> i \in N("gpsprn")
             /\ Cmd(verb, "gln", << i - 1 >>) \in Unasked(r) <=> i \in N("gloprn")
             /\ Cmd(verb, "gal", << i - 1 >>) \in Unasked(r)
             /\ Cmd(verb, "bds", << i - 1 >>) \in Unasked(r) <=> i \in N("bdsprn")
             /\ Cmd(verb, "sbas", << i - 1 >>) \in Unasked(r) <=> i \in N("sbasprn")
  <2> DEFINE M(of) == Cmd(verb, of, << i - 1 >>)
  <2>1. i \in Int
    OBVIOUS
  <2>2. \A of : /\ M(of) \in Prns("gps", N("gpsprn")) <=> of = "gps" /\ i \in N("gpsprn")
                /\ M(of) \in Prns("gln", N("gloprn")) <=> of = "gln" /\ i \in N("gloprn")
                /\ M(of) \in Prns("gal", 1..MAXPRN) <=> of = "gal"
                /\ M(of) \in Prns("bds", N("bdsprn")) <=> of = "bds" /\ i \in N("bdsprn")
                /\ M(of) \in Prns("sbas", N("sbasprn")) <=> of = "sbas" /\ i \in N("sbasprn")
                /\ M(of) \notin Systems(N("sys"))
    <3>1. \A of, f, P : P \in SUBSET Int => (M(of) \in Prns(f, P) <=> of = f /\ i \in P)
      BY <1>3, <2>1
    <3>2. \A of : M(of) \notin Systems(N("sys"))
      BY <1>5
    <3> HIDE DEF M
    <3> QED
      BY <1>2, <3>1, <3>2
  <2> HIDE DEF M
  <2>3. /\ M("gps") \in Unasked(r) <=> i \in N("gpsprn")
        /\ M("gln") \in Unasked(r) <=> i \in N("gloprn")
        /\ M("gal") \in Unasked(r)
        /\ M("bds") \in Unasked(r) <=> i \in N("bdsprn")
        /\ M("sbas") \in Unasked(r) <=> i \in N("sbasprn")
    BY <1>1, <2>2
  <2> QED
    BY <2>3 DEF M
<1>7. ASSUME NEW i \in 1..5
      PROVE  Cmd(verb, SYSTYPE[i], << >>) \in Unasked(r) <=> i \in N("sys")
  BY <1>1, <1>2, <1>4, <1>5
<1> QED
  BY <1>6, <1>7 DEF N

(* The places of a row: its list, and what the query has not for it. *)
LEMMA RowCalls ==
  ASSUME NEW U, NEW prn, NEW j, NEW of, SYSTYPE[j] = of,
         NEW list, NEW m, m = Len(list), m \in 0..MAXPRN, DOMAIN list = 1..m,
         \A i \in 1..m : i <= Len(prn[j]) /\ prn[j][i] = list[i],
         \A i \in 1..MAXPRN : \A verb \in LOCKS :
           Cmd(verb, of, << i - 1 >>) \in U <=> i \in m + 1 .. MAXPRN
  PROVE  Calls(U, Row(prn, j, MAXPRN), Said([i \in DOMAIN list |-> Lock(list[i], of, << i - 1 >>)]))
<1> DEFINE n == MAXPRN
           p == Row(prn, j, n)
           g == [i \in 1..m |-> Lock(list[i], of, << i - 1 >>)]
<1>1. n \in Nat
  BY PageContract
<1>2. p = [i \in 1..n |-> p[i]] /\ g = [i \in 1..m |-> g[i]]
  BY DEF Row
<1>3. ASSUME NEW i \in 1..n, NEW v
      PROVE  /\ i \in 1..m => Ours(U, Lock(v, of, << i - 1 >>)) \/ Lock(v, of, << i - 1 >>) = Skip
             /\ i \in m + 1 .. n => ~ Ours(U, Lock(v, of, << i - 1 >>))
  <2>1. CASE Lock(v, of, << i - 1 >>) = Skip
    BY <2>1 DEF Ours
  <2>2. ASSUME NEW verb \in LOCKS, Lock(v, of, << i - 1 >>) = Cmd(verb, of, << i - 1 >>)
        PROVE  /\ i \in 1..m => Ours(U, Lock(v, of, << i - 1 >>))
               /\ i \in m + 1 .. n => ~ Ours(U, Lock(v, of, << i - 1 >>))
    <3>1. Cmd(verb, of, << i - 1 >>) # Skip
      BY VerbIsNotSkip DEF LOCKS
    <3>2. i \in 1..m => i \notin m + 1 .. n
      BY <1>1
    <3> QED
      BY <2>2, <3>1, <3>2 DEF Ours
  <2> QED
    BY <2>1, <2>2, LockIs
<1>4. \A i \in 1..m : p[i] = {g[i]} /\ i \in 1..n
  <2> SUFFICES ASSUME NEW i \in 1..m PROVE p[i] = {g[i]} /\ i \in 1..n
    OBVIOUS
  <2>1. i \in 1..n
    BY <1>1
  <2>2. p[i] = {Lock(prn[j][i], of, << i - 1 >>)}
    BY <2>1 DEF Row, At
  <2> QED
    BY <2>1, <2>2
<1>5. \A i \in m + 1 .. n : \A c \in p[i] : \E v : c = Lock(v, of, << i - 1 >>)
  <2> SUFFICES ASSUME NEW i \in m + 1 .. n, NEW c, c \in p[i] PROVE \E v : c = Lock(v, of, << i - 1 >>)
    OBVIOUS
  <2>1. i \in 1..n
    BY <1>1
  <2>2. p[i] = At(prn[j], i, LAMBDA v : Lock(v, SYSTYPE[j], << i - 1 >>))
    BY <2>1 DEF Row
  <2> QED
    BY <2>2 DEF At
<1>6. g = [i \in DOMAIN list |-> Lock(list[i], of, << i - 1 >>)]
  OBVIOUS
<1>7. \A i \in 1..m : g[i] = Lock(list[i], of, << i - 1 >>)
  OBVIOUS
<1> HIDE DEF p, g
<1>8. ASSUME NEW i \in 1..m PROVE p[i] = {g[i]} /\ (Ours(U, g[i]) \/ g[i] = Skip)
  <2>1. p[i] = {g[i]} /\ i \in 1..n
    BY <1>4
  <2>2. g[i] = Lock(list[i], of, << i - 1 >>)
    BY <1>7
  <2>3. Ours(U, Lock(list[i], of, << i - 1 >>)) \/ Lock(list[i], of, << i - 1 >>) = Skip
    BY <1>3, <2>1
  <2> QED
    BY <2>1, <2>2, <2>3
<1>9. ASSUME NEW i \in m + 1 .. n, NEW c \in p[i] PROVE ~ Ours(U, c)
  <2>1. i \in 1..n
    BY <1>1
  <2>2. PICK v : c = Lock(v, of, << i - 1 >>)
    BY <1>5
  <2>3. ~ Ours(U, Lock(v, of, << i - 1 >>))
    BY <1>3, <2>1
  <2> QED
    BY <2>2, <2>3
<1>10. Calls(U, p, Said(g))
  BY <1>1, <1>2, <1>8, <1>9, CallsPart
<1> QED
  BY <1>6, <1>10 DEF p

(* The third row, which no list is read into. *)
LEMMA GalileoCalls ==
  ASSUME NEW U, NEW prn, prn[3] = << >>,
         \A i \in 1..MAXPRN : \A verb \in LOCKS : Cmd(verb, "gal", << i - 1 >>) \in U
  PROVE  Calls(U, Row(prn, 3, MAXPRN), << >>)
<1> DEFINE list == << >>
           a == [i \in DOMAIN list |-> Lock(list[i], "gal", << i - 1 >>)]
<1>1. MAXPRN \in Nat /\ DOMAIN list = 1..0 /\ Len(list) = 0 /\ SYSTYPE[3] = "gal"
  BY PageContract DEF SYSTYPE
<1>2. a \in Seq({}) /\ Len(a) = 0
  BY <1>1
<1>3. Said(a) = << >>
  BY <1>2, KeptStart DEF Said, Without
<1> HIDE DEF list
<1>4. Calls(U, Row(prn, 3, MAXPRN), Said(a))
  <2>1. 0 \in 0..MAXPRN /\ 0 = Len(list)
    BY <1>1
  <2>2. \A i \in 1..0 : i <= Len(prn[3]) /\ prn[3][i] = list[i]
    OBVIOUS
  <2>3. \A i \in 1..MAXPRN : \A verb \in LOCKS :
          Cmd(verb, "gal", << i - 1 >>) \in U <=> i \in 0 + 1 .. MAXPRN
    <3> SUFFICES ASSUME NEW i \in 1..MAXPRN, NEW verb \in LOCKS
                 PROVE  Cmd(verb, "gal", << i - 1 >>) \in U /\ i \in 0 + 1 .. MAXPRN
      OBVIOUS
    <3>1. i \in 0 + 1 .. MAXPRN
      OBVIOUS
    <3> QED
      BY <3>1, Zenon
  <2> QED
    BY <1>1, <2>1, <2>2, <2>3, RowCalls
<1> QED
  BY <1>3, <1>4

LEMMA SatsetCalls ==
  ASSUME NEW r \in Requests, r.config = "satset"
  PROVE  Calls(Unasked(r), satset(r), Asked(r))
<1> DEFINE q == r.params
           U == Unasked(r)
           prn == Prn(r)
           row(j) == Row(prn, j, MAXPRN)
           sys == Values(q, "sys")
           m == Len(sys)
           p == [j \in 1..5 |-> At(Listed(r, "sys"), j, LAMBDA v : Lock(v, SYSTYPE[j], << >>))]
           g == [i \in 1..m |-> Lock(sys[i], SYSTYPE[i], << >>)]
           a1 == Satellites(q, "gpsprn", "gps")
           a2 == Satellites(q, "gloprn", "gln")
           a4 == Satellites(q, "bdsprn", "bds")
           a5 == Satellites(q, "sbasprn", "sbas")
           a6 == Said([i \in DOMAIN sys |-> Lock(sys[i], SYSTYPE[i], << >>)])
<1>1. MAXPRN \in Nat
  BY PageContract
<1>2. satset(r) = row(1) \o row(2) \o row(3) \o row(4) \o row(5) \o p
  BY DEF satset, Locks
<1>3. Asked(r) = a1 \o a2 \o a4 \o a5 \o a6
  BY DEF Asked
<1>4. \A name \in {"gpsprn", "gloprn", "bdsprn", "sbasprn"} :
        LET list == Values(q, name) IN
        /\ Len(list) \in 0..MAXPRN /\ DOMAIN list = 1 .. Len(list)
        /\ \A i \in 1 .. Len(list) : i <= Len(Listed(r, name)) /\ Listed(r, name)[i] = list[i]
  <2>1. \A name \in {"gpsprn", "gloprn", "bdsprn", "sbasprn"} :
          name \in DOMAIN LongestList /\ LongestList[name] = MAXPRN
    BY DEF LongestList
  <2> QED
    BY <1>1, <2>1, ListedBegins
<1>5. /\ m \in 0..5 /\ DOMAIN sys = 1..m
      /\ \A i \in 1..m : i <= Len(Listed(r, "sys")) /\ Listed(r, "sys")[i] = sys[i]
  <2>1. "sys" \in DOMAIN LongestList /\ LongestList["sys"] = 5
    BY DEF LongestList
  <2> DEFINE v == Values(r.params, "sys")
  <2>2. /\ Len(v) \in Nat /\ DOMAIN v = 1 .. Len(v) /\ Len(v) <= LongestList["sys"]
        /\ \A i \in 1 .. Len(v) : i <= Len(Listed(r, "sys")) /\ Listed(r, "sys")[i] = v[i]
    BY <2>1, ListedBegins
  <2>3. Len(v) \in 0..5
    <3>1. Len(v) \in Nat /\ Len(v) <= 5
      BY <2>1, <2>2, Zenon
    <3>2. \A x \in Nat : x <= 5 => x \in 0..5
      OBVIOUS
    <3> QED
      BY <3>1, <3>2, Zenon
  <2> QED
    BY <2>2, <2>3, Zenon
<1>6. /\ prn[1] = Listed(r, "gpsprn") /\ prn[2] = Listed(r, "gloprn") /\ prn[3] = << >>
      /\ prn[4] = Listed(r, "bdsprn") /\ prn[5] = Listed(r, "sbasprn")
  BY DEF Prn
<1>7. /\ SYSTYPE[1] = "gps" /\ SYSTYPE[2] = "gln" /\ SYSTYPE[4] = "bds" /\ SYSTYPE[5] = "sbas"
  BY DEF SYSTYPE
<1>8. /\ NoValue(r, "gpsprn") = Len(Values(q, "gpsprn")) + 1 .. MAXPRN
      /\ NoValue(r, "gloprn") = Len(Values(q, "gloprn")) + 1 .. MAXPRN
      /\ NoValue(r, "bdsprn") = Len(Values(q, "bdsprn")) + 1 .. MAXPRN
      /\ NoValue(r, "sbasprn") = Len(Values(q, "sbasprn")) + 1 .. MAXPRN
      /\ NoValue(r, "sys") = m + 1 .. 5
  BY DEF NoValue, LongestList
<1> HIDE DEF U, prn, p, g, a6
<1>9. ASSUME NEW verb \in LOCKS
      PROVE  /\ \A i \in 1..MAXPRN :
                  /\ Cmd(verb, "gps", << i - 1 >>) \in U <=> i \in NoValue(r, "gpsprn")
                  /\ Cmd(verb, "gln", << i - 1 >>) \in U <=> i \in NoValue(r, "gloprn")
                  /\ Cmd(verb, "gal", << i - 1 >>) \in U
                  /\ Cmd(verb, "bds", << i - 1 >>) \in U <=> i \in NoValue(r, "bdsprn")
                  /\ Cmd(verb, "sbas", << i - 1 >>) \in U <=> i \in NoValue(r, "sbasprn")
             /\ \A i \in 1..5 : Cmd(verb, SYSTYPE[i], << >>) \in U <=> i \in NoValue(r, "sys")
  BY SatsetUnasked DEF U
<1>10. Calls(U, p, a6)
  <2>1. p = [j \in 1..5 |-> p[j]] /\ g = [i \in 1..m |-> g[i]]
    BY DEF p, g
  <2>2. ASSUME NEW i \in 1..5, NEW v
        PROVE  /\ i \in 1..m => Ours(U, Lock(v, SYSTYPE[i], << >>)) \/ Lock(v, SYSTYPE[i], << >>) = Skip
               /\ i \in m + 1 .. 5 => ~ Ours(U, Lock(v, SYSTYPE[i], << >>))
    <3>1. CASE Lock(v, SYSTYPE[i], << >>) = Skip
      BY <3>1 DEF Ours
    <3>2. ASSUME NEW verb \in LOCKS, Lock(v, SYSTYPE[i], << >>) = Cmd(verb, SYSTYPE[i], << >>)
          PROVE  /\ i \in 1..m => Ours(U, Lock(v, SYSTYPE[i], << >>))
                 /\ i \in m + 1 .. 5 => ~ Ours(U, Lock(v, SYSTYPE[i], << >>))
      <4>1. Cmd(verb, SYSTYPE[i], << >>) # Skip
        BY VerbIsNotSkip DEF LOCKS
      <4>2. i \in 1..m => i \notin m + 1 .. 5
        BY <1>5
      <4>3. Cmd(verb, SYSTYPE[i], << >>) \in U <=> i \in m + 1 .. 5
        BY <1>8, <1>9
      <4> QED
        BY <3>2, <4>1, <4>2, <4>3 DEF Ours
    <3> QED
      BY <3>1, <3>2, LockIs
  <2>3. \A i \in 1..m : p[i] = {g[i]} /\ i \in 1..5 /\ g[i] = Lock(sys[i], SYSTYPE[i], << >>)
    <3> SUFFICES ASSUME NEW i \in 1..m
                 PROVE  p[i] = {g[i]} /\ i \in 1..5 /\ g[i] = Lock(sys[i], SYSTYPE[i], << >>)
      OBVIOUS
    <3>1. i \in 1..5
      BY <1>5
    <3>2. p[i] = At(Listed(r, "sys"), i, LAMBDA v : Lock(v, SYSTYPE[i], << >>))
      BY <3>1 DEF p
    <3>3. p[i] = {Lock(Listed(r, "sys")[i], SYSTYPE[i], << >>)}
      BY <1>5, <3>2 DEF At
    <3> QED
      BY <1>5, <3>1, <3>3 DEF g
  <2>4. \A i \in m + 1 .. 5 : i \in 1..5 /\ \A c \in p[i] : \E v : c = Lock(v, SYSTYPE[i], << >>)
    <3> SUFFICES ASSUME NEW i \in m + 1 .. 5
                 PROVE  i \in 1..5 /\ \A c \in p[i] : \E v : c = Lock(v, SYSTYPE[i], << >>)
      OBVIOUS
    <3>1. i \in 1..5
      BY <1>5
    <3>2. p[i] = At(Listed(r, "sys"), i, LAMBDA v : Lock(v, SYSTYPE[i], << >>))
      BY <3>1 DEF p
    <3> HIDE DEF m
    <3>3. \A c \in p[i] : \E v : c = Lock(v, SYSTYPE[i], << >>)
      BY <3>2 DEF At
    <3> QED
      BY <3>1, <3>3
  <2>5. a6 = Said(g)
    BY <1>5 DEF a6, g
  <2>6. \A i \in 1..m : p[i] = {g[i]} /\ (Ours(U, g[i]) \/ g[i] = Skip)
    BY <2>2, <2>3
  <2>7. \A i \in m + 1 .. 5 : \A c \in p[i] : ~ Ours(U, c)
    BY <2>2, <2>4
  <2> HIDE DEF sys, m
  <2>8. Calls(U, p, Said(g))
    BY <1>5, <2>1, <2>6, <2>7, CallsPart
  <2> QED
    BY <2>5, <2>8
<1>11. Calls(U, row(1), a1)
  <2> DEFINE list == Values(q, "gpsprn")
  <2>1. /\ Len(list) \in 0..MAXPRN /\ DOMAIN list = 1 .. Len(list)
        /\ \A i \in 1 .. Len(list) : i <= Len(prn[1]) /\ prn[1][i] = list[i]
    BY <1>4, <1>6
  <2>2. \A i \in 1..MAXPRN : \A verb \in LOCKS :
          Cmd(verb, "gps", << i - 1 >>) \in U <=> i \in Len(list) + 1 .. MAXPRN
    BY <1>8, <1>9
  <2>3. a1 = Said([i \in DOMAIN list |-> Lock(list[i], "gps", << i - 1 >>)])
    BY DEF Satellites
  <2> HIDE DEF list, a1
  <2> QED
    BY <1>7, <2>1, <2>2, <2>3, RowCalls
<1>12. Calls(U, row(2), a2)
  <2> DEFINE list == Values(q, "gloprn")
  <2>1. /\ Len(list) \in 0..MAXPRN /\ DOMAIN list = 1 .. Len(list)
        /\ \A i \in 1 .. Len(list) : i <= Len(prn[2]) /\ prn[2][i] = list[i]
    BY <1>4, <1>6
  <2>2. \A i \in 1..MAXPRN : \A verb \in LOCKS :
          Cmd(verb, "gln", << i - 1 >>) \in U <=> i \in Len(list) + 1 .. MAXPRN
    BY <1>8, <1>9
  <2>3. a2 = Said([i \in DOMAIN list |-> Lock(list[i], "gln", << i - 1 >>)])
    BY DEF Satellites
  <2> HIDE DEF list, a2
  <2> QED
    BY <1>7, <2>1, <2>2, <2>3, RowCalls
<1>13. Calls(U, row(3), << >>)
  BY <1>6, <1>9, GalileoCalls
<1>14. Calls(U, row(4), a4)
  <2> DEFINE list == Values(q, "bdsprn")
  <2>1. /\ Len(list) \in 0..MAXPRN /\ DOMAIN list = 1 .. Len(list)
        /\ \A i \in 1 .. Len(list) : i <= Len(prn[4]) /\ prn[4][i] = list[i]
    BY <1>4, <1>6
  <2>2. \A i \in 1..MAXPRN : \A verb \in LOCKS :
          Cmd(verb, "bds", << i - 1 >>) \in U <=> i \in Len(list) + 1 .. MAXPRN
    BY <1>8, <1>9
  <2>3. a4 = Said([i \in DOMAIN list |-> Lock(list[i], "bds", << i - 1 >>)])
    BY DEF Satellites
  <2> HIDE DEF list, a4
  <2> QED
    BY <1>7, <2>1, <2>2, <2>3, RowCalls
<1>15. Calls(U, row(5), a5)
  <2> DEFINE list == Values(q, "sbasprn")
  <2>1. /\ Len(list) \in 0..MAXPRN /\ DOMAIN list = 1 .. Len(list)
        /\ \A i \in 1 .. Len(list) : i <= Len(prn[5]) /\ prn[5][i] = list[i]
    BY <1>4, <1>6
  <2>2. \A i \in 1..MAXPRN : \A verb \in LOCKS :
          Cmd(verb, "sbas", << i - 1 >>) \in U <=> i \in Len(list) + 1 .. MAXPRN
    BY <1>8, <1>9
  <2>3. a5 = Said([i \in DOMAIN list |-> Lock(list[i], "sbas", << i - 1 >>)])
    BY DEF Satellites
  <2> HIDE DEF list, a5
  <2> QED
    BY <1>7, <2>1, <2>2, <2>3, RowCalls
<1> HIDE DEF row, a1, a2, a4, a5
<1>16. Calls(U, row(1) \o row(2), a1 \o a2)
  BY <1>11, <1>12, CallsJoined
<1>17. Calls(U, row(1) \o row(2) \o row(3), a1 \o a2)
  <2>1. Calls(U, row(1) \o row(2) \o row(3), (a1 \o a2) \o << >>)
    BY <1>13, <1>16, CallsJoined
  <2>2. \E C : a1 \o a2 \in Seq(C)
    BY <1>16 DEF Calls
  <2>3. (a1 \o a2) \o << >> = a1 \o a2
    BY <2>2, ConcatEmptySeq
  <2> QED
    BY <2>1, <2>3
<1>18. Calls(U, row(1) \o row(2) \o row(3) \o row(4), a1 \o a2 \o a4)
  BY <1>14, <1>17, CallsJoined
<1>19. Calls(U, row(1) \o row(2) \o row(3) \o row(4) \o row(5), a1 \o a2 \o a4 \o a5)
  BY <1>15, <1>18, CallsJoined
<1>20. Calls(U, satset(r), Asked(r))
  BY <1>2, <1>3, <1>10, <1>19, CallsJoined
<1> QED
  BY <1>20 DEF U

LEMMA CloseIs ==
  ASSUME NEW v, NEW of, NEW args
  PROVE  \/ Close(v, of, args) = Skip
         \/ \E verb \in {"close", "unclose"} : Close(v, of, args) = Cmd(verb, of, args)
BY DEF Close, OnOff

LEMMA AmongFrequencies ==
  ASSUME NEW places \in SUBSET (1..8)
  PROVE  /\ \A i \in 1..8 : \A verb \in {"close", "unclose"} :
              Cmd(verb, FRE[i], << >>) \in Frequencies(places) <=> i \in places
         /\ \A verb, args : Cmd(verb, "", args) \notin Frequencies(places)
<1>1. \A i, j \in 1..8 : FRE[i] = FRE[j] => i = j
  BY DEF FRE
<1>2. \A i \in 1..8 : FRE[i] # ""
  <2>1. \A i \in 1..8 : FRE[i] \in {"L1", "L2", "L5", "B1", "B2", "B3", "GL1", "GL2"}
    BY DEF FRE
  <2> QED
    BY <2>1
<1>3. ASSUME NEW i \in 1..8, NEW verb \in {"close", "unclose"}
      PROVE  Cmd(verb, FRE[i], << >>) \in Frequencies(places) <=> i \in places
  <2>1. ASSUME Cmd(verb, FRE[i], << >>) \in Frequencies(places) PROVE i \in places
    <3>1. PICK w \in {"close", "unclose"}, j \in places :
            Cmd(verb, FRE[i], << >>) = Cmd(w, FRE[j], << >>)
      BY <2>1 DEF Frequencies
    <3>2. FRE[i] = FRE[j]
      BY <3>1 DEF Cmd
    <3> QED
      BY <1>1, <3>2
  <2>2. ASSUME i \in places PROVE Cmd(verb, FRE[i], << >>) \in Frequencies(places)
    BY <2>2 DEF Frequencies
  <2> QED
    BY <2>1, <2>2
<1>4. ASSUME NEW verb, NEW args, Cmd(verb, "", args) \in Frequencies(places)
      PROVE  FALSE
  <2> DEFINE x == Cmd(verb, "", args)
  <2> HIDE DEF x
  <2>1. PICK w \in {"close", "unclose"}, j \in places : x = Cmd(w, FRE[j], << >>)
    <3>1. x \in Frequencies(places)
      BY <1>4 DEF x
    <3> QED
      BY <3>1 DEF Frequencies
  <2>2. FRE[j] = ""
    BY <2>1 DEF Cmd, x
  <2> QED
    BY <1>2, <2>2
<1> QED
  BY <1>3, <1>4

LEMMA ChannelsetCalls ==
  ASSUME NEW r \in Requests, r.config = "channelset"
  PROVE  Calls(Unasked(r), channelset(r), Asked(r))
<1> DEFINE q == r.params
           U == Unasked(r)
           names == {"channel", "chsta"}
           closefre == Values(q, "closefre")
           m == Len(closefre)
           list == Listed(r, "closefre")
           p == [i \in 1..8 |-> At(list, i, LAMBDA v : Close(v, FRE[i], << >>))]
           c == CloseChannel(q)
           g == [i \in 1..m |-> Close(closefre[i], FRE[i], << >>)]
           a1 == Said([i \in DOMAIN closefre |-> Close(closefre[i], FRE[i], << >>)])
           a2 == Said(<< c >>)
<1>1. channelset(r) = Given(q, names, p \o << {c} >>) /\ Asked(r) = Given(q, names, a1 \o a2)
  BY DEF channelset, Asked
<1>2. /\ m \in 0..8 /\ DOMAIN closefre = 1..m
      /\ \A i \in 1..m : i <= Len(list) /\ list[i] = closefre[i]
  <2>1. "closefre" \in DOMAIN LongestList /\ LongestList["closefre"] = 8
    BY DEF LongestList
  <2> DEFINE v == Values(r.params, "closefre")
  <2>2. /\ Len(v) \in Nat /\ DOMAIN v = 1 .. Len(v) /\ Len(v) <= LongestList["closefre"]
        /\ \A i \in 1 .. Len(v) : i <= Len(Listed(r, "closefre")) /\ Listed(r, "closefre")[i] = v[i]
    BY <2>1, ListedBegins
  <2>3. Len(v) \in 0..8
    <3>1. Len(v) \in Nat /\ Len(v) <= 8
      BY <2>1, <2>2, Zenon
    <3>2. \A x \in Nat : x <= 8 => x \in 0..8
      OBVIOUS
    <3> QED
      BY <3>1, <3>2, Zenon
  <2> QED
    BY <2>2, <2>3, Zenon
<1>3. U = Frequencies(m + 1 .. 8)
  <2>1. NoValue(r, "closefre") = m + 1 .. 8
    BY DEF NoValue, LongestList
  <2> QED
    BY <2>1 DEF Unasked
<1>4. m + 1 .. 8 \in SUBSET (1..8)
  <2> HIDE DEF m
  <2> QED
    BY <1>2
<1> HIDE DEF U, m
<1>5. /\ \A i \in 1..8 : \A verb \in {"close", "unclose"} :
           Cmd(verb, FRE[i], << >>) \in U <=> i \in m + 1 .. 8
      /\ \A verb, args : Cmd(verb, "", args) \notin U
  BY <1>3, <1>4, AmongFrequencies
<1> USE DEF m
<1> HIDE DEF U
<1>6. Calls(U, p, a1)
  <2>1. p = [j \in 1..8 |-> p[j]] /\ g = [i \in 1..m |-> g[i]]
    OBVIOUS
  <2>2. ASSUME NEW i \in 1..8, NEW v
        PROVE  /\ i \in 1..m => Ours(U, Close(v, FRE[i], << >>)) \/ Close(v, FRE[i], << >>) = Skip
               /\ i \in m + 1 .. 8 => ~ Ours(U, Close(v, FRE[i], << >>))
    <3>1. CASE Close(v, FRE[i], << >>) = Skip
      BY <3>1 DEF Ours
    <3>2. ASSUME NEW verb \in {"close", "unclose"}, Close(v, FRE[i], << >>) = Cmd(verb, FRE[i], << >>)
          PROVE  /\ i \in 1..m => Ours(U, Close(v, FRE[i], << >>))
                 /\ i \in m + 1 .. 8 => ~ Ours(U, Close(v, FRE[i], << >>))
      <4>1. Cmd(verb, FRE[i], << >>) # Skip
        BY VerbIsNotSkip
      <4>2. i \in 1..m => i \notin m + 1 .. 8
        BY <1>2
      <4> QED
        BY <1>5, <3>2, <4>1, <4>2 DEF Ours
    <3> QED
      BY <3>1, <3>2, CloseIs
  <2>3. \A i \in 1..m : p[i] = {g[i]} /\ i \in 1..8 /\ g[i] = Close(closefre[i], FRE[i], << >>)
    <3> SUFFICES ASSUME NEW i \in 1..m
                 PROVE  p[i] = {g[i]} /\ i \in 1..8 /\ g[i] = Close(closefre[i], FRE[i], << >>)
      OBVIOUS
    <3>1. i \in 1..8
      <4> HIDE DEF m
      <4> QED
        BY <1>2
    <3>2. p[i] = At(list, i, LAMBDA v : Close(v, FRE[i], << >>))
      BY <3>1
    <3>3. p[i] = {Close(list[i], FRE[i], << >>)}
      BY <1>2, <3>2 DEF At
    <3> QED
      BY <1>2, <3>1, <3>3
  <2>4. \A i \in m + 1 .. 8 : i \in 1..8 /\ \A d \in p[i] : \E v : d = Close(v, FRE[i], << >>)
    <3> SUFFICES ASSUME NEW i \in m + 1 .. 8
                 PROVE  i \in 1..8 /\ \A d \in p[i] : \E v : d = Close(v, FRE[i], << >>)
      OBVIOUS
    <3>1. i \in 1..8
      BY <1>2
    <3>2. p[i] = At(list, i, LAMBDA v : Close(v, FRE[i], << >>))
      BY <3>1
    <3> QED
      BY <3>1, <3>2 DEF At
  <2>5. a1 = Said(g)
    BY <1>2
  <2> HIDE DEF p, g, a1
  <2>6. \A i \in 1..m : p[i] = {g[i]} /\ (Ours(U, g[i]) \/ g[i] = Skip)
    BY <2>2, <2>3
  <2>7. \A i \in m + 1 .. 8 : \A d \in p[i] : ~ Ours(U, d)
    BY <2>2, <2>4
  <2> HIDE DEF m
  <2>8. Calls(U, p, Said(g))
    BY <1>2, <2>1, <2>6, <2>7, CallsPart
  <2> QED
    BY <2>5, <2>8
<1>7. Calls(U, << {c} >>, a2)
  <2>1. Ours(U, c) \/ c = Skip
    <3>1. \A verb \in {"close", "unclose"} : \A args : Ours(U, Cmd(verb, "", args))
      BY <1>5, VerbIsNotSkip DEF Ours
    <3>2. c = Skip \/ \E verb \in {"close", "unclose"} : c = Cmd(verb, "", Get(q, << "channel" >>))
      BY CloseIs DEF CloseChannel
    <3> QED
      BY <3>1, <3>2
  <2> HIDE DEF c
  <2> QED
    BY <2>1, CallsOne
<1> HIDE DEF p, c, a1, a2
<1>8. Calls(U, p \o << {c} >>, a1 \o a2)
  BY <1>6, <1>7, CallsJoined
<1>9. Calls(U, channelset(r), Asked(r))
  BY <1>1, <1>8, CallsNone DEF Given
<1> QED
  BY <1>9 DEF U

LEMMA AntnsetCalls ==
  ASSUME NEW r \in Requests, r.config = "antnset"
  PROVE  Calls(Unasked(r), antnset(r), Asked(r))
<1> DEFINE U == Unasked(r)
           com == Values(r.params, "com")
           m == Len(com)
           list == Listed(r, "com")
           p == [i \in 1..3 |-> At(list, i, LAMBDA v : Antenna(v, i))]
           g == [i \in 1..m |-> Antenna(com[i], i)]
<1>1. antnset(r) = p /\ Asked(r) = [i \in DOMAIN com |-> Antenna(com[i], i)]
  BY DEF antnset, Asked
<1>2. /\ m \in 0..3 /\ DOMAIN com = 1..m
      /\ \A i \in 1..m : i <= Len(list) /\ list[i] = com[i]
  <2>1. "com" \in DOMAIN LongestList /\ LongestList["com"] = 3
    BY DEF LongestList
  <2> DEFINE v == Values(r.params, "com")
  <2>2. /\ Len(v) \in Nat /\ DOMAIN v = 1 .. Len(v) /\ Len(v) <= LongestList["com"]
        /\ \A i \in 1 .. Len(v) : i <= Len(Listed(r, "com")) /\ Listed(r, "com")[i] = v[i]
    BY <2>1, ListedBegins
  <2>3. Len(v) \in 0..3
    <3>1. Len(v) \in Nat /\ Len(v) <= 3
      BY <2>1, <2>2, Zenon
    <3>2. \A x \in Nat : x <= 3 => x \in 0..3
      OBVIOUS
    <3> QED
      BY <3>1, <3>2, Zenon
  <2> QED
    BY <2>2, <2>3, Zenon
<1>3. U = {Antenna(v, i) : v \in {1, 2}, i \in m + 1 .. 3}
  <2>1. NoValue(r, "com") = m + 1 .. 3
    BY DEF NoValue, LongestList
  <2>2. U = {Antenna(v, i) : v \in {1, 2}, i \in NoValue(r, "com")}
    BY DEF Unasked
  <2> QED
    BY <2>1, <2>2
<1>4. \A v, i : Antenna(v, i) # Skip
  BY VerbIsNotSkip DEF Antenna
<1>5. \A v, w : \A i, j \in Int : Antenna(v, i) = Antenna(w, j) => i = j
  BY DEF Antenna, Cmd
<1>6. \A v, i : Antenna(v, i) = Antenna(1, i) \/ Antenna(v, i) = Antenna(2, i)
  <2>1. Char(1) = 1 /\ Char(2) # 1
    BY DEF Char
  <2> QED
    BY <2>1 DEF Antenna
<1>7. ASSUME NEW i \in 1..m, NEW v PROVE Ours(U, Antenna(v, i))
  <2>1. i \in Int /\ \A j \in m + 1 .. 3 : j \in Int /\ j # i
    BY <1>2
  <2> HIDE DEF U, m
  <2> QED
    BY <1>3, <1>4, <1>5, <2>1 DEF Ours
<1>8. ASSUME NEW i \in m + 1 .. 3, NEW v PROVE ~ Ours(U, Antenna(v, i))
  BY <1>3, <1>6 DEF Ours
<1> HIDE DEF U
<1>9. p = [j \in 1..3 |-> p[j]] /\ g = [i \in 1..m |-> g[i]]
  OBVIOUS
<1>10. \A i \in 1..m : p[i] = {g[i]} /\ g[i] = Antenna(com[i], i)
  <2> SUFFICES ASSUME NEW i \in 1..m PROVE p[i] = {g[i]} /\ g[i] = Antenna(com[i], i)
    OBVIOUS
  <2>1. i \in 1..3
    BY <1>2
  <2>2. p[i] = {Antenna(list[i], i)}
    BY <1>2, <2>1 DEF At
  <2> QED
    BY <1>2, <2>2
<1>11. \A i \in m + 1 .. 3 : \A d \in p[i] : \E v : d = Antenna(v, i)
  <2> SUFFICES ASSUME NEW i \in m + 1 .. 3, NEW d, d \in p[i] PROVE \E v : d = Antenna(v, i)
    OBVIOUS
  <2>1. i \in 1..3
    BY <1>2
  <2>2. p[i] = At(list, i, LAMBDA v : Antenna(v, i))
    BY <2>1
  <2> QED
    BY <2>2 DEF At
<1>12. g = Asked(r) /\ g \in Seq({g[i] : i \in 1..m}) /\ Len(g) = m
  <2>1. g = Asked(r)
    BY <1>1, <1>2
  <2> HIDE DEF g
  <2>2. g \in [1..m -> {g[i] : i \in 1..m}]
    BY <1>9
  <2> HIDE DEF m
  <2> QED
    BY <1>2, <2>1, <2>2
<1> HIDE DEF p, g
<1>13. \A i \in 1..m : p[i] = {g[i]} /\ Ours(U, g[i])
  BY <1>7, <1>10
<1>14. \A i \in m + 1 .. 3 : \A d \in p[i] : ~ Ours(U, d)
  BY <1>8, <1>11
<1> HIDE DEF m
<1>15. Calls(U, p, Said(g))
  BY <1>2, <1>9, <1>13, <1>14, CallsPart
<1>16. Said(g) = g
  <2>1. \A i \in 1 .. Len(g) : g[i] \notin {Skip}
    BY <1>12, <1>13 DEF Ours
  <2> QED
    BY <1>12, <2>1, WithoutAll DEF Said
<1> QED
  BY <1>1, <1>12, <1>15, <1>16 DEF U

LEMMA UploadNotSkip ==
  ASSUME NEW time, NEW com, NEW log
  PROVE  Upload(time, com, log) # Skip
BY VerbIsNotSkip DEF Upload

LEMMA ClientNotSkip ==
  ASSUME NEW q
  PROVE  ClientOrServer(q) # Skip
BY VerbIsNotSkip DEF ClientOrServer

LEMMA IosetCalls ==
  ASSUME NEW r \in Requests, r.config = "ioset", OfMany(r)
  PROVE  Calls(Unasked(r), ioset(r), Asked(r))
<1> DEFINE q == r.params
           U == Unasked(r)
           names == {"clientbool", "ip", "port", "com", "datatype"}
           com == get_param_value(q, "com")
           logs == Logs(q)
           times == Values(q, "datatime")
           list == Listed(r, "datatime")
           first == ClientOrServer(q)
           p == [i \in DOMAIN logs |-> At(list, i, LAMBDA time : Upload(time, com, logs[i]))]
           g == [i \in DOMAIN logs |-> Upload(times[i], com, logs[i])]
<1>1. /\ ioset(r) = Given(q, names, << {first} >> \o p)
      /\ Asked(r) = Given(q, names, << first >> \o g)
  BY DEF ioset, Asked
<1>2. U = {}
  BY DEF Unasked
<1>3. CASE ~ Has(q, "datatype")
  <2>1. ioset(r) = << >> /\ Asked(r) = << >>
    BY <1>1, <1>3 DEF Given
  <2> HIDE DEF U
  <2> QED
    BY <2>1, CallsNone DEF U
<1>4. CASE Has(q, "datatype")
  <2>1. PICK n \in 1..10 : DOMAIN logs = 1..n /\ Len(logs) = n
    <3>1. get_param_value(q, "datatype") + 1 \in DOMAIN UPRAW
      BY <1>4, PageContract
    <3>2. DOMAIN UPRAW = 1..4
      BY DEF UPRAW
    <3>3. \A t \in 1..4 : \E n \in 1..10 : DOMAIN UPRAW[t] = 1..n /\ Len(UPRAW[t]) = n
      BY DEF UPRAW
    <3> QED
      BY <3>1, <3>2, <3>3 DEF Logs
  <2>2. \A i \in 1..n : i <= Len(list) /\ list[i] = times[i]
    <3>1. Len(times) >= n
      BY <1>4, <2>1 DEF OfMany
    <3>2. "datatime" \in DOMAIN LongestList
      BY DEF LongestList
    <3>3. /\ Len(times) \in Nat
          /\ \A i \in 1 .. Len(times) : i <= Len(list) /\ list[i] = times[i]
      <4> HIDE DEF q
      <4> QED
        BY <3>2, ListedBegins DEF q
    <3>4. \A i \in 1..n : i \in 1 .. Len(times)
      BY <3>1, <3>3
    <3> QED
      BY <3>3, <3>4
  <2>3. g = [i \in 1..n |-> g[i]] /\ n \in Nat
    BY <2>1
  <2>4. p = [i \in 1..n |-> {g[i]}]
    <3>1. \A i \in 1..n : p[i] = {g[i]}
      <4> SUFFICES ASSUME NEW i \in 1..n PROVE p[i] = {g[i]}
        OBVIOUS
      <4>1. p[i] = {Upload(list[i], com, logs[i])}
        BY <2>1, <2>2 DEF At
      <4> QED
        BY <2>1, <2>2, <4>1
    <3>2. p = [i \in 1..n |-> p[i]]
      BY <2>1
    <3> HIDE DEF p, g
    <3> QED
      BY <3>1, <3>2
  <2>5. \A i \in 1..n : Ours(U, g[i])
    BY <1>2, <2>1, UploadNotSkip DEF Ours
  <2> HIDE DEF U, g, p
  <2>6. g \in Seq({g[i] : i \in 1..n}) /\ Len(g) = n
    <3>1. g \in [1..n -> {g[i] : i \in 1..n}]
      BY <2>3
    <3> QED
      BY <2>3, <3>1
  <2>7. Calls(U, [i \in 1..n |-> {g[i]}], Said(g))
    BY <2>3, <2>5, CallsList
  <2>8. Said(g) = g
    <3>1. \A i \in 1 .. Len(g) : g[i] \notin {Skip}
      BY <2>5, <2>6 DEF Ours
    <3> QED
      BY <2>6, <3>1, WithoutAll DEF Said
  <2>9. Calls(U, p, g)
    BY <2>4, <2>7, <2>8
  <2>10. Calls(U, << {first} >>, << first >>)
    <3>1. Ours(U, first) /\ first \notin {Skip}
      BY <1>2, ClientNotSkip DEF Ours
    <3> HIDE DEF first
    <3>2. Calls(U, << {first} >>, Said(<< first >>))
      BY <3>1, CallsOne
    <3>3. Without(<< first >>, {Skip}) = << first >>
      BY <3>1, WithoutOne
    <3> QED
      BY <3>2, <3>3 DEF Said
  <2> HIDE DEF first
  <2>11. Calls(U, << {first} >> \o p, << first >> \o g)
    BY <2>9, <2>10, CallsJoined
  <2>12. Calls(U, ioset(r), Asked(r))
    BY <1>1, <2>11, CallsNone DEF Given
  <2> QED
    BY <2>12 DEF U
<1> QED
  BY <1>3, <1>4

(* A request of several commands calls for what it asks. *)
LEMMA ManyCalls ==
  ASSUME NEW r \in Requests, OfMany(r)
  PROVE  Calls(Unasked(r), pro_config(r), Asked(r))
<1>1. CASE r.config = "satset"
  <2>1. pro_config(r) = satset(r)
    BY <1>1 DEF pro_config
  <2> QED
    BY <1>1, <2>1, SatsetCalls
<1>2. CASE r.config = "channelset"
  <2>1. pro_config(r) = channelset(r)
    BY <1>2 DEF pro_config
  <2> QED
    BY <1>2, <2>1, ChannelsetCalls
<1>3. CASE r.config = "antnset"
  <2>1. pro_config(r) = antnset(r)
    BY <1>3 DEF pro_config
  <2> QED
    BY <1>3, <2>1, AntnsetCalls
<1>4. CASE r.config = "ioset"
  <2>1. pro_config(r) = ioset(r)
    BY <1>4 DEF pro_config
  <2> QED
    BY <1>4, <2>1, IosetCalls
<1> QED
  BY <1>1, <1>2, <1>3, <1>4 DEF OfMany

-----------------------------------------------------------------------------
(* What was asked for is what has been written of it, and what the places  *)
(* to come call for.                                                       *)
Rests(rest) ==
  /\ Asked(request) = Without(sent, Unasked(request)) \o rest
  /\ \E C : rest \in Seq(C)
  /\ outcome = "writing" => Calls(Unasked(request), todo, rest)
  /\ outcome = "done" => rest = << >>

OrderInv == (request # None /\ OfMany(request)) => \E rest : Rests(rest)

LEMMA OrderBegins ==
  ASSUME NEW r \in Requests, web_pro(r)
  PROVE  OrderInv'
<1> SUFFICES ASSUME OfMany(r) PROVE \E rest : Rests(rest)'
  BY DEF web_pro, OrderInv
<1>1. /\ request' = r /\ todo' = pro_config(r) /\ outcome' = "writing" /\ sent' = << >>
  BY DEF web_pro
<1>2. Calls(Unasked(r), pro_config(r), Asked(r))
  BY ManyCalls
<1>3. PICK C : Asked(r) \in Seq(C)
  BY <1>2 DEF Calls
<1>4. Without(<< >>, Unasked(r)) = << >>
  BY KeptStart, EmptySeq DEF Without
<1>5. << >> \o Asked(r) = Asked(r)
  BY <1>3, ConcatEmptySeq
<1>6. Rests(Asked(r))'
  <2>1. Asked(r) = Without(sent', Unasked(r)) \o Asked(r)
    BY <1>1, <1>4, <1>5
  <2> QED
    BY <1>1, <1>2, <1>3, <2>1 DEF Rests
<1> QED
  BY <1>6

(* A place that goes takes a command of ours with it exactly if it has one. *)
LEMMA OrderGoesOn ==
  ASSUME CommandInv, OrderInv, Commands
  PROVE  OrderInv'
<1>1. outcome = "writing" /\ todo # << >> /\ request' = request
  BY DEF Commands, Pass, Write, WriteFails, Place
<1> SUFFICES ASSUME request # None, OfMany(request) PROVE \E rest : Rests(rest)'
  BY <1>1 DEF OrderInv
<1>2. PICK rest : Rests(rest)
  BY DEF OrderInv
<1> DEFINE U == Unasked(request)
           mine == Without(sent, U)
           P == Head(todo)
<1>3. /\ Asked(request) = mine \o rest /\ Calls(U, todo, rest)
  BY <1>1, <1>2 DEF Rests
<1> HIDE DEF U
<1>4. Settled(U, P)
  BY <1>1, <1>3, CallsHead
<1>5. PICK b : Calls(U, Tail(todo), b) /\ rest = Said(<< Mine(U, P) >>) \o b
  <2>1. \E b : Calls(U, Tail(todo), b) /\ rest = SaidFirst(U, todo) \o b
    BY <1>1, <1>3, CallsHead
  <2> QED
    BY <2>1 DEF SaidFirst
<1>6. PICK B : b \in Seq(B)
  BY <1>5 DEF Calls
<1>7. PICK S : sent \in Seq(S)
  BY DEF CommandInv
<1>8. mine \in Seq(S)
  BY <1>7, WithoutSeq
<1> HIDE DEF mine, P
<1>9. CASE Pass
  <2>1. Skip \in P /\ todo' = Tail(todo) /\ UNCHANGED << request, sent, outcome >>
    BY <1>9 DEF Pass, Place, P
  <2>2. Mine(U, P) = Skip
    BY <1>4, <2>1, MineSaid
  <2>3. Said(<< Mine(U, P) >>) = << >>
    BY <2>2, WithoutOne DEF Said
  <2>4. rest = b
    BY <1>5, <1>6, <2>3, ConcatEmptySeq
  <2>5. Rests(b)'
    BY <1>1, <1>3, <1>5, <1>6, <2>1, <2>4 DEF Rests, mine, U
  <2> QED
    BY <2>5
<1>10. ASSUME NEW c, Write(c) PROVE \E x : Rests(x)'
  <2>1. /\ c \in P /\ c # Skip /\ todo' = Tail(todo) /\ sent' = Append(sent, c)
        /\ UNCHANGED << request, outcome >>
    BY <1>10 DEF Write, Place, P
  <2>2. Without(sent', U) = mine \o Without(<< c >>, U)
    <3>1. sent \in Seq(S \cup {c}) /\ << c >> \in Seq(S \cup {c})
      BY <1>7, SeqMonotonic
    <3>2. sent' = sent \o << c >>
      <4>1. c \in S \cup {c}
        OBVIOUS
      <4> QED
        BY <2>1, <3>1, <4>1, AppendIsConcat
    <3> DEFINE new == << c >>
    <3>3. sent \in Seq(S \cup {c}) /\ new \in Seq(S \cup {c}) /\ sent' = sent \o new
      BY <3>1, <3>2
    <3> HIDE DEF new
    <3>4. Without(sent \o new, U)
            = Without(sent, U) \o Without(new, U)
      BY <3>3, WithoutJoined
    <3> QED
      BY <3>3, <3>4, Zenon DEF mine, new
  <2>3. Mine(U, P) = IF Ours(U, c) THEN c ELSE Skip
    BY <1>4, <2>1, MineSaid
  <2>4. Said(<< Mine(U, P) >>) = Without(<< c >>, U)
    <3>1. CASE Ours(U, c)
      <4>1. c \notin {Skip} /\ c \notin U /\ Mine(U, P) = c
        BY <2>3, <3>1 DEF Ours
      <4>2. Without(<< c >>, {Skip}) = << c >> /\ Without(<< c >>, U) = << c >>
        BY <4>1, WithoutOne
      <4> QED
        BY <4>1, <4>2 DEF Said
    <3>2. CASE ~ Ours(U, c)
      <4>1. c \in U /\ Mine(U, P) = Skip
        BY <2>1, <2>3, <3>2 DEF Ours
      <4>2. Without(<< Skip >>, {Skip}) = << >> /\ Without(<< c >>, U) = << >>
        BY <4>1, WithoutOne
      <4> QED
        BY <4>1, <4>2 DEF Said
    <3> QED
      BY <3>1, <3>2
  <2> DEFINE one == Without(<< c >>, U)
  <2>5. one \in Seq({c})
    <3> DEFINE new == << c >>
    <3>1. new \in Seq({c})
      OBVIOUS
    <3> HIDE DEF new
    <3>2. Without(new, U) \in Seq({c})
      BY <3>1, WithoutSeq
    <3> QED
      BY <3>2 DEF new
  <2> HIDE DEF one
  <2>6. mine \o (one \o b) = (mine \o one) \o b
    <3>1. mine \in Seq(S \cup {c} \cup B)
      BY <1>8, SeqMonotonic
    <3>2. one \in Seq(S \cup {c} \cup B)
      BY <2>5, SeqMonotonic
    <3>3. b \in Seq(S \cup {c} \cup B)
      BY <1>6, SeqMonotonic
    <3> QED
      BY <3>1, <3>2, <3>3, ConcatAssociative
  <2>7. rest = one \o b
    BY <1>5, <2>4 DEF one
  <2>8. Asked(request) = (mine \o one) \o b
    BY <1>3, <2>6, <2>7
  <2>9. Without(sent', U) = mine \o one
    BY <2>2 DEF one
  <2>10. Rests(b)'
    <3>1. Asked(request)' = Without(sent', U) \o b
      BY <2>1, <2>8, <2>9
    <3> QED
      BY <1>1, <1>5, <1>6, <2>1, <3>1 DEF Rests, U
  <2> QED
    BY <2>10
<1>11. ASSUME NEW c, WriteFails(c) PROVE \E x : Rests(x)'
  <2>1. outcome' = "failed" /\ UNCHANGED << request, sent >>
    BY <1>11 DEF WriteFails
  <2>2. Rests(rest)'
    BY <1>2, <2>1 DEF Rests
  <2> QED
    BY <2>2
<1> QED
  BY <1>9, <1>10, <1>11 DEF Commands

LEMMA OrderReturns ==
  ASSUME OrderInv, Return
  PROVE  OrderInv'
<1>1. outcome = "writing" /\ todo = << >> /\ outcome' = "done" /\ UNCHANGED << request, todo, sent >>
  BY DEF Return
<1> SUFFICES ASSUME request # None, OfMany(request) PROVE \E rest : Rests(rest)'
  BY <1>1 DEF OrderInv
<1>2. PICK rest : Rests(rest)
  BY DEF OrderInv
<1> DEFINE U == Unasked(request)
<1>3. Calls(U, << >>, rest)
  BY <1>1, <1>2 DEF Rests
<1>4. rest = << >>
  <2>1. \A x, y : (Calls(U, << >>, x) /\ Calls(U, << >>, y)) => x = y
    BY Zenon DEF Calls
  <2> QED
    BY <1>3, <2>1, CallsNone
<1>5. Rests(rest)'
  BY <1>1, <1>2, <1>4 DEF Rests
<1> QED
  BY <1>5

LEMMA OrderStops ==
  ASSUME OrderInv, UNCHANGED << request, sent >>, outcome' # "done" \/ outcome' = outcome,
         outcome' = "writing" => outcome = "writing" /\ todo' = todo
  PROVE  OrderInv'
<1> SUFFICES ASSUME request # None, OfMany(request) PROVE \E rest : Rests(rest)'
  BY DEF OrderInv
<1>1. PICK rest : Rests(rest)
  BY DEF OrderInv
<1>2. Rests(rest)'
  BY <1>1 DEF Rests
<1> QED
  BY <1>2

LEMMA OrderStepInv == CommandInv /\ OrderInv /\ [SystemNext]_SystemVars => OrderInv'
<1> SUFFICES ASSUME CommandInv, OrderInv, [SystemNext]_SystemVars PROVE OrderInv'
  OBVIOUS
<1>1. CASE UNCHANGED vars
  <2>1. UNCHANGED << request, sent, outcome, todo >>
    BY <1>1 DEF vars
  <2> QED
    BY <2>1, OrderStops
<1>2. ASSUME NEW r \in Requests, Serve(r) PROVE OrderInv'
  BY <1>2, OrderBegins DEF Serve
<1>3. CASE Commands
  BY <1>3, OrderGoesOn
<1>4. CASE DecoderDies \/ DecoderStarts
  <2>1. UNCHANGED << request, sent, outcome, todo >>
    BY <1>4 DEF DecoderDies, DecoderStarts
  <2> QED
    BY <2>1, OrderStops
<1>5. CASE Return
  BY <1>5, OrderReturns
<1>6. CASE DaemonStops
  <2>1. /\ UNCHANGED << request, sent >>
        /\ outcome' = IF outcome = "writing" THEN "failed" ELSE outcome
    BY <1>6 DEF DaemonStops
  <2>2. outcome' # "writing" /\ (outcome' # "done" \/ outcome' = outcome)
    BY <2>1
  <2> QED
    BY <2>1, <2>2, OrderStops
<1> QED
  BY <1>1, <1>2, <1>3, <1>4, <1>5, <1>6
  DEF SystemNext, SystemVars, Finish, ReadPassword

LEMMA OrderMeansAsked == CommandInv /\ OrderInv => AskedInOrder
<1> SUFFICES ASSUME CommandInv, OrderInv, request # None, OfMany(request)
             PROVE  LET mine == Without(sent, Unasked(request)) IN
                    /\ IsPrefix(mine, Asked(request))
                    /\ outcome = "done" => mine = Asked(request)
  BY DEF AskedInOrder
<1> DEFINE mine == Without(sent, Unasked(request))
           asked == Asked(request)
<1>1. PICK rest : Rests(rest)
  BY DEF OrderInv
<1>2. PICK C : rest \in Seq(C)
  BY <1>1 DEF Rests
<1>3. PICK S : sent \in Seq(S)
  BY DEF CommandInv
<1>4. mine \in Seq(S)
  BY <1>3, WithoutSeq
<1>5. asked = mine \o rest /\ (outcome = "done" => rest = << >>)
  BY <1>1 DEF Rests
<1> HIDE DEF mine, asked
<1>6. mine \in Seq(S \cup C) /\ rest \in Seq(S \cup C)
  BY <1>2, <1>4, SeqMonotonic
<1>7. /\ asked \in Seq(S \cup C) /\ Len(asked) = Len(mine) + Len(rest)
      /\ \A i \in 1 .. Len(mine) + Len(rest) : asked[i] = IF i <= Len(mine) THEN mine[i] ELSE rest[i - Len(mine)]
  BY <1>5, <1>6, ConcatProperties
<1>8. Len(mine) \in Nat /\ Len(rest) \in Nat
  BY <1>6, LenProperties
<1>9. SubSeq(mine, 1, Len(mine)) = SubSeq(asked, 1, Len(mine))
  BY <1>6, <1>7, <1>8
<1>10. IsPrefix(mine, asked)
  BY <1>7, <1>8, <1>9 DEF IsPrefix
<1>11. ASSUME outcome = "done" PROVE mine = asked
  <2>1. asked = mine \o << >>
    BY <1>5, <1>11
  <2> QED
    BY <1>6, <2>1, ConcatEmptySeq
<1> QED
  BY <1>10, <1>11 DEF mine, asked

(* Of a request of several commands, what the decoder is sent is what was  *)
(* asked for, in order, up to the first write that fails, but for commands *)
(* about the places the query has no value for: for every query and tail,  *)
(* whatever the arrays nobody writes hold and whenever the decoder or the  *)
(* daemon stops (pro_config, satset, channelset, antnset, ioset).          *)
THEOREM CommandsAreSentInOrder == SystemSpec => []AskedInOrder
<1>1. SystemInit => OrderInv
  BY DEF SystemInit, Init, OrderInv
<1> QED
  BY <1>1, CommandInitInv, CommandStepInv, OrderStepInv, OrderMeansAsked, PTL DEF SystemSpec

==============================================================================
