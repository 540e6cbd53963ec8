--------------------------- MODULE EventLoopProofs ----------------------------
(***************************************************************************)
(* Theorems about EventLoop, for every number of connections and every     *)
(* capacity of the FIFOs.                                                  *)
(*                                                                         *)
(* The daemon and a decoder that does one thing at a time never wait on    *)
(* each other if the report FIFO has room for a frame and the command FIFO *)
(* has room for what the daemon can write from the moment the decoder has  *)
(* taken all commands and begun a frame that does not fit, until deal_pro  *)
(* has read a whole frame: the rest of a page, or of the start-up, and one *)
(* page more, because a round of the loop runs web_accept only once.  The  *)
(* decoder must not die in the middle of a frame, and no message may hold  *)
(* what looks like a synchronisation code: else deal_pro may take one      *)
(* frame for many, or for none.                                            *)
(***************************************************************************)
EXTENDS EventLoop, SequenceTheorems, TLAPS

Most == IF NSTART >= MAXCMDS THEN NSTART ELSE MAXCMDS

EnoughRoom == REPCAP >= PIECES /\ CMDCAP >= Most + MAXCMDS

(* Where the counters of the daemon and of the decoder are in use. *)
Shape ==
  /\ pc \in {"open_cmd", "open_rep"} => cmds = 0
  /\ pc = "subscribe" => cmds + todo <= NSTART
  /\ pc = "write" => todo <= MAXCMDS /\ "web" \in batch
  /\ pc \notin {"subscribe", "write"} => todo = 0
  /\ pc = "read" => "rep" \in batch
  /\ (pc \in {"dispatch", "read"} /\ "web" \in batch) => backlog # << >>
  /\ pc # "read" => reads = 0 /\ phase = "search"
  /\ pc \notin {"dispatch", "write", "read"} => batch = {}
  /\ left > 0 => decoder = "up"

(* The pieces in the FIFO follow one another, up to the one the decoder    *)
(* writes next.                                                            *)
Succ(k) == IF k = PIECES THEN 1 ELSE k + 1
Due     == IF left = 0 THEN 1 ELSE PIECES - left + 1

Numbered ==
  /\ \A i \in 1 .. Len(rep) - 1 : rep[i + 1] = Succ(rep[i])
  /\ rep # << >> => Due = Succ(rep[Len(rep)])

(* The frame the decoder is writing does not fit. *)
Tight == left > 0 /\ Len(rep) + left > REPCAP

(* A call that reads a frame has read as much as lies before the piece it  *)
(* reads next, and one that has lost step did so at an end of the FIFO.    *)
Front == IF rep = << >> THEN Due ELSE rep[1]

InStep ==
  /\ (pc = "read" /\ phase = "frame") => Front # 1 /\ Front <= reads + 1
  /\ (pc = "read" /\ phase = "astray" /\ Tight) => cmds = 0

(* How many commands there can be when a frame is tight: none is written   *)
(* between two reads of deal_pro, and a call of deal_pro that found the    *)
(* frame tight ends that.                                                  *)
Budget ==
  Tight =>
    /\ pc = "poll" => cmds <= Most
    /\ pc = "dispatch" =>
         IF "rep" \in batch
           THEN cmds <= Most + MAXCMDS /\ ("web" \in batch => cmds <= Most)
           ELSE cmds = 0
    /\ pc = "write" => cmds + todo <= MAXCMDS + IF "rep" \in batch THEN Most ELSE 0
    /\ pc = "read" =>
         \/ cmds = 0
         \/ Len(rep) + left + reads <= REPCAP + PIECES /\ cmds <= Most + MAXCMDS

IInv == TypeOK /\ Shape /\ Numbered /\ InStep /\ Budget

-----------------------------------------------------------------------------
LEMMA InitIInv == Init => IInv
<1> SUFFICES ASSUME Init PROVE IInv
  OBVIOUS
<1> USE LoopAssumption DEF Init
<1>1. TypeOK
  <2>1. backlog \in Seq(Clients) /\ rep \in Seq(1..PIECES) /\ Len(rep) <= REPCAP
    OBVIOUS
  <2> QED
    BY <2>1 DEF TypeOK, Startup
<1>2. Shape
  BY DEF Shape
<1>3. Numbered
  BY DEF Numbered
<1>4. InStep /\ Budget
  BY DEF InStep, Budget, Tight
<1> QED
  BY <1>1, <1>2, <1>3, <1>4 DEF IInv

(* What a callback's return leaves to be run. *)
LEMMA BatchAfter ==
  ASSUME NEW event, batch \subseteq {"web", "rep"}, Returns(event)
  PROVE  /\ batch' \subseteq {"web", "rep"} /\ batch' \subseteq batch /\ event \notin batch'
         /\ pc' \in {"poll", "dispatch"} /\ (pc' = "poll" => batch' = {})
         /\ batch' = batch \ {event}
BY DEF Returns

(* A read takes one piece, and the call ends or goes on. *)
LEMMA ReadTakes ==
  ASSUME Read
  PROVE  /\ pc = "read" /\ rep # << >> /\ rep' = Tail(rep)
         /\ UNCHANGED << serving, todo, backlog, cmds, decoder, left, crashes >>
         /\ \E as \in Taken(Head(rep)) :
              \/ /\ Ends(as) \/ reads + 1 >= MAXREADS
                 /\ Returns("rep") /\ reads' = 0 /\ phase' = "search"
              \/ /\ reads + 1 < MAXREADS /\ reads' = reads + 1
                 /\ phase' \in GoesOnAs(as)
                 /\ UNCHANGED << pc, batch >>
BY DEF Read, ReadUpTo

LEMMA TypeStep ==
  ASSUME TypeOK, Shape, [Next]_vars
  PROVE  TypeOK'
<1> USE LoopAssumption DEF TypeOK, Startup, Running, Ended
<1>1. CASE OpenFails
  <2>1. CASE Goes("open_cmd", "no_fifo", 0)
    BY <2>1 DEF Goes
  <2>2. CASE Goes("open_rep", "no_fifo", 0)
    BY <2>2 DEF Goes
  <2> QED
    BY <1>1, <2>1, <2>2 DEF OpenFails
<1>2. CASE OpenCmd
  BY <1>2 DEF OpenCmd, Goes
<1>3. CASE OpenRep
  BY <1>3 DEF OpenRep, Goes
<1>4. CASE Subscribe
  BY <1>4 DEF Subscribe, WriteCmd
<1>5. CASE SubscribeFails
  BY <1>5 DEF SubscribeFails, Goes
<1>6. CASE Dispatch
  BY <1>6 DEF Dispatch, Goes
<1>7. CASE Poll
  BY <1>7 DEF Poll, Round, Ready
<1>8. CASE web_accept
  <2>1. backlog \in Seq(Clients) /\ backlog # << >>
    BY <1>8 DEF web_accept, Shape
  <2>2. Tail(backlog) \in Seq(Clients) /\ Head(backlog) \in Clients
    BY <2>1
  <2>3. CASE serving' = Head(backlog) /\ todo' \in 0..MAXCMDS /\ pc' = "write" /\ UNCHANGED batch
    BY <1>8, <2>2, <2>3 DEF web_accept
  <2>4. CASE Returns("web") /\ UNCHANGED << serving, todo >>
    BY <1>8, <2>2, <2>4, BatchAfter DEF web_accept
  <2> QED
    BY <1>8, <2>3, <2>4 DEF web_accept
<1>9. CASE sendcmd
  BY <1>9 DEF sendcmd, WriteCmd
<1>10. CASE sendcmd_fails
  BY <1>10 DEF sendcmd_fails
<1>11. CASE Finish
  BY <1>11, BatchAfter DEF Finish
<1>12. CASE deal_pro
  BY <1>12 DEF deal_pro
<1>13. CASE Read
  <2>1. rep' = Tail(rep) /\ rep # << >>
        /\ UNCHANGED << serving, todo, backlog, cmds, decoder, left, crashes >>
    BY <1>13, ReadTakes
  <2>2. rep' \in Seq(1..PIECES) /\ Len(rep') = Len(rep) - 1
    BY <2>1
  <2>3. Len(rep') <= REPCAP
    BY <2>2
  <2>4. CASE Returns("rep") /\ reads' = 0 /\ phase' = "search"
    BY <2>1, <2>2, <2>3, <2>4, BatchAfter
  <2>5. ASSUME NEW as \in Taken(Head(rep)),
               reads + 1 < MAXREADS, reads' = reads + 1, phase' \in GoesOnAs(as),
               UNCHANGED << pc, batch >>
        PROVE  TypeOK'
    <3>1. phase' \in {"search", "frame", "astray"}
      BY <2>5 DEF Taken, GoesOnAs
    <3> QED
      BY <2>1, <2>2, <2>3, <2>5, <3>1
  <2> QED
    BY <1>13, <2>4, <2>5, ReadTakes
<1>14. CASE ReadHungUp
  BY <1>14, BatchAfter DEF ReadHungUp
<1>15. ASSUME NEW c \in Clients, Connect(c)
       PROVE  TypeOK'
  <2>1. backlog' = Append(backlog, c)
        /\ UNCHANGED << pc, batch, serving, todo, reads, phase, cmds, rep, decoder, left, crashes >>
    BY <1>15 DEF Connect, daemon
  <2>2. backlog' \in Seq(Clients)
    BY <2>1
  <2> QED
    BY <2>1, <2>2
<1>16. CASE DecoderOpens
  BY <1>16 DEF DecoderOpens, daemon
<1>17. CASE DecoderStarts
  BY <1>17 DEF DecoderStarts, daemon
<1>18. CASE TakeCommand
  BY <1>18 DEF TakeCommand, daemon
<1>19. CASE BeginFrame
  BY <1>19 DEF BeginFrame, daemon
<1>20. CASE WritePiece
  <2>1. rep' = Append(rep, PIECES - left + 1) /\ left' = left - 1 /\ left > 0
        /\ Len(rep) < REPCAP
        /\ UNCHANGED << pc, batch, serving, todo, reads, phase, backlog, cmds, decoder, crashes >>
    BY <1>20 DEF WritePiece, daemon
  <2>2. PIECES - left + 1 \in 1..PIECES
    BY <2>1
  <2>3. rep' \in Seq(1..PIECES) /\ Len(rep') = Len(rep) + 1
    BY <2>1, <2>2
  <2> QED
    BY <2>1, <2>3
<1>21. CASE DecoderDies
  BY <1>21 DEF DecoderDies, daemon
<1>22. CASE UNCHANGED vars
  BY <1>22 DEF vars, daemon
<1> QED
  BY <1>1, <1>2, <1>3, <1>4, <1>5, <1>6, <1>7, <1>8, <1>9, <1>10, <1>11, <1>12, <1>13,
     <1>14, <1>15, <1>16, <1>17, <1>18, <1>19, <1>20, <1>21, <1>22
  DEF Next, Daemon, Environment, Over

LEMMA ShapeStep ==
  ASSUME TypeOK, Shape, [Next]_vars
  PROVE  Shape'
<1>0. /\ batch \subseteq {"web", "rep"} /\ todo \in Nat /\ cmds \in Nat /\ left \in Nat
      /\ MAXCMDS \in Nat /\ NSTART \in Nat
  BY LoopAssumption DEF TypeOK
<1> USE <1>0 DEF Shape
<1>1. CASE OpenFails
  <2>1. CASE Goes("open_cmd", "no_fifo", 0)
    BY <2>1 DEF Goes
  <2>2. CASE Goes("open_rep", "no_fifo", 0)
    BY <2>2 DEF Goes
  <2> QED
    BY <1>1, <2>1, <2>2 DEF OpenFails
<1>2. CASE OpenCmd
  BY <1>2 DEF OpenCmd, Goes
<1>3. CASE OpenRep
  BY <1>3 DEF OpenRep, Goes
<1>4. CASE Subscribe
  BY <1>4 DEF Subscribe, WriteCmd
<1>5. CASE SubscribeFails
  BY <1>5 DEF SubscribeFails, Goes
<1>6. CASE Dispatch
  BY <1>6 DEF Dispatch, Goes
<1>7. CASE Poll
  <2>1. "web" \in batch' => backlog # << >>
    BY <1>7 DEF Poll, Round, Ready
  <2> QED
    BY <1>7, <2>1 DEF Poll, Round
<1>8. CASE web_accept
  <2>1. CASE serving' = Head(backlog) /\ todo' \in 0..MAXCMDS /\ pc' = "write" /\ UNCHANGED batch
    BY <1>8, <2>1 DEF web_accept
  <2>2. CASE Returns("web") /\ UNCHANGED << serving, todo >>
    BY <1>8, <2>2, BatchAfter DEF web_accept
  <2> QED
    BY <1>8, <2>1, <2>2 DEF web_accept
<1>9. CASE sendcmd
  BY <1>9 DEF sendcmd, WriteCmd
<1>10. CASE sendcmd_fails
  BY <1>10 DEF sendcmd_fails
<1>11. CASE Finish
  BY <1>11, BatchAfter DEF Finish
<1>12. CASE deal_pro
  BY <1>12 DEF deal_pro
<1>13. CASE Read
  <2>1. CASE Returns("rep") /\ reads' = 0 /\ phase' = "search"
    BY <1>13, <2>1, BatchAfter, ReadTakes
  <2>2. CASE UNCHANGED << pc, batch >>
    BY <1>13, <2>2, ReadTakes
  <2> QED
    BY <1>13, <2>1, <2>2, ReadTakes
<1>14. CASE ReadHungUp
  BY <1>14, BatchAfter DEF ReadHungUp
<1>15. ASSUME NEW c \in Clients, Connect(c)
       PROVE  Shape'
  <2>1. backlog' # << >>
    <3>1. backlog \in Seq(Clients) /\ backlog' = Append(backlog, c)
      BY <1>15 DEF Connect, TypeOK
    <3> QED
      BY <3>1
  <2> QED
    BY <1>15, <2>1 DEF Connect, daemon
<1>16. CASE DecoderOpens
  BY <1>16 DEF DecoderOpens, daemon
<1>17. CASE DecoderStarts
  BY <1>17 DEF DecoderStarts, daemon
<1>18. CASE TakeCommand
  BY <1>18 DEF TakeCommand, daemon
<1>19. CASE BeginFrame
  BY <1>19 DEF BeginFrame, daemon
<1>20. CASE WritePiece
  BY <1>20 DEF WritePiece, daemon
<1>21. CASE DecoderDies
  BY <1>21 DEF DecoderDies, daemon
<1>22. CASE UNCHANGED vars
  BY <1>22 DEF vars, daemon
<1> QED
  BY <1>1, <1>2, <1>3, <1>4, <1>5, <1>6, <1>7, <1>8, <1>9, <1>10, <1>11, <1>12, <1>13,
     <1>14, <1>15, <1>16, <1>17, <1>18, <1>19, <1>20, <1>21, <1>22
  DEF Next, Daemon, Environment, Over

(* What the FIFO holds after a piece is written to it, or read from it. *)
LEMMA PieceWritten ==
  ASSUME TypeOK, WritePiece
  PROVE  /\ Due = PIECES - left + 1 /\ Due \in 1..PIECES /\ Due' = Succ(Due)
         /\ Len(rep') = Len(rep) + 1 /\ rep' # << >> /\ rep'[Len(rep) + 1] = Due
         /\ \A i \in 1..Len(rep) : rep'[i] = rep[i]
         /\ left' = left - 1 /\ left > 0
         /\ UNCHANGED << pc, batch, todo, reads, phase, cmds >>
<1>0. PIECES \in Nat \ {0} /\ left \in 0..PIECES /\ rep \in Seq(1..PIECES)
  BY LoopAssumption DEF TypeOK
<1>1. /\ rep' = Append(rep, PIECES - left + 1) /\ left' = left - 1 /\ left > 0
      /\ UNCHANGED << pc, batch, todo, reads, phase, cmds >>
  BY DEF WritePiece, daemon
<1>2. Due = PIECES - left + 1 /\ Due \in 1..PIECES
  BY <1>0, <1>1 DEF Due
<1>3. /\ Len(rep') = Len(rep) + 1 /\ rep' # << >> /\ rep'[Len(rep) + 1] = Due
      /\ \A i \in 1..Len(rep) : rep'[i] = rep[i]
  BY <1>0, <1>1, <1>2
<1>4. Due' = Succ(Due)
  BY <1>0, <1>1, <1>2 DEF Due, Succ
<1> QED
  BY <1>1, <1>2, <1>3, <1>4

LEMMA PieceRead ==
  ASSUME TypeOK, rep # << >>, rep' = Tail(rep), UNCHANGED left
  PROVE  /\ Len(rep) >= 1 /\ Head(rep) = rep[1] /\ rep[1] \in 1..PIECES
         /\ Len(rep') = Len(rep) - 1 /\ (Len(rep) = 1 <=> rep' = << >>)
         /\ \A i \in 1 .. Len(rep) - 1 : rep'[i] = rep[i + 1]
         /\ Due' = Due
<1>0. rep \in Seq(1..PIECES) /\ Len(rep) \in Nat
  BY DEF TypeOK
<1>1. Len(rep) >= 1 /\ Head(rep) = rep[1] /\ rep[1] \in 1..PIECES
  <2>1. Len(rep) # 0
    BY <1>0, EmptySeq
  <2>2. Len(rep) >= 1 /\ 1 \in 1..Len(rep)
    BY <1>0, <2>1
  <2>3. rep[1] \in 1..PIECES
    BY <1>0, <2>2, ElementOfSeq
  <2>4. Head(rep) = rep[1]
    BY <1>0, HeadTailProperties
  <2> QED
    BY <2>2, <2>3, <2>4
<1>2. /\ Len(rep') = Len(rep) - 1
      /\ \A i \in 1 .. Len(rep) - 1 : rep'[i] = rep[i + 1]
  BY <1>0
<1>3. Len(rep) = 1 <=> rep' = << >>
  <2>1. rep' \in Seq(1..PIECES)
    BY <1>0
  <2>2. Len(rep') = 0 <=> rep' = << >>
    BY <2>1, EmptySeq
  <2> QED
    BY <1>0, <1>2, <2>2
<1> QED
  BY <1>1, <1>2, <1>3 DEF Due

(* The pieces stay in order; a frame is not cut off. *)
LEMMA NumberedStep ==
  ASSUME ~ TORN, TypeOK, Numbered, [Next]_vars
  PROVE  Numbered'
<1>0. /\ PIECES \in Nat \ {0} /\ left \in 0..PIECES
      /\ rep \in Seq(1..PIECES) /\ Len(rep) \in Nat
  BY LoopAssumption DEF TypeOK
<1>1. CASE UNCHANGED << rep, left >>
  BY <1>1 DEF Numbered, Due, Succ
<1>2. CASE BeginFrame
  <2>1. left = 0 /\ left' = PIECES /\ UNCHANGED rep
    BY <1>2 DEF BeginFrame
  <2>2. Due = 1 /\ Due' = 1
    BY <1>0, <2>1 DEF Due
  <2> QED
    BY <2>1, <2>2 DEF Numbered, Succ
<1>3. CASE DecoderDies
  <2>1. left \in {0, PIECES} /\ left' = 0 /\ UNCHANGED rep
    BY <1>3 DEF DecoderDies
  <2>2. Due = 1 /\ Due' = 1
    BY <1>0, <2>1 DEF Due
  <2> QED
    BY <2>1, <2>2 DEF Numbered, Succ
<1>4. CASE WritePiece
  <2>1. /\ Due' = Succ(Due) /\ Len(rep') = Len(rep) + 1 /\ rep'[Len(rep) + 1] = Due
        /\ \A i \in 1..Len(rep) : rep'[i] = rep[i]
    BY <1>4, PieceWritten
  <2>2. Due' = Succ(rep'[Len(rep')])
    BY <1>0, <2>1
  <2>3. ASSUME NEW i \in 1 .. Len(rep') - 1
        PROVE  rep'[i + 1] = Succ(rep'[i])
    <3>1. CASE i = Len(rep)
      <4>1. rep # << >>
        BY <1>0, <3>1
      <4> QED
        BY <1>0, <2>1, <3>1, <4>1 DEF Numbered
    <3>2. CASE i # Len(rep)
      <4>1. i \in 1 .. Len(rep) - 1 /\ i + 1 \in 1..Len(rep)
        BY <1>0, <2>1, <3>2
      <4> QED
        BY <2>1, <4>1 DEF Numbered
    <3> QED
      BY <3>1, <3>2
  <2> QED
    BY <2>2, <2>3 DEF Numbered, Succ
<1>5. CASE Read
  <2>1. rep # << >> /\ rep' = Tail(rep) /\ UNCHANGED left
    BY <1>5, ReadTakes
  <2>2. /\ Len(rep) >= 1 /\ Len(rep') = Len(rep) - 1 /\ (Len(rep) = 1 <=> rep' = << >>)
        /\ \A i \in 1 .. Len(rep) - 1 : rep'[i] = rep[i + 1]
        /\ Due' = Due
    BY <2>1, PieceRead
  <2>3. ASSUME NEW i \in 1 .. Len(rep') - 1
        PROVE  rep'[i + 1] = Succ(rep'[i])
    <3>1. i \in 1 .. Len(rep) - 1 /\ i + 1 \in 1 .. Len(rep) - 1
      BY <1>0, <2>2
    <3> QED
      BY <2>2, <3>1 DEF Numbered
  <2>4. ASSUME rep' # << >>
        PROVE  Due' = Succ(rep'[Len(rep')])
    <3>1. Len(rep) - 1 \in 1 .. Len(rep) - 1
      <4> DEFINE n == Len(rep)
      <4>1. n \in Nat /\ n >= 1 /\ n # 1
        BY <1>0, <2>2, <2>4
      <4> HIDE DEF n
      <4>2. n - 1 \in 1 .. n - 1
        BY <4>1
      <4> QED
        BY <4>2 DEF n
    <3>2. rep'[Len(rep')] = rep[Len(rep) - 1 + 1]
      BY <2>2, <3>1
    <3>3. rep'[Len(rep')] = rep[Len(rep)]
      BY <1>0, <3>2
    <3> QED
      BY <2>1, <2>2, <3>3 DEF Numbered
  <2> QED
    BY <2>3, <2>4 DEF Numbered, Succ
<1>6. CASE OpenFails
  BY <1>1, <1>6 DEF OpenFails, Goes
<1>7. CASE web_accept
  BY <1>1, <1>7 DEF web_accept
<1>8. ASSUME NEW c \in Clients, Connect(c)
      PROVE  Numbered'
  BY <1>1, <1>8 DEF Connect
<1> QED
  BY <1>1, <1>2, <1>3, <1>4, <1>5, <1>6, <1>7, <1>8
  DEF Next, Daemon, Environment, Over, vars, daemon, OpenCmd, OpenRep, Goes, Subscribe,
      SubscribeFails, WriteCmd, Dispatch, Poll, Round, sendcmd, sendcmd_fails, Finish,
      deal_pro, ReadHungUp, DecoderOpens, DecoderStarts, TakeCommand

(* What is read next follows what is read now. *)
LEMMA FrontMoves ==
  ASSUME TypeOK, Numbered, Read
  PROVE  Front = Head(rep) /\ Front \in 1..PIECES /\ Front' = Succ(Front)
<1>0. rep \in Seq(1..PIECES) /\ Len(rep) \in Nat
  BY DEF TypeOK
<1>1. rep # << >> /\ rep' = Tail(rep) /\ UNCHANGED left
  BY ReadTakes
<1>2. /\ Len(rep) >= 1 /\ Head(rep) = rep[1] /\ rep[1] \in 1..PIECES
      /\ (Len(rep) = 1 <=> rep' = << >>)
      /\ \A i \in 1 .. Len(rep) - 1 : rep'[i] = rep[i + 1]
      /\ Due' = Due
  BY <1>1, PieceRead
<1>3. CASE Len(rep) = 1
  <2>1. rep' = << >> /\ Due = Succ(rep[1])
    BY <1>1, <1>2, <1>3 DEF Numbered
  <2> QED
    BY <1>1, <1>2, <2>1 DEF Front
<1>4. CASE Len(rep) # 1
  <2>1. rep' # << >> /\ 1 \in 1 .. Len(rep) - 1
    <3> DEFINE n == Len(rep)
    <3>1. n \in Nat /\ n >= 1 /\ n # 1
      BY <1>0, <1>2, <1>4
    <3> HIDE DEF n
    <3>2. 1 \in 1 .. n - 1
      BY <3>1
    <3> QED
      BY <1>2, <1>4, <3>2 DEF n
  <2>2. rep'[1] = rep[1 + 1] /\ rep[1 + 1] = Succ(rep[1])
    BY <1>2, <2>1 DEF Numbered
  <2> QED
    BY <1>1, <1>2, <2>1, <2>2 DEF Front
<1> QED
  BY <1>3, <1>4

(* As long as no message holds a code, a read takes a piece for what it is. *)
LEMMA TakenInStep ==
  ASSUME ~ CODES, TypeOK, Numbered, InStep, Read, NEW as \in Taken(Head(rep))
  PROVE  /\ as = "frame" => Front <= reads + 1
         /\ as = "astray" => phase = "astray"
<1>1. Front = Head(rep) /\ Front \in 1..PIECES /\ pc = "read"
  BY FrontMoves, ReadTakes
<1>2. PIECES \in Nat /\ reads \in Nat /\ phase \in {"search", "frame", "astray"}
  BY LoopAssumption DEF TypeOK
<1>3. CASE phase = "frame"
  BY <1>1, <1>2, <1>3 DEF InStep, Taken
<1>4. CASE phase = "search"
  <2>1. CASE Head(rep) = 1
    BY <1>1, <1>2, <1>4, <2>1 DEF Taken
  <2>2. CASE Head(rep) # 1
    <3>1. as \in {"search"} \cup {}
      BY <1>4, <2>2 DEF Taken
    <3> QED
      BY <3>1
  <2> QED
    BY <2>1, <2>2
<1>5. CASE phase = "astray"
  BY <1>5 DEF Taken
<1> QED
  BY <1>2, <1>3, <1>4, <1>5

(* deal_pro stays in step with a decoder that is not torn from a frame. *)
LEMMA InStepStep ==
  ASSUME ~ TORN, ~ CODES, ~ CONCURRENT, EnoughRoom, TypeOK, Shape, Numbered, InStep, [Next]_vars
  PROVE  InStep'
<1>0. /\ PIECES \in Nat \ {0} /\ REPCAP \in Nat /\ REPCAP >= PIECES
      /\ left \in 0..PIECES /\ reads \in Nat
      /\ rep \in Seq(1..PIECES) /\ Len(rep) \in Nat
  BY LoopAssumption DEF TypeOK, EnoughRoom
<1>1. CASE UNCHANGED << pc, reads, phase, cmds, rep, left >>
  BY <1>1 DEF InStep, Front, Due, Tight
<1>2. CASE pc' # "read" \/ phase' = "search"
  BY <1>2 DEF InStep
<1>3. CASE BeginFrame
  <2>1. left = 0 /\ left' = PIECES /\ cmds = 0 /\ UNCHANGED << pc, reads, phase, cmds, rep >>
    BY <1>3 DEF BeginFrame, daemon
  <2>2. Due = 1 /\ Due' = 1
    BY <1>0, <2>1 DEF Due
  <2>3. Front' = Front
    BY <2>1, <2>2 DEF Front
  <2> QED
    BY <2>1, <2>3 DEF InStep
<1>4. CASE DecoderDies
  <2>1. left \in {0, PIECES} /\ left' = 0 /\ UNCHANGED << pc, reads, phase, cmds, rep >>
    BY <1>4 DEF DecoderDies, daemon
  <2>2. Due = 1 /\ Due' = 1
    BY <1>0, <2>1 DEF Due
  <2>3. Front' = Front /\ ~ Tight'
    BY <1>0, <2>1, <2>2 DEF Front, Tight
  <2> QED
    BY <2>1, <2>3 DEF InStep
<1>5. CASE WritePiece
  <2>1. /\ Due \in 1..PIECES /\ Len(rep') = Len(rep) + 1 /\ rep' # << >>
        /\ rep'[Len(rep) + 1] = Due /\ \A i \in 1..Len(rep) : rep'[i] = rep[i]
        /\ left' = left - 1 /\ left > 0
        /\ UNCHANGED << pc, reads, phase, cmds >>
    BY <1>5, PieceWritten
  <2>2. Tight' => Tight
    BY <1>0, <2>1 DEF Tight
  <2>3. CASE rep = << >>
    <3>1. rep'[1] = Due
      BY <2>1, <2>3
    <3> QED
      BY <2>1, <2>2, <2>3, <3>1 DEF InStep, Front
  <2>4. CASE rep # << >>
    <3>1. rep'[1] = rep[1]
      BY <1>0, <2>1, <2>4
    <3> QED
      BY <2>1, <2>2, <2>4, <3>1 DEF InStep, Front
  <2> QED
    BY <2>3, <2>4
<1>6. CASE Read
  <2>1. pc = "read" /\ rep # << >> /\ rep' = Tail(rep) /\ UNCHANGED << cmds, left >>
    BY <1>6, ReadTakes
  <2>2. Front = Head(rep) /\ Front \in 1..PIECES /\ Front' = Succ(Front)
    BY <1>6, FrontMoves
  <2>3. Len(rep') = Len(rep) - 1 /\ (Len(rep) = 1 <=> rep' = << >>) /\ Len(rep) >= 1
    BY <2>1, PieceRead
  <2>4. Tight' => Tight
    BY <1>0, <2>1, <2>3 DEF Tight
  <2>5. rep' = << >> => ~ Tight'
    BY <1>0, <2>1, <2>3 DEF Tight
  <2>6. ASSUME NEW as \in Taken(Head(rep)), reads' = reads + 1, phase' \in GoesOnAs(as)
        PROVE  InStep'
    <3>1. (as = "frame" => Front <= reads + 1) /\ (as = "astray" => phase = "astray")
      BY <1>6, <2>6, TakenInStep
    <3>2. CASE as = "frame" /\ phase' = "frame"
      <4>1. Front # PIECES
        BY <2>2, <2>6, <3>2 DEF GoesOnAs
      <4>2. Front' = Front + 1 /\ Front' # 1 /\ Front' <= reads' + 1
        BY <1>0, <2>2, <2>6, <3>1, <3>2, <4>1 DEF Succ
      <4> QED
        BY <3>2, <4>2 DEF InStep
    <3>3. CASE as = "frame" /\ phase' = "astray"
      <4>1. rep' = << >>
        BY <2>6, <3>3 DEF GoesOnAs
      <4> QED
        BY <2>5, <3>3, <4>1 DEF InStep
    <3>4. CASE as = "astray"
      <4>1. phase = "astray" /\ phase' = "astray"
        BY <2>6, <3>1, <3>4 DEF GoesOnAs
      <4> QED
        BY <2>1, <2>4, <4>1 DEF InStep
    <3>5. CASE as = "search"
      BY <2>6, <3>5 DEF GoesOnAs, InStep
    <3> QED
      BY <2>6, <3>2, <3>3, <3>4, <3>5 DEF GoesOnAs, Taken
  <2> QED
    BY <1>2, <1>6, <2>6, ReadTakes
<1>7. CASE Daemon
  BY <1>0, <1>1, <1>2, <1>6, <1>7
  DEF Daemon, OpenCmd, OpenRep, Goes, Subscribe, SubscribeFails, WriteCmd, Dispatch, Poll,
      Round, web_accept, Returns, sendcmd, sendcmd_fails, Finish, deal_pro, ReadHungUp, Shape
<1>8. CASE OpenFails
  BY <1>2, <1>8 DEF OpenFails, Goes
<1>9. ASSUME NEW c \in Clients, Connect(c)
      PROVE  InStep'
  BY <1>1, <1>9 DEF Connect, daemon
<1>10. CASE TakeCommand
  <2>1. left = 0 /\ UNCHANGED << pc, reads, phase, rep, left >>
    BY <1>10 DEF TakeCommand, daemon
  <2>2. ~ Tight' /\ Front' = Front
    BY <1>0, <2>1 DEF Tight, Front, Due
  <2> QED
    BY <2>1, <2>2 DEF InStep
<1> QED
  BY <1>1, <1>3, <1>4, <1>5, <1>7, <1>8, <1>9, <1>10
  DEF Next, Environment, Over, vars, daemon, DecoderOpens, DecoderStarts

LEMMA SumBound ==
  \A m, n \in Nat : \A c \in Nat, t \in 0..m : c <= n => c + t <= m + n
OBVIOUS

(* No step makes the commands more than a tight frame allows. *)
LEMMA BudgetStep ==
  ASSUME ~ TORN, ~ CODES, ~ CONCURRENT, EnoughRoom, TypeOK, Shape, Numbered, InStep, Budget,
         [Next]_vars
  PROVE  Budget'
<1>0. /\ PIECES \in Nat /\ PIECES >= 1 /\ REPCAP \in Nat /\ REPCAP >= PIECES
      /\ MAXCMDS \in Nat /\ NSTART \in Nat /\ Most \in Nat /\ Most >= NSTART /\ Most >= MAXCMDS
      /\ left \in 0..PIECES /\ reads \in Nat /\ todo \in Nat /\ cmds \in Nat
      /\ rep \in Seq(1..PIECES) /\ Len(rep) \in Nat /\ Len(rep) <= REPCAP
      /\ batch \subseteq {"web", "rep"}
  BY LoopAssumption DEF TypeOK, EnoughRoom, Most
<1>T. Tight => decoder = "up"
  BY <1>0 DEF Tight, Shape
<1>1. CASE UNCHANGED << pc, batch, todo, reads, cmds, rep, left >>
  BY <1>1 DEF Budget, Tight
<1>2. CASE Dispatch
  <2>1. pc' = "poll" /\ cmds' = cmds /\ pc = "subscribe"
    BY <1>2 DEF Dispatch, Goes
  <2>2. cmds' <= Most
    BY <1>0, <2>1 DEF Shape
  <2> QED
    BY <2>1, <2>2 DEF Budget
<1>3. CASE Poll
  <2>1. /\ pc = "poll" /\ batch' = Ready /\ pc' = "dispatch" /\ UNCHANGED << cmds, rep, left >>
    BY <1>3 DEF Poll, Round
  <2>2. SUFFICES ASSUME Tight' PROVE cmds' <= Most + MAXCMDS /\ cmds' <= Most /\ "rep" \in batch'
    BY <2>1 DEF Budget
  <2>3. Tight
    BY <2>1, <2>2 DEF Tight
  <2>4. cmds <= Most
    BY <2>1, <2>3 DEF Budget
  <2>5. Len(rep) # 0
    BY <1>0, <2>3 DEF Tight
  <2>6. rep # << >>
    BY <2>5
  <2>7. "rep" \in batch'
    BY <2>1, <2>6 DEF Ready
  <2> QED
    BY <1>0, <2>1, <2>4, <2>7
<1>4. CASE web_accept
  <2>1. pc = "dispatch" /\ "web" \in batch /\ UNCHANGED << reads, cmds, rep, left >>
    BY <1>4 DEF web_accept
  <2>2. SUFFICES ASSUME Tight PROVE Budget'
    BY <2>1 DEF Budget, Tight
  <2>3. IF "rep" \in batch THEN cmds <= Most ELSE cmds = 0
    BY <2>1, <2>2 DEF Budget
  <2>4. CASE todo' \in 0..MAXCMDS /\ pc' = "write" /\ UNCHANGED batch
    <3>0. ASSUME NEW n \in Nat, cmds <= n
          PROVE  cmds' + todo' <= MAXCMDS + n
      <4>1. MAXCMDS \in Nat /\ todo' \in 0..MAXCMDS /\ cmds \in Nat /\ cmds' = cmds
        BY <1>0, <2>1, <2>4
      <4> QED
        BY <3>0, <4>1, SumBound
    <3>1. CASE "rep" \in batch
      <4>0. cmds <= Most
        BY <2>3, <3>1
      <4>1. cmds' + todo' <= MAXCMDS + Most
        BY <1>0, <3>0, <4>0
      <4> QED
        BY <2>4, <3>1, <4>1 DEF Budget
    <3>2. CASE "rep" \notin batch
      <4>0. cmds = 0
        BY <2>3, <3>2
      <4>1. cmds' + todo' <= MAXCMDS + 0
        BY <1>0, <3>0, <4>0
      <4> QED
        BY <2>4, <3>2, <4>1 DEF Budget
    <3> QED
      BY <3>1, <3>2
  <2>5. CASE Returns("web")
    <3>1. /\ "rep" \in batch' <=> "rep" \in batch
          /\ "web" \notin batch' /\ (pc' = "poll" \/ pc' = "dispatch")
      <4>1. batch' = batch \ {"web"} /\ (pc' = "poll" \/ pc' = "dispatch")
        BY <2>5 DEF Returns
      <4> QED
        BY <4>1
    <3>2. cmds' <= Most /\ cmds' <= Most + MAXCMDS /\ ("rep" \notin batch => cmds' = 0)
      BY <1>0, <2>1, <2>3
    <3>3. CASE pc' = "poll"
      BY <3>2, <3>3 DEF Budget
    <3>4. CASE pc' = "dispatch" /\ "rep" \in batch'
      BY <3>1, <3>2, <3>4 DEF Budget
    <3>5. CASE pc' = "dispatch" /\ "rep" \notin batch'
      <4>1. cmds' = 0
        BY <3>1, <3>2, <3>5
      <4> QED
        BY <3>5, <4>1 DEF Budget
    <3> QED
      BY <3>1, <3>3, <3>4, <3>5
  <2> QED
    BY <1>4, <2>4, <2>5 DEF web_accept
<1>5. CASE sendcmd
  <2>1. /\ pc = "write" /\ cmds' = cmds + 1 /\ todo' = todo - 1 /\ pc' = pc
        /\ UNCHANGED << batch, reads, rep, left >>
    BY <1>5 DEF sendcmd, WriteCmd
  <2>2. Tight' <=> Tight
    BY <2>1 DEF Tight
  <2>3. cmds' + todo' = cmds + todo
    BY <1>0, <2>1
  <2> QED
    BY <2>1, <2>2, <2>3 DEF Budget
<1>6. CASE sendcmd_fails
  BY <1>6, <1>T DEF sendcmd_fails, Budget, Tight
<1>7. CASE Finish
  <2>1. /\ pc = "write" /\ todo = 0 /\ Returns("web") /\ UNCHANGED << cmds, rep, left >>
    BY <1>7 DEF Finish
  <2>2. SUFFICES ASSUME Tight PROVE Budget'
    BY <2>1 DEF Budget, Tight
  <2>3. cmds <= MAXCMDS + (IF "rep" \in batch THEN Most ELSE 0)
    BY <1>0, <2>1, <2>2 DEF Budget
  <2> QED
    BY <1>0, <2>1, <2>3 DEF Budget, Returns
<1>8. CASE deal_pro
  <2>1. /\ pc = "dispatch" /\ "rep" \in batch /\ pc' = "read" /\ reads' = 0
        /\ UNCHANGED << batch, cmds, rep, left >>
    BY <1>8 DEF deal_pro, Shape
  <2>2. SUFFICES ASSUME Tight
        PROVE  Len(rep') + left' + reads' <= REPCAP + PIECES /\ cmds' <= Most + MAXCMDS
    BY <2>1 DEF Budget, Tight
  <2>3. cmds <= Most + MAXCMDS
    BY <2>1, <2>2 DEF Budget
  <2> QED
    BY <1>0, <2>1, <2>3
<1>9. CASE Read
  <2>1. /\ pc = "read" /\ rep # << >> /\ rep' = Tail(rep) /\ UNCHANGED << cmds, left >>
    BY <1>9, ReadTakes
  <2>2. Len(rep') = Len(rep) - 1 /\ Len(rep) >= 1 /\ (Len(rep) = 1 <=> rep' = << >>)
    BY <2>1, PieceRead
  <2>3. SUFFICES ASSUME Tight' PROVE Budget'
    BY DEF Budget
  <2>4. Tight /\ rep' # << >> /\ Len(rep) - 1 + left > REPCAP
    BY <1>0, <2>1, <2>2, <2>3 DEF Tight
  <2>5. cmds = 0 \/ (Len(rep) + left + reads <= REPCAP + PIECES /\ cmds <= Most + MAXCMDS)
    BY <2>1, <2>4 DEF Budget
  <2>6. CASE reads' = reads + 1 /\ UNCHANGED << pc, batch >>
    <3>1. Len(rep') + left' + reads' = Len(rep) + left + reads
      BY <1>0, <2>1, <2>2, <2>6
    <3> QED
      BY <2>1, <2>5, <2>6, <3>1 DEF Budget
  <2>7. ASSUME NEW as \in Taken(Head(rep)), Ends(as) \/ reads + 1 >= MAXREADS, Returns("rep")
        PROVE  Budget'
    <3>1. Front = Head(rep) /\ (as = "frame" => Front <= reads + 1) /\ (as = "astray" => phase = "astray")
      BY <1>9, <2>7, FrontMoves, TakenInStep
    <3>2. cmds = 0 \/ reads + 1 >= PIECES
      <4>1. CASE as = "astray"
        BY <2>1, <2>4, <3>1, <4>1 DEF InStep
      <4>2. CASE as = "frame" /\ Head(rep) = PIECES
        BY <1>0, <3>1, <4>2
      <4>3. CASE reads + 1 >= MAXREADS
        BY <1>0, <4>3, LoopAssumption
      <4> QED
        BY <2>4, <2>7, <4>1, <4>2, <4>3 DEF Ends
    <3>3. cmds' = 0
      BY <1>0, <2>1, <2>4, <2>5, <3>2
    <3> QED
      BY <1>0, <2>7, <3>3 DEF Returns, Budget
  <2> QED
    BY <1>9, <2>6, <2>7, ReadTakes
<1>10. CASE ReadHungUp
  BY <1>10, <1>T DEF ReadHungUp, HungUp, Budget, Tight
<1>11. CASE TakeCommand
  <2>1. left = 0 /\ left' = left
    BY <1>11 DEF TakeCommand
  <2> QED
    BY <2>1 DEF Budget, Tight
<1>12. CASE BeginFrame
  <2>1. cmds = 0 /\ UNCHANGED << pc, batch, todo, reads, cmds, rep >>
    BY <1>12 DEF BeginFrame, daemon
  <2> QED
    BY <1>0, <2>1 DEF Budget, Shape
<1>13. CASE WritePiece
  <2>1. /\ rep' = Append(rep, PIECES - left + 1) /\ left' = left - 1 /\ left > 0
        /\ UNCHANGED << pc, batch, todo, reads, cmds >>
    BY <1>13 DEF WritePiece, daemon
  <2>2. PIECES - left + 1 \in 1..PIECES
    BY <1>0, <2>1
  <2>3. Len(rep') = Len(rep) + 1
    BY <1>0, <2>1, <2>2
  <2>4. (Tight' => Tight) /\ Len(rep') + left' = Len(rep) + left
    BY <1>0, <2>1, <2>3 DEF Tight
  <2> QED
    BY <1>0, <2>1, <2>4 DEF Budget
<1>14. CASE DecoderDies
  <2>1. left' = 0
    BY <1>14 DEF DecoderDies
  <2> QED
    BY <2>1 DEF Budget, Tight
<1>15. CASE OpenFails
  BY <1>15 DEF OpenFails, Goes, Budget
<1>16. CASE OpenCmd \/ OpenRep \/ Subscribe \/ SubscribeFails
  BY <1>16 DEF OpenCmd, OpenRep, Goes, Subscribe, SubscribeFails, WriteCmd, Budget
<1>17. ASSUME NEW c \in Clients, Connect(c)
       PROVE  Budget'
  BY <1>1, <1>17 DEF Connect, daemon
<1> QED
  BY <1>1, <1>2, <1>3, <1>4, <1>5, <1>6, <1>7, <1>8, <1>9, <1>10, <1>11, <1>12, <1>13,
     <1>14, <1>15, <1>16, <1>17
  DEF Next, Daemon, Environment, Over, vars, daemon, DecoderOpens, DecoderStarts

-----------------------------------------------------------------------------
LEMMA RoomSuffices ==
  ASSUME EnoughRoom, IInv
  PROVE  NoEmbrace
<1> SUFFICES ASSUME Embrace PROVE FALSE
  BY DEF NoEmbrace
<1>0. /\ PIECES \in Nat /\ REPCAP \in Nat /\ MAXCMDS \in Nat /\ NSTART \in Nat /\ Most \in Nat
      /\ Most >= NSTART /\ CMDCAP \in Nat \ {0} /\ CMDCAP >= Most + MAXCMDS
      /\ left \in 0..PIECES /\ todo \in Nat /\ cmds \in Nat /\ Len(rep) \in Nat
  BY LoopAssumption DEF IInv, TypeOK, EnoughRoom, Most
<1>1. todo > 0 /\ cmds = CMDCAP /\ left > 0 /\ Len(rep) = REPCAP
  BY DEF Embrace
<1>2. Tight
  BY <1>0, <1>1 DEF Tight
<1>3. pc = "subscribe" \/ pc = "write"
  BY <1>0, <1>1 DEF IInv, Shape
<1>4. CASE pc = "subscribe"
  BY <1>0, <1>1, <1>4 DEF IInv, Shape
<1>5. CASE pc = "write"
  BY <1>0, <1>1, <1>2, <1>5 DEF IInv, Budget
<1> QED
  BY <1>3, <1>4, <1>5

(* Whatever the decoder does, the daemon's counters and both FIFOs stay    *)
(* within their bounds: deal_pro makes no more reads than its limit.       *)
THEOREM LoopTypeCorrect == Spec => []TypeOK
<1>1. Init => TypeOK /\ Shape
  BY InitIInv DEF IInv
<1>2. TypeOK /\ Shape /\ [Next]_vars => TypeOK' /\ Shape'
  BY TypeStep, ShapeStep
<1> QED
  BY <1>1, <1>2, PTL DEF Spec

(* The daemon, writing the commands of a page or of the start-up, and the  *)
(* decoder, writing a frame, never wait for each other, however short the  *)
(* reads of deal_pro come out and wherever its calls end.                  *)
THEOREM NoEmbraceEver ==
  ASSUME EnoughRoom, ~ TORN, ~ CODES
  PROVE  Spec => []NoEmbrace
<1>1. CASE CONCURRENT
  <2>1. NoEmbrace
    BY <1>1 DEF NoEmbrace, Embrace
  <2> QED
    BY <2>1, PTL
<1>2. CASE ~ CONCURRENT
  <2>1. Init => IInv
    BY InitIInv
  <2>2. IInv /\ [Next]_vars => IInv'
    BY <1>2, TypeStep, ShapeStep, NumberedStep, InStepStep, BudgetStep DEF IInv
  <2>3. IInv => NoEmbrace
    BY RoomSuffices
  <2> QED
    BY <2>1, <2>2, <2>3, PTL DEF Spec
<1> QED
  BY <1>1, <1>2
=============================================================================
