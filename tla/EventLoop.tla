------------------------------ MODULE EventLoop -------------------------------
(***************************************************************************)
(* The daemon as a whole: start-up, the event loop, and the blocking reads *)
(* and writes its callbacks make (mycgi.c, with sendcmd of web_pro.c and   *)
(* the reads of input_hcnoem4p).                                           *)
(*                                                                         *)
(* mycgi is one thread.  It opens a FIFO for commands and one for reports, *)
(* each open waiting for the decoder to open the other end, asks for four  *)
(* logs, and enters the event loop.  The loop polls the listening socket   *)
(* and the report FIFO and runs one callback for each that is ready:       *)
(* web_accept takes one connection, writes the commands of its page and    *)
(* closes it; deal_pro reads one frame.  Both FIFOs are bounded; a write   *)
(* waits while its FIFO is full, a read while it is empty, and meanwhile   *)
(* nothing else happens in the daemon.                                     *)
(*                                                                         *)
(* What is written and read is in Guide and Oem4Stream; here a command is  *)
(* a token and a frame a number of pieces.  The decoder and the web server *)
(* are external.                                                           *)
(***************************************************************************)
EXTENDS Integers, Sequences, FiniteSets

CONSTANTS
  Clients,      \* connections the web server may have open
  Nobody,       \* no connection
  MAXCMDS,      \* most commands a page writes
  NSTART,       \* commands written at start-up: four
  CMDCAP,       \* capacity of the command FIFO, in commands
  REPCAP,       \* capacity of the report FIFO, in pieces
  PIECES,       \* pieces of a frame
  MAXREADS,     \* most reads of one call of deal_pro
  CODES,        \* a message may hold what looks like a synchronisation code
  CONCURRENT,   \* the decoder takes commands while it is writing a frame
  TORN,         \* the decoder may die in the middle of a frame
  MAXCRASHES    \* bound on the deaths of the decoder

ASSUME LoopAssumption ==
  /\ Nobody \notin Clients
  /\ MAXCMDS \in Nat /\ NSTART \in Nat
  /\ CMDCAP \in Nat \ {0} /\ REPCAP \in Nat \ {0} /\ PIECES \in Nat \ {0}
  /\ MAXREADS \in Nat /\ MAXREADS >= PIECES
  /\ CODES \in BOOLEAN /\ CONCURRENT \in BOOLEAN /\ TORN \in BOOLEAN /\ MAXCRASHES \in Nat

VARIABLES
  pc,        \* where the daemon is
  batch,     \* the events of this round whose callback has not run yet
  serving,   \* the connection web_accept has taken
  todo,      \* commands the daemon still has to write
  reads,     \* reads made by this call of deal_pro
  phase,     \* this call looks for a code ("search"), reads the frame it has
             \* found the beginning of ("frame"), or takes something else for
             \* a frame, or a frame for longer or shorter than it is ("astray")
  backlog,   \* connections not yet accepted
  cmds,      \* how many commands are in the command FIFO
  rep,       \* the report FIFO: a piece is its number in its frame
  decoder,   \* the decoder: "down", in one of its opens (which counts as an
             \* open end of that FIFO), or "up"
  left,      \* pieces of the frame the decoder is writing that are to come
  crashes    \* how often the decoder has died

daemon == << pc, batch, serving, todo, reads, phase >>
vars   == << daemon, backlog, cmds, rep, decoder, left, crashes >>

Startup == {"open_cmd", "open_rep", "subscribe"}
Running == {"poll", "dispatch", "write", "read"}
Ended   == {"no_fifo", "no_reader"}

Init ==
  /\ pc = "open_cmd" /\ batch = {} /\ serving = Nobody /\ todo = 0
  /\ reads = 0 /\ phase = "search"
  /\ backlog = << >> /\ cmds = 0 /\ rep = << >>
  /\ decoder = "down" /\ left = 0 /\ crashes = 0

-----------------------------------------------------------------------------
(* deconnect.  A FIFO may not be there to be made or opened, and a write   *)
(* to a FIFO nobody reads fails (libfcgi has SIGPIPE handled): either ends *)
(* the daemon.  An open returns once the decoder opens the other end too.  *)
Goes(from, to, commands) ==
  /\ pc = from
  /\ pc' = to /\ todo' = commands
  /\ UNCHANGED << batch, serving, reads, phase, backlog, cmds, rep, decoder, left, crashes >>

OpenFails == Goes("open_cmd", "no_fifo", 0) \/ Goes("open_rep", "no_fifo", 0)

(* Faulty: the open does not wait. *)
OpenCmd_nonblocking == Goes("open_cmd", IF decoder = "down" THEN "no_reader" ELSE "open_rep", 0)

OpenCmd == decoder # "down" /\ Goes("open_cmd", "open_rep", 0)

OpenRep == decoder \in {"open_rep", "up"} /\ Goes("open_rep", "subscribe", NSTART)

(* One write to the command FIFO, which is full or has room. *)
WriteCmd ==
  /\ todo > 0 /\ decoder # "down" /\ cmds < CMDCAP
  /\ cmds' = cmds + 1 /\ todo' = todo - 1
  /\ UNCHANGED << pc, batch, serving, reads, phase, backlog, rep, decoder, left, crashes >>

Subscribe == pc = "subscribe" /\ WriteCmd

SubscribeFails == todo > 0 /\ decoder = "down" /\ Goes("subscribe", "no_reader", 0)

(* The events have been added; event_base_dispatch. *)
Dispatch == todo = 0 /\ Goes("subscribe", "poll", 0)

-----------------------------------------------------------------------------
(* The loop.  The report FIFO is ready when it has bytes and when it has   *)
(* no writer.                                                              *)
HungUp == rep = << >> /\ decoder \in {"down", "open_cmd"}

Ready == (IF backlog # << >> THEN {"web"} ELSE {}) \cup
         (IF rep # << >> \/ HungUp THEN {"rep"} ELSE {})

Round(events) ==
  /\ pc = "poll" /\ events # {}
  /\ batch' = events /\ pc' = "dispatch"
  /\ UNCHANGED << serving, todo, reads, phase, backlog, cmds, rep, decoder, left, crashes >>

(* Faulty: reports wait until no connection does. *)
Poll_web_first == Round(IF "web" \in Ready THEN {"web"} ELSE Ready)

Poll == Round(Ready)

(* A callback for `event' has returned. *)
Returns(event) ==
  /\ batch' = batch \ {event}
  /\ pc' = IF batch' = {} THEN "poll" ELSE "dispatch"

(* web_accept: FCGX_Accept_r, then web_pro, which writes its commands one  *)
(* by one and leaves the rest out when a write fails, then FCGX_Finish_r.  *)
web_accept ==
  /\ pc = "dispatch" /\ "web" \in batch
  /\ backlog' = Tail(backlog)
  /\ \/ /\ serving' = Head(backlog) /\ todo' \in 0..MAXCMDS
        /\ pc' = "write" /\ UNCHANGED batch
     \/ /\ Returns("web") /\ UNCHANGED << serving, todo >>      \* it failed
  /\ UNCHANGED << reads, phase, cmds, rep, decoder, left, crashes >>

sendcmd == pc = "write" /\ WriteCmd

(* Faulty: a write that fails is tried again. *)
sendcmd_retried == pc = "write" /\ todo > 0 /\ decoder = "down" /\ UNCHANGED vars

sendcmd_fails ==
  /\ pc = "write" /\ todo > 0 /\ decoder = "down"
  /\ todo' = 0
  /\ UNCHANGED << pc, batch, serving, reads, phase, backlog, cmds, rep, decoder, left, crashes >>

Finish ==
  /\ pc = "write" /\ todo = 0
  /\ serving' = Nobody
  /\ Returns("web")
  /\ UNCHANGED << todo, reads, phase, backlog, cmds, rep, decoder, left, crashes >>

deal_pro ==
  /\ pc = "dispatch" /\ "rep" \in batch
  /\ pc' = "read"
  /\ UNCHANGED << batch, serving, todo, reads, phase, backlog, cmds, rep, decoder, left, crashes >>

(* What a call takes a piece for.  The rest of a frame an earlier call left *)
(* is searched for a code; a frame cut off is filled up from the next.      *)
Taken(piece) ==
  IF phase # "astray" /\ (phase = "search" <=> piece = 1) THEN {"frame"}
  ELSE IF phase = "search" THEN {"search"} \cup (IF CODES THEN {"astray"} ELSE {})
  ELSE {"astray"}

(* A read takes what the FIFO holds.  If that is not all, a frame is left   *)
(* to the next call where it stands; if it was not all of the header, the   *)
(* length is wrong, and the call goes on to anywhere.  What is no frame     *)
(* ends anywhere, also at once, if its length does not fit the buffer.      *)
Ends(as) ==
  \/ as = "frame" /\ (Head(rep) = PIECES \/ rep' = << >>)
  \/ as = "astray"

GoesOnAs(as) ==
  IF as = "frame"
    THEN IF Head(rep) = PIECES THEN {}
         ELSE {"frame"} \cup (IF rep' = << >> THEN {"astray"} ELSE {})
    ELSE {as}

ReadUpTo(most) ==
  /\ pc = "read"
  /\ rep # << >>
  /\ rep' = Tail(rep)
  /\ \E as \in Taken(Head(rep)) :
       \/ /\ Ends(as) \/ reads + 1 >= most
          /\ Returns("rep") /\ reads' = 0 /\ phase' = "search"
       \/ /\ reads + 1 < most /\ reads' = reads + 1
          /\ phase' \in GoesOnAs(as)
          /\ UNCHANGED << pc, batch >>
  /\ UNCHANGED << serving, todo, backlog, cmds, decoder, left, crashes >>

Read_unbounded == ReadUpTo(MAXREADS + 2)     \* faulty: no limit on the search

Read == ReadUpTo(MAXREADS)

ReadHungUp ==
  /\ pc = "read" /\ HungUp
  /\ Returns("rep") /\ reads' = 0 /\ phase' = "search"
  /\ UNCHANGED << serving, todo, backlog, cmds, rep, decoder, left, crashes >>

Daemon ==
  \/ OpenCmd \/ OpenRep \/ Subscribe \/ SubscribeFails \/ Dispatch
  \/ Poll \/ web_accept \/ sendcmd \/ sendcmd_fails \/ Finish
  \/ deal_pro \/ Read \/ ReadHungUp

-----------------------------------------------------------------------------
(* The web server: external. *)
Connected(c) == serving = c \/ \E i \in DOMAIN backlog : backlog[i] = c

Connect(c) ==
  /\ ~ Connected(c)
  /\ backlog' = Append(backlog, c)
  /\ UNCHANGED << daemon, cmds, rep, decoder, left, crashes >>

(* The decoder: external.  It opens the FIFOs in the daemon's order.       *)
DecoderOpens ==
  /\ \/ decoder = "open_cmd" /\ pc \notin Ended /\ decoder' = "open_rep"
     \/ decoder = "open_rep" /\ pc \notin Ended \cup {"open_cmd"} /\ decoder' = "up"
  /\ UNCHANGED << daemon, backlog, cmds, rep, left, crashes >>

DecoderStarts ==
  /\ decoder = "down"
  /\ decoder' = "open_cmd"
  /\ UNCHANGED << daemon, backlog, cmds, rep, left, crashes >>

TakeCommand ==
  /\ decoder = "up" /\ cmds > 0
  /\ CONCURRENT \/ left = 0
  /\ cmds' = cmds - 1
  /\ UNCHANGED << daemon, backlog, rep, decoder, left, crashes >>

(* A decoder that does one thing at a time takes all commands first. *)
BeginFrame ==
  /\ decoder = "up" /\ left = 0
  /\ CONCURRENT \/ cmds = 0
  /\ left' = PIECES
  /\ UNCHANGED << daemon, backlog, cmds, rep, decoder, crashes >>

WritePiece ==
  /\ decoder = "up" /\ left > 0 /\ Len(rep) < REPCAP
  /\ rep' = Append(rep, PIECES - left + 1)
  /\ left' = left - 1
  /\ UNCHANGED << daemon, backlog, cmds, decoder, crashes >>

(* What is in a FIFO stays in it: the daemon keeps it open. *)
DecoderDies ==
  /\ decoder # "down" /\ crashes < MAXCRASHES
  /\ TORN \/ left \in {0, PIECES}
  /\ decoder' = "down" /\ left' = 0 /\ crashes' = crashes + 1
  /\ UNCHANGED << daemon, backlog, cmds, rep >>

Environment ==
  \/ \E c \in Clients : Connect(c)
  \/ DecoderOpens \/ DecoderStarts \/ TakeCommand \/ BeginFrame \/ WritePiece
  \/ DecoderDies

-----------------------------------------------------------------------------
(* A daemon that has ended, with its decoder waiting for it. *)
Over == pc \in Ended /\ UNCHANGED vars

Next == Daemon \/ OpenFails \/ Environment \/ Over

(* The daemon runs, but an open that waits does not fail by itself; a       *)
(* decoder that is up takes the commands it is sent and finishes the frames *)
(* it begins, and it need not begin any.                                    *)
Fairness ==
  /\ WF_vars(Daemon)
  /\ WF_vars(DecoderOpens) /\ WF_vars(TakeCommand) /\ WF_vars(WritePiece)

Spec == Init /\ [][Next]_vars /\ Fairness

-----------------------------------------------------------------------------
TypeOK ==
  /\ pc \in Startup \cup Running \cup Ended
  /\ batch \subseteq {"web", "rep"} /\ serving \in Clients \cup {Nobody}
  /\ todo \in Nat
  /\ reads \in 0 .. MAXREADS - 1 /\ phase \in {"search", "frame", "astray"}
  /\ backlog \in Seq(Clients)
  /\ cmds \in 0..CMDCAP /\ rep \in Seq(1..PIECES) /\ Len(rep) <= REPCAP
  /\ decoder \in {"down", "open_cmd", "open_rep", "up"}
  /\ left \in 0..PIECES /\ crashes \in 0..MAXCRASHES

(* The daemon waits for room in the command FIFO, the decoder for room in  *)
(* the report FIFO, and neither reads: nothing would ever happen again.    *)
Embrace ==
  /\ todo > 0 /\ cmds = CMDCAP
  /\ ~ CONCURRENT /\ decoder = "up" /\ left > 0 /\ Len(rep) = REPCAP

NoEmbrace == ~ Embrace

(* deal_pro waits for bytes, and the decoder, which is up, sends none. *)
Silence == pc = "read" /\ rep = << >> /\ decoder = "up" /\ left = 0

(* Every connection the daemon finds once it is running is served and       *)
(* closed, whatever the decoder does: with it up, dying, or gone for good,  *)
(* with both FIFOs full, and with other connections coming in.  There is    *)
(* one way for it to wait for ever: a call of deal_pro that has lost step,  *)
(* or whose frame was cut off, and a decoder that falls silent then.        *)
EveryRequestFinished ==
  \A c \in Clients :
    (pc \in Running /\ Connected(c)) ~> (~ Connected(c) \/ []Silence)

(* Connections, however many, do not keep the daemon from its reports. *)
ReportsAreRead == (pc \in Running /\ rep # << >>) ~> (pc = "read")

(* The two opens and the four commands of start-up meet the decoder's two  *)
(* opens: with a decoder that is there in the end, the daemon gets into    *)
(* its loop, unless there is no FIFO to open or the decoder died on it.    *)
StartupEnds ==
  <>[](decoder # "down") =>
     <>(pc \in Running \cup {"no_fifo"} \/ (pc = "no_reader" /\ crashes > 0))
=============================================================================
