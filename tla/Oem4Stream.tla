----------------------------- MODULE Oem4Stream ------------------------------
(***************************************************************************)
(* The byte stream from the decoder, and input_hcnoem4p (oem6/deco.c),     *)
(* which cuts it into frames.                                              *)
(*                                                                         *)
(* A frame is three synchronisation bytes, the rest of a header of         *)
(* OEM4HLEN bytes (the two bytes of its length field are the last of the   *)
(* PRE after the synchronisation code), a message and a checksum.  The reader takes      *)
(* single bytes until the last three are the synchronisation code, then    *)
(* PRE bytes, then as many as the length field says.  A read takes what    *)
(* the FIFO holds, up to the number asked for, and only waits when the     *)
(* FIFO is empty; the reader takes a short read for a full one and leaves  *)
(* it to the checksum to notice.                                           *)
(*                                                                         *)
(* The decoder process is not in this repository.  It may write a frame at *)
(* once or in pieces, put other bytes between frames, die and come back.   *)
(*                                                                         *)
(* The stream is kept as the sequence of all bytes ever put into it, the   *)
(* FIFO being the part of it from rd + 1 to vis.  The checksum is ideal:   *)
(* it accepts the bytes of one frame, all of them, and nothing else.       *)
(***************************************************************************)
EXTENDS Integers, Sequences

CONSTANTS
  PRE,         \* bytes read after the synchronisation code: 7 in the code
  OEM4HLEN,    \* length of a header: 28
  CRCLEN,      \* length of a checksum: 4
  MAXRAWLEN,   \* size of the frame buffer: 4096
  MAXSCAN,     \* bytes searched for a synchronisation code: 4096
  Messages,    \* the messages the decoder may send: sequences of byte values
  Noise,       \* what else it may put between frames: sequences of byte values
  ATOMIC,      \* a frame is written at once
  CRASHES,     \* the decoder may die
  MAXOUT,      \* bound on the length of the stream explored
  MAXFRAMES    \* bound on the number of frames explored

SYNC == << 1, 2, 3 >>    \* stands for AA 44 12

ASSUME StreamAssumption ==
  /\ PRE \in Nat /\ PRE >= 2 /\ CRCLEN \in Nat \ {0}
  /\ OEM4HLEN \in Nat /\ OEM4HLEN >= 3 + PRE
  /\ MAXRAWLEN \in Nat /\ MAXSCAN \in Nat /\ MAXOUT \in Nat /\ MAXFRAMES \in Nat
  /\ Messages \subseteq Seq(Nat) /\ Noise \subseteq Seq(Nat)
  /\ ATOMIC \in BOOLEAN /\ CRASHES \in BOOLEAN

VARIABLES
  out,      \* every byte ever written or about to be
  vis,      \* how many of them have reached the FIFO
  frames,   \* where each frame lies in out: [first, last]; last = 0: torn
  open,     \* the decoder holds the FIFO open
  rd,       \* how many bytes have been read
  pc,       \* the reader: not called, or in one of its three reads
  begin,    \* rd when the current call, or the frame it is in, began
  need,     \* how many bytes the last read of the call asks for
  short,    \* a read of the current call was short
  handed,   \* the numbers of the frames handed to deal_pro, in order
  torn      \* history: frames in which a read of the reader came up short

feed   == << out, vis, frames, open >>
reader == << rd, pc, begin, need, short, handed, torn >>
vars   == << feed, reader >>

Init ==
  /\ out = << >> /\ vis = 0 /\ frames = << >> /\ open = TRUE
  /\ rd = 0 /\ pc = "idle" /\ begin = 0 /\ need = 0 /\ short = FALSE
  /\ handed = << >> /\ torn = {}

-----------------------------------------------------------------------------
(* The decoder. *)

(* Byte i of the header of a message, behind the code: the length stands   *)
(* with its low byte first.                                                *)
HeaderByte(msg, i) ==
  IF i = PRE - 1 THEN Len(msg) % 256 ELSE IF i = PRE THEN Len(msg) \div 256 ELSE 0

Frame(msg) ==
  SYNC \o [i \in 1 .. OEM4HLEN - 3 |-> HeaderByte(msg, i)]
       \o msg \o [i \in 1..CRCLEN |-> 0]

Put(bytes) ==
  /\ open
  /\ vis = Len(out)
  /\ Len(out) + Len(bytes) <= MAXOUT
  /\ out' = out \o bytes
  /\ vis' = IF ATOMIC THEN Len(out') ELSE vis
  /\ UNCHANGED << open, reader >>

SendFrame(msg) ==
  /\ Len(frames) < MAXFRAMES
  /\ Put(Frame(msg))
  /\ frames' = Append(frames, [first |-> Len(out) + 1, last |-> Len(out')])

SendNoise(bytes) ==
  /\ Put(bytes)
  /\ UNCHANGED frames

Flush ==
  /\ open
  /\ vis' \in vis + 1 .. Len(out)
  /\ UNCHANGED << out, frames, open, reader >>

(* What has not reached the FIFO is lost; a frame cut off is torn. *)
Die ==
  /\ CRASHES /\ open
  /\ open' = FALSE
  /\ out' = SubSeq(out, 1, vis)
  /\ frames' = [f \in DOMAIN frames |->
                  IF frames[f].last > vis THEN [frames[f] EXCEPT !.last = 0] ELSE frames[f]]
  /\ UNCHANGED << vis, reader >>

Restart ==
  /\ ~ open
  /\ open' = TRUE
  /\ UNCHANGED << out, vis, frames, reader >>

Decoder ==
  \/ \E msg \in Messages : SendFrame(msg)
  \/ \E bytes \in Noise : SendNoise(bytes)
  \/ Flush \/ Die \/ Restart

-----------------------------------------------------------------------------
(* The reader. *)

Min2(a, b) == IF a <= b THEN a ELSE b

Waiting == vis - rd                \* bytes in the FIFO
AtEnd   == Waiting = 0 /\ ~ open   \* read returns 0

(* The end of a call; its local variables are gone. *)
Return == pc' = "idle" /\ begin' = rd' /\ need' = 0 /\ short' = FALSE

(* The event loop calls deal_pro when the FIFO has bytes or has hung up;   *)
(* the frame buffer of a call starts out as zeros.                         *)
Call ==
  /\ pc = "idle"
  /\ Waiting > 0 \/ AtEnd
  /\ pc' = "sync"
  /\ UNCHANGED << rd, begin, need, short, handed, torn, feed >>

(* A read of the reader finds the FIFO hung up: the call returns -2. *)
HungUp ==
  /\ pc \in {"sync", "header", "body"}
  /\ AtEnd
  /\ rd' = rd
  /\ Return
  /\ UNCHANGED << handed, torn, feed >>

(* sync_oem4 looks at the last three bytes this call has read.  Without a  *)
(* synchronisation code the call gives up after MAXSCAN + 1 bytes.         *)
sync_oem4 == rd + 1 - begin >= 3 /\ SubSeq(out, rd - 1, rd + 1) = SYNC

ReadSync ==
  /\ pc = "sync"
  /\ Waiting > 0
  /\ rd' = rd + 1
  /\ \/ /\ sync_oem4
        /\ pc' = "header" /\ begin' = rd' - 3    \* the buffer starts at the code
        /\ UNCHANGED << need, short >>
     \/ /\ ~ sync_oem4 /\ rd' - begin <= MAXSCAN
        /\ UNCHANGED << pc, begin, need, short >>
     \/ /\ ~ sync_oem4 /\ rd' - begin > MAXSCAN
        /\ Return
  /\ UNCHANGED << handed, torn, feed >>

(* Frames of which a byte has been read and a byte is still to come: those *)
(* a read that comes up short here tears.                                  *)
Cut(at) == {f \in DOMAIN frames : frames[f].first <= at /\ at < frames[f].last}

(* The length field at a place of the stream, of which one byte or both    *)
(* may not have been read: these count as 0.                               *)
LengthAt(p, got) ==
  (IF got >= PRE - 1 THEN out[p] ELSE 0) + (IF got = PRE THEN 256 * out[p + 1] ELSE 0)

(* A length that does not fit the buffer ends the call. *)
Header(skip) ==
  /\ pc = "header"
  /\ Waiting > 0
  /\ LET got == Min2(PRE, Waiting)
         len == OEM4HLEN + LengthAt(rd + PRE - 1, got)
     IN /\ rd' = rd + got
        /\ torn' = IF got < PRE THEN torn \cup Cut(rd') ELSE torn
        /\ \/ len > MAXRAWLEN - CRCLEN /\ Return
           \/ /\ len <= MAXRAWLEN - CRCLEN
              /\ pc' = "body" /\ need' = len - skip /\ short' = (got # PRE)
              /\ UNCHANGED begin
  /\ UNCHANGED << handed, feed >>

ReadHeader_no_hlen == Header(OEM4HLEN + 3 + PRE - CRCLEN)  \* faulty: the header counted twice

ReadHeader_off_by_one == Header(3 + PRE - CRCLEN + 1)   \* faulty: a byte too few

ReadHeader == Header(3 + PRE - CRCLEN)

(* The frame whose bytes are exactly those from begin + 1 to end: what the *)
(* checksum accepts, provided no read of the call came up short.           *)
Whole(end, cut) ==
  {f \in DOMAIN frames : /\ ~ cut /\ frames[f].last # 0
                         /\ frames[f].first = begin + 1 /\ frames[f].last = end}

(* Faulty: what is no frame is handed over too, as frame 0. *)
crc_not_checked(end, cut) == IF Whole(end, cut) = {} THEN {0} ELSE Whole(end, cut)

crc_ok(end, cut) == Whole(end, cut)

ReadBody ==
  /\ pc = "body"
  /\ Waiting > 0
  /\ LET got == Min2(need, Waiting)
         good == crc_ok(rd + got, short \/ got < need)
     IN /\ rd' = rd + got
        /\ torn' = IF got < need THEN torn \cup Cut(rd') ELSE torn
        /\ handed' = IF good = {} THEN handed
                     ELSE Append(handed, CHOOSE f \in good : TRUE)
  /\ Return
  /\ UNCHANGED feed

Reader == Call \/ HungUp \/ ReadSync \/ ReadHeader \/ ReadBody

-----------------------------------------------------------------------------
Next == Decoder \/ Reader

Spec == Init /\ [][Next]_vars

-----------------------------------------------------------------------------
Interval == [first : Nat \ {0}, last : Nat]

TypeOK ==
  /\ out \in Seq(Nat) /\ vis \in 0 .. Len(out) /\ rd \in 0 .. vis
  /\ frames \in Seq(Interval)
  /\ open \in BOOLEAN
  /\ pc \in {"idle", "sync", "header", "body"}
  /\ begin \in 0..rd /\ need \in Nat /\ short \in BOOLEAN
  /\ handed \in Seq(Nat) /\ torn \subseteq DOMAIN frames

(* Every frame handed to deal_pro is one the decoder sent, whole, in order *)
(* and once, whatever the pieces it was written in, the bytes in between,  *)
(* and the restarts of the decoder.                                        *)
Unfinished == {f \in DOMAIN frames : frames[f].last = 0}

Feed == INSTANCE FrameFeed WITH sent <- Len(frames), lost <- Unfinished

DeliversReports == Feed!Spec

Passed(f) == frames[f].last # 0 /\ frames[f].last <= rd

Handed == {handed[i] : i \in DOMAIN handed}

(* A frame written in pieces may be lost to a read that comes up short;    *)
(* but the reader is back in step with the next frame: only a frame a read *)
(* came up short in is lost.  (Messages without a synchronisation code;    *)
(* the rest of a frame the decoder died in is looked for in the bytes that *)
(* follow, and may take a whole one with it.)                              *)
LossIsLocal ==
  (pc = "idle" /\ Unfinished = {}) =>
    \A f \in DOMAIN frames : Passed(f) => f \in Handed \cup torn

=============================================================================
