-------------------------- MODULE Oem4StreamProofs ---------------------------
(***************************************************************************)
(* Theorems about Oem4Stream, for every choice of frame layout, buffer     *)
(* size, messages and noise.  That a frame is handed over at most once and *)
(* in order follows from where frames lie: a later frame lies behind an    *)
(* earlier one, and the reader never looks back behind `begin'.            *)
(***************************************************************************)
EXTENDS Oem4Stream, SequenceTheorems, TLAPS

(* Frames that are not torn lie in the stream, one behind the other. *)
FramesInOrder ==
  /\ \A f \in DOMAIN frames :
       frames[f].last # 0 => /\ frames[f].first <= frames[f].last
                             /\ frames[f].last <= Len(out)
  /\ \A f, g \in DOMAIN frames :
       (f < g /\ frames[f].last # 0) => frames[f].last < frames[g].first

LastHanded == IF handed = << >> THEN 0 ELSE handed[Len(handed)]

(* The frame handed over last ends before anything the reader may still    *)
(* hand over begins.                                                       *)
HandedBehind ==
  handed # << >> => /\ LastHanded \in DOMAIN frames
                    /\ frames[LastHanded].last # 0
                    /\ frames[LastHanded].last <= begin

IInv == TypeOK /\ FramesInOrder /\ HandedBehind

-----------------------------------------------------------------------------
(* A length is the sum of its two bytes. *)
LEMMA LengthBytes ==
  \A n \in Nat : n % 256 \in Nat /\ n \div 256 \in Nat /\ (n % 256) + 256 * (n \div 256) = n
OBVIOUS

LEMMA FrameTyped ==
  ASSUME NEW msg \in Messages
  PROVE  Frame(msg) \in Seq(Nat) /\ Len(Frame(msg)) > 0
<1> DEFINE head == [i \in 1 .. OEM4HLEN - 3 |-> HeaderByte(msg, i)]
           tail == [i \in 1..CRCLEN |-> 0]
<1>1. msg \in Seq(Nat) /\ OEM4HLEN - 3 \in Nat /\ CRCLEN \in Nat
  BY StreamAssumption
<1>2. Len(msg) \in Nat
  BY <1>1
<1>3. head \in Seq(Nat) /\ tail \in Seq(Nat)
  <2>1. \A i \in 1 .. OEM4HLEN - 3 : HeaderByte(msg, i) \in Nat
    BY <1>2, LengthBytes DEF HeaderByte
  <2> QED
    BY <1>1, <2>1
<1>4. SYNC \in Seq(Nat) /\ Len(SYNC) = 3
  BY DEF SYNC
<1> HIDE DEF head, tail
<1>5. SYNC \o head \in Seq(Nat) /\ Len(SYNC \o head) = 3 + Len(head)
  <2>1. SYNC \o head \in Seq(Nat) /\ Len(SYNC \o head) = Len(SYNC) + Len(head)
    BY <1>3, <1>4, ConcatProperties
  <2> QED
    BY <1>4, <2>1
<1>6. /\ (SYNC \o head) \o msg \in Seq(Nat)
      /\ Len((SYNC \o head) \o msg) = 3 + Len(head) + Len(msg)
  BY <1>1, <1>5, ConcatProperties
<1>7. /\ ((SYNC \o head) \o msg) \o tail \in Seq(Nat)
      /\ Len(((SYNC \o head) \o msg) \o tail) = 3 + Len(head) + Len(msg) + Len(tail)
  BY <1>3, <1>6, ConcatProperties
<1>8. Len(head) \in Nat /\ Len(tail) \in Nat
  BY <1>3
<1>9. Frame(msg) = ((SYNC \o head) \o msg) \o tail
  BY DEF Frame, head, tail
<1>10. 3 + Len(head) + Len(msg) + Len(tail) > 0
  BY <1>2, <1>8
<1> QED
  BY <1>7, <1>9, <1>10

(* Putting bytes into the stream only lengthens it. *)
LEMMA PutGrows ==
  ASSUME TypeOK, NEW bytes \in Seq(Nat), Put(bytes)
  PROVE  /\ out' \in Seq(Nat) /\ Len(out') = Len(out) + Len(bytes)
         /\ vis' \in 0 .. Len(out') /\ vis <= vis'
         /\ UNCHANGED << open, rd, pc, begin, need, short, handed, torn >>
<1>1. out' \in Seq(Nat) /\ Len(out') = Len(out) + Len(bytes) /\ Len(bytes) \in Nat
  BY DEF TypeOK, Put
<1> QED
  BY <1>1 DEF TypeOK, Put, reader

LEMMA InitIInv == Init => IInv
<1> SUFFICES ASSUME Init PROVE IInv
  OBVIOUS
<1> USE DEF Init
<1>1. out \in Seq(Nat) /\ Len(out) = 0
  OBVIOUS
<1>2. frames \in Seq(Interval) /\ handed \in Seq(Nat)
  OBVIOUS
<1>3. vis \in 0 .. Len(out) /\ rd \in 0..vis /\ begin \in 0..rd /\ need \in Nat
  BY <1>1
<1>4. open \in BOOLEAN /\ short \in BOOLEAN /\ torn \subseteq DOMAIN frames
  OBVIOUS
<1>5. pc \in {"idle", "sync", "header", "body"}
  OBVIOUS
<1>6. TypeOK
  BY <1>1, <1>2, <1>3, <1>4, <1>5, Zenon DEF TypeOK
<1> QED
  BY <1>6 DEF IInv, FramesInOrder, HandedBehind

(* What every frame is made of. *)
LEMMA FrameFields ==
  ASSUME TypeOK
  PROVE  /\ DOMAIN frames = 1..Len(frames) /\ Len(frames) \in Nat
         /\ \A f \in DOMAIN frames :
              frames[f] \in Interval /\ frames[f].first \in Nat /\ frames[f].last \in Nat
<1>1. frames \in Seq(Interval)
  BY DEF TypeOK
<1>2. DOMAIN frames = 1..Len(frames) /\ Len(frames) \in Nat
  BY <1>1
<1>3. \A f \in 1..Len(frames) : frames[f] \in Interval
  BY <1>1, ElementOfSeq
<1>4. \A r \in Interval : r.first \in Nat /\ r.last \in Nat
  BY DEF Interval
<1> QED
  BY <1>2, <1>3, <1>4

LEMMA SendFrameKeeps ==
  ASSUME IInv, NEW msg \in Messages, SendFrame(msg)
  PROVE  /\ IInv' /\ Len(frames') = Len(frames) + 1
         /\ UNCHANGED << handed, Unfinished >>
<1> DEFINE new == [first |-> Len(out) + 1, last |-> Len(out')]
<1>1. Frame(msg) \in Seq(Nat) /\ Len(Frame(msg)) > 0 /\ Len(Frame(msg)) \in Nat
  BY FrameTyped
<1>2. /\ out' \in Seq(Nat) /\ Len(out') = Len(out) + Len(Frame(msg))
      /\ vis' \in 0 .. Len(out') /\ vis <= vis'
      /\ UNCHANGED << open, rd, pc, begin, need, short, handed, torn >>
  BY <1>1, PutGrows DEF IInv, SendFrame
<1>3. out \in Seq(Nat) /\ Len(out) \in Nat /\ Len(out') \in Nat
      /\ Len(out) < Len(out')
  BY <1>1, <1>2 DEF IInv, TypeOK
<1>4. new \in Interval /\ new.first = Len(out) + 1 /\ new.last = Len(out')
  BY <1>3 DEF Interval
<1>5. frames' = Append(frames, new) /\ frames \in Seq(Interval)
  BY DEF SendFrame, IInv, TypeOK
<1> HIDE DEF new
<1>6. /\ frames' \in Seq(Interval)
      /\ Len(frames') = Len(frames) + 1 /\ Len(frames) \in Nat
      /\ DOMAIN frames = 1..Len(frames) /\ DOMAIN frames' = 1 .. Len(frames) + 1
      /\ \A f \in DOMAIN frames : frames'[f] = frames[f]
      /\ frames'[Len(frames) + 1] = new
  BY <1>4, <1>5
<1>7. \A f \in DOMAIN frames : frames[f].first \in Nat /\ frames[f].last \in Nat
  BY FrameFields DEF IInv
<1>8. TypeOK'
  BY <1>2, <1>3, <1>6 DEF IInv, TypeOK
<1>9. FramesInOrder'
  <2>1. ASSUME NEW f \in DOMAIN frames', frames'[f].last # 0
        PROVE  frames'[f].first <= frames'[f].last /\ frames'[f].last <= Len(out')
    <3>1. CASE f \in DOMAIN frames
      BY <1>3, <1>6, <1>7, <2>1, <3>1 DEF IInv, FramesInOrder
    <3>2. CASE f = Len(frames) + 1
      BY <1>3, <1>4, <1>6, <3>2
    <3> QED
      BY <1>6, <3>1, <3>2
  <2>2. ASSUME NEW f \in DOMAIN frames', NEW g \in DOMAIN frames', f < g, frames'[f].last # 0
        PROVE  frames'[f].last < frames'[g].first
    <3>1. f \in DOMAIN frames
      BY <1>6, <2>2
    <3>2. CASE g \in DOMAIN frames
      BY <1>6, <2>2, <3>1, <3>2 DEF IInv, FramesInOrder
    <3>3. CASE g = Len(frames) + 1
      BY <1>3, <1>4, <1>6, <1>7, <2>2, <3>1, <3>3 DEF IInv, FramesInOrder
    <3> QED
      BY <1>6, <3>2, <3>3
  <2> QED
    BY <2>1, <2>2 DEF FramesInOrder
<1>10. HandedBehind'
  BY <1>2, <1>6 DEF IInv, HandedBehind, LastHanded
<1>11. Unfinished' = Unfinished
  <2>1. frames'[Len(frames) + 1].last # 0
    BY <1>3, <1>4, <1>6
  <2>2. \A f : f \in DOMAIN frames' <=> (f \in DOMAIN frames \/ f = Len(frames) + 1)
    BY <1>6
  <2> QED
    BY <1>6, <2>1, <2>2 DEF Unfinished
<1> QED
  BY <1>2, <1>6, <1>8, <1>9, <1>10, <1>11 DEF IInv

LEMMA SendNoiseKeeps ==
  ASSUME IInv, NEW bytes \in Noise, SendNoise(bytes)
  PROVE  IInv' /\ UNCHANGED << frames, handed >>
<1>1. bytes \in Seq(Nat)
  BY StreamAssumption
<1>2. /\ out' \in Seq(Nat) /\ Len(out') = Len(out) + Len(bytes)
      /\ vis' \in 0 .. Len(out') /\ vis <= vis'
      /\ UNCHANGED << open, rd, pc, begin, need, short, handed, torn >>
  BY <1>1, PutGrows DEF IInv, SendNoise
<1>3. frames' = frames /\ Len(out) \in Nat /\ Len(bytes) \in Nat /\ vis \in Nat /\ rd \in 0..vis
  BY <1>1 DEF SendNoise, IInv, TypeOK
<1>4. TypeOK'
  BY <1>2, <1>3 DEF IInv, TypeOK
<1>5. \A f \in DOMAIN frames : frames[f].first \in Nat /\ frames[f].last \in Nat
  BY FrameFields DEF IInv
<1>6. FramesInOrder'
  <2>1. ASSUME NEW f \in DOMAIN frames, frames[f].last # 0
        PROVE  frames[f].first <= frames[f].last /\ frames[f].last <= Len(out')
    BY <1>2, <1>3, <1>5, <2>1 DEF IInv, FramesInOrder
  <2> QED
    BY <1>3, <2>1 DEF IInv, FramesInOrder
<1>7. HandedBehind'
  BY <1>2, <1>3 DEF IInv, HandedBehind, LastHanded
<1> QED
  BY <1>2, <1>3, <1>4, <1>6, <1>7 DEF IInv

LEMMA FlushKeeps ==
  ASSUME IInv, Flush
  PROVE  IInv' /\ UNCHANGED << frames, handed >>
<1>1. /\ vis' \in 0 .. Len(out) /\ vis <= vis'
      /\ UNCHANGED << out, frames, open, rd, pc, begin, need, short, handed, torn >>
  BY DEF Flush, IInv, TypeOK, reader
<1>2. TypeOK'
  BY <1>1 DEF IInv, TypeOK
<1> QED
  BY <1>1, <1>2 DEF IInv, FramesInOrder, HandedBehind, LastHanded

(* A crash shortens the stream to what has been written; the frames that   *)
(* reached beyond that are torn, and no frame that was handed over did.    *)
LEMMA DieKeeps ==
  ASSUME IInv, Die
  PROVE  /\ IInv' /\ Len(frames') = Len(frames) /\ UNCHANGED handed
         /\ Unfinished \subseteq Unfinished'
         /\ Unfinished' \ Unfinished \subseteq LastHanded + 1 .. Len(frames)
<1> DEFINE Cropped(f) == IF frames[f].last > vis THEN [frames[f] EXCEPT !.last = 0]
                         ELSE frames[f]
<1>1. /\ open' = FALSE /\ out' = SubSeq(out, 1, vis)
      /\ frames' = [f \in DOMAIN frames |-> Cropped(f)]
      /\ UNCHANGED << vis, rd, pc, begin, need, short, handed, torn >>
  BY DEF Die, reader
<1>2. out \in Seq(Nat) /\ Len(out) \in Nat /\ vis \in 0 .. Len(out) /\ vis \in Nat
  BY DEF IInv, TypeOK
<1>3. out' \in Seq(Nat) /\ Len(out') = vis
  BY <1>1, <1>2
<1>4. /\ DOMAIN frames = 1..Len(frames) /\ Len(frames) \in Nat
      /\ \A f \in DOMAIN frames :
           frames[f] \in Interval /\ frames[f].first \in Nat /\ frames[f].last \in Nat
  BY FrameFields DEF IInv
<1>5. \A f \in DOMAIN frames :
        /\ Cropped(f) \in Interval
        /\ Cropped(f).first = frames[f].first
        /\ Cropped(f).last # 0 => Cropped(f) = frames[f] /\ frames[f].last <= vis
        /\ frames[f].last <= vis => Cropped(f) = frames[f]
  <2>1. \A r \in Interval : /\ [r EXCEPT !.last = 0] \in Interval
                            /\ [r EXCEPT !.last = 0].first = r.first
                            /\ [r EXCEPT !.last = 0].last = 0
    BY DEF Interval
  <2> TAKE f \in DOMAIN frames
  <2>2. CASE frames[f].last > vis
    BY <1>2, <1>4, <2>1, <2>2
  <2>3. CASE ~ (frames[f].last > vis)
    BY <1>2, <1>4, <2>3
  <2> QED
    BY <2>2, <2>3
<1> HIDE DEF Cropped
<1>6. DOMAIN frames' = DOMAIN frames /\ \A f \in DOMAIN frames : frames'[f] = Cropped(f)
  BY <1>1
<1>7. frames' \in Seq(Interval) /\ Len(frames') = Len(frames)
  <2>1. frames' \in [1..Len(frames) -> Interval]
    BY <1>1, <1>4, <1>5
  <2> QED
    BY <1>4, <2>1
<1>8. TypeOK'
  <2>1. vis' \in 0..Len(out')
    BY <1>1, <1>2, <1>3
  <2>2. /\ rd \in 0..vis /\ begin \in 0..rd /\ need \in Nat /\ short \in BOOLEAN
        /\ pc \in {"idle", "sync", "header", "body"}
        /\ handed \in Seq(Nat) /\ torn \subseteq DOMAIN frames
    BY Zenon DEF IInv, TypeOK
  <2> QED
    BY <1>1, <1>3, <1>6, <1>7, <2>1, <2>2, Zenon DEF TypeOK
<1>9. FramesInOrder'
  <2>1. ASSUME NEW f \in DOMAIN frames, frames'[f].last # 0
        PROVE  frames'[f].first <= frames'[f].last /\ frames'[f].last <= Len(out')
    BY <1>3, <1>5, <1>6, <2>1 DEF IInv, FramesInOrder
  <2>2. ASSUME NEW f \in DOMAIN frames, NEW g \in DOMAIN frames, f < g, frames'[f].last # 0
        PROVE  frames'[f].last < frames'[g].first
    BY <1>5, <1>6, <2>2 DEF IInv, FramesInOrder
  <2> QED
    BY <1>6, <2>1, <2>2 DEF FramesInOrder
<1>10. HandedBehind'
  <2> SUFFICES ASSUME handed # << >>
               PROVE  /\ LastHanded \in DOMAIN frames
                      /\ frames'[LastHanded].last # 0
                      /\ frames'[LastHanded].last <= begin
    BY <1>1, <1>6 DEF HandedBehind, LastHanded
  <2>1. /\ LastHanded \in DOMAIN frames /\ frames[LastHanded].last # 0
        /\ frames[LastHanded].last <= begin
    BY DEF IInv, HandedBehind
  <2>2. begin <= vis /\ begin \in Nat
    BY DEF IInv, TypeOK
  <2>3. frames[LastHanded].last <= vis
    BY <1>2, <1>4, <2>1, <2>2
  <2> QED
    BY <1>5, <1>6, <2>1, <2>3
<1>11. Unfinished \subseteq Unfinished'
  <2> SUFFICES ASSUME NEW f \in DOMAIN frames, frames[f].last = 0
               PROVE  Cropped(f).last = 0
    BY <1>6 DEF Unfinished
  <2> QED
    BY <1>2, <1>5
<1>12. Unfinished' \ Unfinished \subseteq LastHanded + 1 .. Len(frames)
  <2> SUFFICES ASSUME NEW f \in DOMAIN frames, frames[f].last # 0, Cropped(f).last = 0
               PROVE  f \in LastHanded + 1 .. Len(frames)
    BY <1>6 DEF Unfinished
  <2>1. frames[f].last > vis
    BY <1>2, <1>4, <1>5
  <2>2. CASE handed = << >>
    BY <1>4, <2>2 DEF LastHanded
  <2>3. CASE handed # << >>
    <3>1. /\ LastHanded \in DOMAIN frames /\ frames[LastHanded].last # 0
          /\ frames[LastHanded].last <= begin /\ begin <= vis /\ begin \in Nat
      BY <2>3 DEF IInv, HandedBehind, TypeOK
    <3>2. f # LastHanded
      BY <1>2, <1>4, <2>1, <3>1
    <3>3. ~ (f < LastHanded)
      <4> SUFFICES ASSUME f < LastHanded PROVE FALSE
        OBVIOUS
      <4>1. frames[f].last < frames[LastHanded].first
        BY <3>1 DEF IInv, FramesInOrder
      <4>2. frames[LastHanded].first <= frames[LastHanded].last
        BY <3>1 DEF IInv, FramesInOrder
      <4> QED
        BY <1>2, <1>4, <2>1, <3>1, <4>1, <4>2
    <3> QED
      BY <1>4, <3>1, <3>2, <3>3
  <2> QED
    BY <2>2, <2>3
<1> QED
  BY <1>1, <1>7, <1>8, <1>9, <1>10, <1>11, <1>12 DEF IInv

LEMMA RestartKeeps ==
  ASSUME IInv, Restart
  PROVE  IInv' /\ UNCHANGED << frames, handed >>
<1>1. /\ open' = TRUE
      /\ UNCHANGED << out, vis, frames, rd, pc, begin, need, short, handed, torn >>
  BY DEF Restart, reader
<1>2. TypeOK'
  BY <1>1 DEF IInv, TypeOK
<1> QED
  BY <1>1, <1>2 DEF IInv, FramesInOrder, HandedBehind, LastHanded

-----------------------------------------------------------------------------
(* A step of the reader that hands nothing over only has to keep the types *)
(* and to move begin forward.                                              *)
LEMMA ReaderKeeps ==
  ASSUME IInv, UNCHANGED << feed, handed >>,
         rd' \in rd..vis, begin' \in 0..rd', begin <= begin',
         pc' \in {"idle", "sync", "header", "body"}, need' \in Nat, short' \in BOOLEAN,
         torn' \subseteq DOMAIN frames
  PROVE  IInv' /\ UNCHANGED << frames, handed >>
<1>1. UNCHANGED << out, vis, frames, open, handed >>
  BY DEF feed
<1>2. rd \in Nat /\ vis \in Nat /\ begin \in Nat
  BY DEF IInv, TypeOK
<1>3. rd' \in 0..vis
  BY <1>2
<1>4. /\ out \in Seq(Nat) /\ vis \in 0..Len(out) /\ frames \in Seq(Interval)
      /\ open \in BOOLEAN /\ handed \in Seq(Nat)
  BY Zenon DEF IInv, TypeOK
<1>5. TypeOK'
  BY <1>1, <1>3, <1>4, Zenon DEF TypeOK
<1>6. FramesInOrder'
  BY <1>1 DEF IInv, FramesInOrder
<1>7. HandedBehind'
  <2> SUFFICES ASSUME handed # << >>
               PROVE  /\ LastHanded \in DOMAIN frames /\ frames[LastHanded].last # 0
                      /\ frames[LastHanded].last <= begin'
    BY <1>1 DEF HandedBehind, LastHanded
  <2>1. /\ LastHanded \in DOMAIN frames /\ frames[LastHanded].last # 0
        /\ frames[LastHanded].last <= begin
    BY DEF IInv, HandedBehind
  <2>2. frames[LastHanded].last \in Nat /\ begin' \in Nat
    BY <1>2, <2>1, FrameFields DEF IInv
  <2> QED
    BY <1>2, <2>1, <2>2
<1> QED
  BY <1>1, <1>5, <1>6, <1>7 DEF IInv

(* What the type invariant says of the reader's counters. *)
LEMMA Counters ==
  ASSUME TypeOK
  PROVE  /\ rd \in Nat /\ vis \in Nat /\ begin \in Nat /\ need \in Nat
         /\ begin <= rd /\ rd <= vis /\ Waiting \in Nat /\ vis <= Len(out) /\ Len(out) \in Nat
BY DEF TypeOK, Waiting

LEMMA CallKeeps ==
  ASSUME IInv, Call
  PROVE  IInv' /\ UNCHANGED << frames, handed >>
<1>1. UNCHANGED << feed, handed, rd, begin, need, short, torn >> /\ pc' = "sync"
  BY DEF Call
<1>2. short \in BOOLEAN /\ torn \subseteq DOMAIN frames
  BY Zenon DEF IInv, TypeOK
<1>3. rd' \in rd..vis /\ begin' \in 0..rd' /\ begin <= begin' /\ need' \in Nat
  BY <1>1, Counters DEF IInv
<1>4. short' \in BOOLEAN /\ torn' \subseteq DOMAIN frames
  BY <1>1, <1>2
<1>5. pc' \in {"idle", "sync", "header", "body"}
  BY <1>1
<1> QED
  BY <1>1, <1>3, <1>4, <1>5, ReaderKeeps

LEMMA HungUpKeeps ==
  ASSUME IInv, HungUp
  PROVE  IInv' /\ UNCHANGED << frames, handed >>
<1>1. UNCHANGED << feed, handed, rd, torn >> /\ pc' = "idle" /\ begin' = rd
      /\ need' = 0 /\ short' = FALSE
  BY DEF HungUp, Return
<1>2. torn \subseteq DOMAIN frames
  BY DEF IInv, TypeOK
<1>3. rd' \in rd..vis /\ begin' \in 0..rd' /\ begin <= begin' /\ need' \in Nat
  BY <1>1, Counters DEF IInv
<1>4. short' \in BOOLEAN /\ torn' \subseteq DOMAIN frames
  BY <1>1, <1>2
<1>5. pc' \in {"idle", "sync", "header", "body"}
  BY <1>1
<1> QED
  BY <1>1, <1>3, <1>4, <1>5, ReaderKeeps

LEMMA ReadSyncKeeps ==
  ASSUME IInv, ReadSync
  PROVE  IInv' /\ UNCHANGED << frames, handed >>
<1>1. rd' = rd + 1 /\ Waiting > 0 /\ UNCHANGED << feed, handed, torn >>
  BY DEF ReadSync
<1>2. short \in BOOLEAN /\ torn \subseteq DOMAIN frames
  BY Zenon DEF IInv, TypeOK
<1>3. /\ rd \in Nat /\ vis \in Nat /\ begin \in Nat /\ need \in Nat
      /\ begin <= rd /\ rd <= vis
  BY Counters DEF IInv
<1>4. rd' \in rd..vis /\ rd' \in Nat
  BY <1>1, <1>3 DEF Waiting
<1>5. torn' \subseteq DOMAIN frames
  BY <1>1, <1>2
<1>6. CASE sync_oem4 /\ pc' = "header" /\ begin' = rd' - 3 /\ UNCHANGED << need, short >>
  <2>1. begin' \in 0..rd' /\ begin <= begin'
    BY <1>1, <1>3, <1>6 DEF sync_oem4
  <2>2. pc' \in {"idle", "sync", "header", "body"} /\ need' \in Nat
    BY <1>3, <1>6
  <2>3. short' \in BOOLEAN
    BY <1>2, <1>6
  <2> QED
    BY <1>1, <1>4, <1>5, <2>1, <2>2, <2>3, ReaderKeeps
<1>7. CASE UNCHANGED << pc, begin, need, short >>
  <2>1. begin' \in 0..rd' /\ begin <= begin' /\ need' \in Nat
    BY <1>1, <1>3, <1>7
  <2>2. pc' \in {"idle", "sync", "header", "body"}
    BY <1>7 DEF IInv, TypeOK
  <2>3. short' \in BOOLEAN
    BY <1>2, <1>7
  <2> QED
    BY <1>1, <1>4, <1>5, <2>1, <2>2, <2>3, ReaderKeeps
<1>8. CASE Return
  <2>1. begin' \in 0..rd' /\ begin <= begin' /\ need' \in Nat
    BY <1>1, <1>3, <1>4, <1>8 DEF Return
  <2>2. pc' \in {"idle", "sync", "header", "body"} /\ short' \in BOOLEAN
    BY <1>8 DEF Return
  <2> QED
    BY <1>1, <1>4, <1>5, <2>1, <2>2, ReaderKeeps
<1> QED
  BY <1>6, <1>7, <1>8 DEF ReadSync

LEMMA ReadHeaderKeeps ==
  ASSUME IInv, ReadHeader
  PROVE  IInv' /\ UNCHANGED << frames, handed >>
<1> DEFINE got == Min2(PRE, Waiting)
           len == OEM4HLEN + LengthAt(rd + PRE - 1, got)
           skip == 3 + PRE - CRCLEN
<1>1. /\ rd' = rd + got /\ Waiting > 0 /\ UNCHANGED << feed, handed >>
      /\ torn' = IF got < PRE THEN torn \cup Cut(rd') ELSE torn
      /\ \/ Return
         \/ pc' = "body" /\ need' = len - skip /\ short' = (got # PRE) /\ UNCHANGED begin
  BY DEF ReadHeader, Header
<1>2. /\ rd \in Nat /\ vis \in Nat /\ begin \in Nat /\ need \in Nat
      /\ begin <= rd /\ rd <= vis /\ vis <= Len(out) /\ Len(out) \in Nat
      /\ out \in Seq(Nat) /\ Waiting = vis - rd
  BY Counters DEF IInv, TypeOK, Waiting
<1>3. /\ PRE \in Nat /\ PRE >= 2 /\ CRCLEN \in Nat \ {0}
      /\ OEM4HLEN \in Nat /\ OEM4HLEN >= 3 + PRE
  BY StreamAssumption
<1>4. got \in Nat /\ got <= Waiting /\ got <= PRE
  BY <1>1, <1>2, <1>3 DEF Min2
<1>5. len \in Nat /\ len >= OEM4HLEN
  <2> HIDE DEF got
  <2>1. got >= PRE - 1 => out[rd + PRE - 1] \in Nat
    <3>1. got >= PRE - 1 => rd + PRE - 1 \in 1..Len(out)
      BY <1>2, <1>3, <1>4
    <3> QED
      BY <1>2, <3>1, ElementOfSeq
  <2>2. got = PRE => out[(rd + PRE - 1) + 1] \in Nat
    <3>1. got = PRE => (rd + PRE - 1) + 1 \in 1..Len(out)
      BY <1>2, <1>3, <1>4
    <3> QED
      BY <1>2, <3>1, ElementOfSeq
  <2>3. LengthAt(rd + PRE - 1, got) \in Nat
    BY <2>1, <2>2 DEF LengthAt
  <2> QED
    BY <1>3, <2>3
<1>6. len - skip \in Nat
  <2> HIDE DEF len
  <2> QED
    BY <1>3, <1>5
<1> HIDE DEF got, len, skip
<1>7. rd' \in rd..vis /\ rd' \in Nat /\ begin \in 0..rd'
  BY <1>1, <1>2, <1>4
<1>8. torn' \subseteq DOMAIN frames
  <2>1. torn \subseteq DOMAIN frames
    BY DEF IInv, TypeOK
  <2> QED
    BY <1>1, <2>1, Zenon DEF Cut
<1>9. CASE Return
  <2>1. begin' \in 0..rd' /\ begin <= begin' /\ need' \in Nat
    BY <1>2, <1>7, <1>9 DEF Return
  <2>2. pc' \in {"idle", "sync", "header", "body"} /\ short' \in BOOLEAN
    BY <1>9 DEF Return
  <2> QED
    BY <1>1, <1>7, <1>8, <2>1, <2>2, ReaderKeeps
<1>10. CASE pc' = "body" /\ need' = len - skip /\ short' = (got # PRE) /\ UNCHANGED begin
  <2>1. begin' \in 0..rd' /\ begin <= begin' /\ need' \in Nat
    BY <1>2, <1>6, <1>7, <1>10
  <2>2. pc' \in {"idle", "sync", "header", "body"}
    BY <1>10
  <2>3. short' \in BOOLEAN
    BY <1>10, Zenon
  <2> QED
    BY <1>1, <1>7, <1>8, <2>1, <2>2, <2>3, ReaderKeeps
<1> QED
  BY <1>1, <1>9, <1>10

(* The frame a call hands over lies behind the one handed over last: it    *)
(* begins after begin, where that one had ended.                           *)
LEMMA ReadBodyKeeps ==
  ASSUME IInv, ReadBody
  PROVE  /\ IInv' /\ UNCHANGED frames
         /\ \/ UNCHANGED handed
            \/ \E k \in (LastHanded + 1 .. Len(frames)) \ Unfinished :
                 handed' = Append(handed, k)
<1> DEFINE got == Min2(need, Waiting)
           good == crc_ok(rd + got, short \/ got < need)
           new == CHOOSE f \in good : TRUE
<1>1. /\ rd' = rd + got /\ Waiting > 0 /\ UNCHANGED feed /\ Return
      /\ torn' = IF got < need THEN torn \cup Cut(rd') ELSE torn
      /\ handed' = IF good = {} THEN handed ELSE Append(handed, new)
  BY DEF ReadBody
<1>2. /\ rd \in Nat /\ vis \in Nat /\ begin \in Nat /\ need \in Nat
      /\ begin <= rd /\ rd <= vis /\ Waiting = vis - rd
  BY Counters DEF IInv, Waiting
<1>3. got \in Nat /\ got <= Waiting
  BY <1>1, <1>2 DEF Min2
<1>4. good \subseteq {f \in DOMAIN frames : frames[f].first = begin + 1 /\ frames[f].last = rd + got
                                                /\ frames[f].last # 0}
  BY DEF crc_ok, Whole
<1> HIDE DEF got, good
<1>5. rd' \in rd..vis /\ rd' \in Nat
  BY <1>1, <1>2, <1>3
<1>6. torn' \subseteq DOMAIN frames
  <2>1. torn \subseteq DOMAIN frames
    BY DEF IInv, TypeOK
  <2> QED
    BY <1>1, <2>1, Zenon DEF Cut
<1>7. /\ begin' = rd' /\ pc' = "idle" /\ need' = 0 /\ short' = FALSE
  BY <1>1 DEF Return
<1>8. begin' \in 0..rd' /\ begin <= begin' /\ need' \in Nat /\ short' \in BOOLEAN
      /\ pc' \in {"idle", "sync", "header", "body"}
  <2>1. begin' \in 0..rd' /\ begin <= begin' /\ need' \in Nat
    BY <1>2, <1>5, <1>7
  <2>2. short' \in BOOLEAN /\ pc' \in {"idle", "sync", "header", "body"}
    BY <1>7
  <2> QED
    BY <2>1, <2>2
<1>9. CASE good = {}
  BY <1>1, <1>5, <1>6, <1>8, <1>9, ReaderKeeps
<1>10. CASE good # {}
  <2> HIDE DEF new
  <2>1. /\ new \in DOMAIN frames
        /\ frames[new].first = begin + 1 /\ frames[new].last = rd + got
        /\ frames[new].last # 0
    BY <1>4, <1>10 DEF new
  <2>2. /\ DOMAIN frames = 1..Len(frames) /\ Len(frames) \in Nat /\ new \in Nat
        /\ \A f \in DOMAIN frames : frames[f].first \in Nat /\ frames[f].last \in Nat
    BY <2>1, FrameFields DEF IInv
  <2>3. handed' = Append(handed, new) /\ handed \in Seq(Nat)
    BY <1>1, <1>10 DEF IInv, TypeOK
  <2>4. handed' \in Seq(Nat) /\ handed' # << >> /\ handed'[Len(handed')] = new
    BY <2>2, <2>3
  <2>5. LastHanded' = new
    BY <2>4 DEF LastHanded
  <2>6. UNCHANGED << out, vis, frames, open >>
    BY <1>1 DEF feed
  <2>7. TypeOK'
    <3>1. /\ out \in Seq(Nat) /\ vis \in 0..Len(out) /\ frames \in Seq(Interval)
          /\ open \in BOOLEAN
      BY Zenon DEF IInv, TypeOK
    <3>2. rd' \in 0..vis
      BY <1>2, <1>5
    <3> QED
      BY <1>6, <1>8, <2>4, <2>6, <3>1, <3>2, Zenon DEF TypeOK
  <2>8. FramesInOrder'
    BY <2>6 DEF IInv, FramesInOrder
  <2>9. HandedBehind'
    <3>1. frames[new].last # 0
      BY <2>1
    <3>2. frames[new].last <= begin'
      BY <1>1, <1>5, <1>7, <2>1
    <3> QED
      BY <2>1, <2>5, <2>6, <3>1, <3>2 DEF HandedBehind
  <2>10. new \in LastHanded + 1 .. Len(frames)
    <3>1. CASE handed = << >>
      BY <2>1, <2>2, <3>1 DEF LastHanded
    <3>2. CASE handed # << >>
      <4>1. /\ LastHanded \in DOMAIN frames /\ frames[LastHanded].last # 0
            /\ frames[LastHanded].last <= begin
        BY <3>2 DEF IInv, HandedBehind
      <4>2. begin < frames[new].last
        <5>1. frames[new].first <= frames[new].last
          BY <2>1 DEF IInv, FramesInOrder
        <5> QED
          BY <1>2, <2>1, <2>2, <5>1
      <4>3. ~ (new < LastHanded)
        <5> SUFFICES ASSUME new < LastHanded PROVE FALSE
          OBVIOUS
        <5>1. frames[new].last < frames[LastHanded].first
          BY <2>1, <4>1 DEF IInv, FramesInOrder
        <5>2. frames[LastHanded].first <= frames[LastHanded].last
          BY <4>1 DEF IInv, FramesInOrder
        <5> QED
          BY <1>2, <2>1, <2>2, <4>1, <4>2, <5>1, <5>2
      <4>4. new # LastHanded
        BY <1>2, <2>1, <2>2, <4>1, <4>2
      <4> QED
        BY <2>1, <2>2, <4>1, <4>3, <4>4
    <3> QED
      BY <3>1, <3>2
  <2>11. new \notin Unfinished
    BY <2>1 DEF Unfinished
  <2> QED
    BY <2>3, <2>6, <2>7, <2>8, <2>9, <2>10, <2>11 DEF IInv
<1> QED
  BY <1>9, <1>10

-----------------------------------------------------------------------------
(* Every step keeps the invariant; seen from deal_pro it sends a report,   *)
(* hands one over, or is not to be seen.                                   *)
LEMMA StepKeeps ==
  ASSUME IInv, [Next]_vars
  PROVE  IInv' /\ (Feed!Next \/ UNCHANGED << Len(frames), Unfinished, handed >>)
<1>0. Feed!Latest = LastHanded
  BY DEF Feed!Latest, LastHanded
<1>1. ASSUME NEW msg \in Messages, SendFrame(msg)
      PROVE  IInv' /\ Feed!Send
  BY <1>1, SendFrameKeeps DEF Feed!Send
<1>2. ASSUME UNCHANGED << frames, handed >>
      PROVE  UNCHANGED << Len(frames), Unfinished, handed >>
  BY <1>2 DEF Unfinished
<1>3. ASSUME NEW bytes \in Noise, SendNoise(bytes)
      PROVE  IInv' /\ UNCHANGED << frames, handed >>
  BY <1>3, SendNoiseKeeps
<1>4. CASE Flush
  BY <1>2, <1>4, FlushKeeps
<1>5. CASE Die
  <2>1. IInv' /\ Feed!Lose
    BY <1>0, <1>5, DieKeeps DEF Feed!Lose
  <2> QED
    BY <2>1 DEF Feed!Next
<1>6. CASE Restart
  BY <1>2, <1>6, RestartKeeps
<1>7. CASE Call
  BY <1>2, <1>7, CallKeeps
<1>8. CASE HungUp
  BY <1>2, <1>8, HungUpKeeps
<1>9. CASE ReadSync
  BY <1>2, <1>9, ReadSyncKeeps
<1>10. CASE ReadHeader
  BY <1>2, <1>10, ReadHeaderKeeps
<1>11. CASE ReadBody
  <2>1. CASE UNCHANGED << frames, handed >>
    BY <1>2, <1>11, <2>1, ReadBodyKeeps
  <2>2. CASE \E k \in (LastHanded + 1 .. Len(frames)) \ Unfinished :
               handed' = Append(handed, k)
    <3>1. UNCHANGED << Len(frames), Unfinished >>
      BY <1>11, ReadBodyKeeps DEF Unfinished
    <3>2. Feed!Hand
      BY <1>0, <2>2, <3>1 DEF Feed!Hand
    <3> QED
      BY <1>11, <3>2, ReadBodyKeeps DEF Feed!Next
  <2> QED
    BY <1>11, <2>1, <2>2, ReadBodyKeeps
<1>12. CASE UNCHANGED vars
  <2>1. UNCHANGED << out, vis, frames, open, rd, pc, begin, need, short, handed, torn >>
    BY <1>12 DEF vars, feed, reader
  <2> QED
    BY <2>1 DEF IInv, TypeOK, FramesInOrder, HandedBehind, LastHanded, Unfinished
<1> QED
  BY <1>1, <1>2, <1>3, <1>4, <1>5, <1>6, <1>7, <1>8, <1>9, <1>10, <1>11, <1>12
  DEF Next, Decoder, Reader, Feed!Next

LEMMA Invariance == Spec => []IInv
<1>1. IInv /\ [Next]_vars => IInv'
  BY StepKeeps
<1> QED
  BY InitIInv, <1>1, PTL DEF Spec

(* The reader's counters stay within the stream and its buffers. *)
THEOREM StreamTypeCorrect == Spec => []TypeOK
<1>1. IInv => TypeOK
  BY DEF IInv
<1> QED
  BY <1>1, Invariance, PTL

(* input_hcnoem4p hands over only whole frames of the decoder, in the      *)
(* order sent and none twice, for every layout of frames, every noise,     *)
(* every way of cutting the stream into reads, and across crashes: the     *)
(* stream with its reader implements FrameFeed.                            *)
THEOREM ReaderImplementsFeed == Spec => DeliversReports
<1>1. Init => Feed!Init
  BY DEF Init, Feed!Init, Unfinished
<1>2. IInv /\ [Next]_vars => [Feed!Next]_<< Len(frames), Unfinished, handed >>
  BY StepKeeps
<1> QED
  BY <1>1, <1>2, Invariance, PTL DEF Spec, DeliversReports, Feed!Spec

-----------------------------------------------------------------------------
(***************************************************************************)
(* That a loss is local: a reader that drops a frame is back in step with  *)
(* the next one.  This does not hold of every stream.  It takes a decoder  *)
(* that writes nothing but frames, messages in which no synchronisation    *)
(* code can be found, and frames that fit the buffer and the scan; under   *)
(* these three assumptions it holds for every layout of frames, every      *)
(* buffer size and every way of cutting the stream into reads.             *)
(***************************************************************************)
SyncAt(s, p) == s[p] = 1 /\ s[p + 1] = 2 /\ s[p + 2] = 3

OnlyFrames == Noise = {}

SyncFree ==
  \A msg \in Messages : \A p \in 2 .. Len(Frame(msg)) - 2 : ~ SyncAt(Frame(msg), p)

(* A frame fits the buffer; and a scan that begins within one, behind its  *)
(* synchronisation code and a byte of its header, still reaches the end of *)
(* the next synchronisation code.                                          *)
FramesFit ==
  \A msg \in Messages : /\ OEM4HLEN + Len(msg) + CRCLEN <= MAXRAWLEN
                        /\ OEM4HLEN + Len(msg) + CRCLEN <= MAXSCAN + 2

RegularStream == OnlyFrames /\ SyncFree /\ FramesFit

-----------------------------------------------------------------------------
(* While no frame is torn by the decoder, frames lie side by side from the *)
(* first byte to the last, each has the length its header says, and only   *)
(* their beginnings look like beginnings.                                  *)
SideBySide ==
  /\ \A f \in DOMAIN frames :
       frames[f].first = IF f = 1 THEN 1 ELSE frames[f - 1].last + 1
  /\ Len(out) = IF frames = << >> THEN 0 ELSE frames[Len(frames)].last

LengthIs(s, p, n) == s[p] \in Nat /\ s[p + 1] \in Nat /\ s[p] + 256 * s[p + 1] = n

LengthFields ==
  \A f \in DOMAIN frames :
    \E n \in Nat : /\ LengthIs(out, frames[f].first + 1 + PRE, n)
                   /\ frames[f].last = frames[f].first + OEM4HLEN + n + CRCLEN - 1
                   /\ OEM4HLEN + n + CRCLEN <= MAXRAWLEN
                   /\ OEM4HLEN + n + CRCLEN <= MAXSCAN + 2

SyncCodes ==
  /\ out # << >> => out[Len(out)] = 0
  /\ \A p \in 1 .. Len(out) - 2 :
       SyncAt(out, p) <=> \E f \in DOMAIN frames : frames[f].first = p

StreamRegular == SideBySide /\ LengthFields /\ SyncCodes

(* What lies behind the reader has been handed over or was cut by a short  *)
(* read; a scan that begins within a frame begins in one that was cut, and *)
(* no scan has read past a whole synchronisation code.                     *)
Accounted ==
  \A f \in DOMAIN frames : frames[f].last <= begin => f \in Handed \cup torn

InTorn ==
  \A f \in DOMAIN frames :
    (frames[f].first <= begin /\ begin < frames[f].last) =>
      f \in torn /\ frames[f].first + 3 <= begin

NotPast ==
  \A f \in DOMAIN frames : frames[f].first > begin => rd <= frames[f].first + 1

Scanning ==
  /\ pc = "idle" => begin = rd
  /\ pc \in {"idle", "sync"} => NotPast /\ InTorn

InHeader ==
  pc = "header" =>
    \E f \in DOMAIN frames : frames[f].first = begin + 1 /\ rd = begin + 3

(* The last read of a call ends with the frame, or within it and the frame *)
(* is counted as cut.                                                      *)
InBody ==
  pc = "body" =>
    \E f \in DOMAIN frames :
      /\ frames[f].first = begin + 1 /\ rd >= begin + 4 /\ need >= 1
      /\ short => f \in torn /\ rd + need < frames[f].last
      /\ ~ short => rd + need = frames[f].last

NotShort == pc # "body" => ~ short

ReaderInStep == Accounted /\ Scanning /\ InHeader /\ InBody /\ NotShort

(* A decoder that has died left nothing that has not reached the FIFO. *)
HeldBack == ~ open => vis = Len(out)

InStep == Unfinished = {} => StreamRegular /\ ReaderInStep

LossInv == IInv /\ HeldBack /\ InStep

-----------------------------------------------------------------------------
(* SubSeq finds a synchronisation code where its three bytes are. *)
LEMMA SyncWindow ==
  ASSUME NEW s \in Seq(Nat), NEW p \in Nat, 1 <= p, p + 2 <= Len(s)
  PROVE  SubSeq(s, p, p + 2) = SYNC <=> SyncAt(s, p)
<1> DEFINE w == SubSeq(s, p, p + 2)
<1>1. w \in Seq(Nat) /\ Len(w) = 3 /\ \A i \in 1..3 : w[i] = s[p + i - 1]
  BY SubSeqProperties
<1>2. w[1] = s[p] /\ w[2] = s[p + 1] /\ w[3] = s[p + 2]
  BY <1>1
<1>3. SYNC \in Seq(Nat) /\ Len(SYNC) = 3 /\ SYNC[1] = 1 /\ SYNC[2] = 2 /\ SYNC[3] = 3
  BY DEF SYNC
<1> HIDE DEF w
<1>4. ASSUME w[1] = 1, w[2] = 2, w[3] = 3 PROVE w = SYNC
  <2>1. \A i \in 1..3 : i = 1 \/ i = 2 \/ i = 3
    OBVIOUS
  <2>2. \A i \in 1 .. Len(w) : w[i] = SYNC[i]
    BY <1>1, <1>3, <1>4, <2>1
  <2> QED
    BY <1>1, <1>3, <2>2, SeqEqual
<1>5. w = SYNC <=> w[1] = 1 /\ w[2] = 2 /\ w[3] = 3
  BY <1>3, <1>4
<1> QED
  BY <1>2, <1>5 DEF SyncAt, w

(* The bytes of two sequences put together. *)
LEMMA Joined ==
  ASSUME NEW s \in Seq(Nat), NEW t \in Seq(Nat)
  PROVE  /\ s \o t \in Seq(Nat) /\ Len(s \o t) = Len(s) + Len(t)
         /\ \A i \in 1..Len(s) : (s \o t)[i] = s[i]
         /\ \A i \in 1..Len(t) : (s \o t)[Len(s) + i] = t[i]
<1> DEFINE st == s \o t
           m == Len(s)
           n == Len(t)
<1>1. /\ st \in Seq(Nat) /\ Len(st) = Len(s) + Len(t)
      /\ \A i \in 1 .. Len(s) + Len(t) :
           st[i] = IF i <= Len(s) THEN s[i] ELSE t[i - Len(s)]
  BY ConcatProperties
<1>2. m \in Nat /\ n \in Nat
  OBVIOUS
<1> HIDE DEF st
<1>3. st \in Seq(Nat) /\ Len(st) = m + n
  BY <1>1
<1>4. ASSUME NEW i \in 1..m PROVE st[i] = s[i]
  BY <1>1, <1>2
<1>5. ASSUME NEW i \in 1..n PROVE st[m + i] = t[i]
  <2>1. m + i \in 1 .. Len(s) + Len(t) /\ ~ (m + i <= Len(s)) /\ (m + i) - Len(s) = i
    BY <1>2
  <2> QED
    BY <1>1, <2>1
<1> QED
  BY <1>2, <1>3, <1>4, <1>5 DEF st

(* Where the parts of a frame are. *)
LEMMA FrameParts ==
  ASSUME NEW msg \in Messages
  PROVE  LET fr == Frame(msg)
         IN /\ fr \in Seq(Nat) /\ Len(msg) \in Nat
            /\ Len(fr) = OEM4HLEN + Len(msg) + CRCLEN
            /\ SyncAt(fr, 1)
            /\ LengthIs(fr, 2 + PRE, Len(msg))
            /\ fr[Len(fr)] = 0
<1> DEFINE head == [i \in 1 .. OEM4HLEN - 3 |-> HeaderByte(msg, i)]
           tail == [i \in 1..CRCLEN |-> 0]
<1>1. /\ msg \in Seq(Nat) /\ OEM4HLEN - 3 \in Nat /\ CRCLEN \in Nat /\ CRCLEN >= 1
      /\ PRE \in 1 .. OEM4HLEN - 3 /\ PRE - 1 \in 1 .. OEM4HLEN - 3
      /\ OEM4HLEN \in Nat /\ PRE \in Nat
  BY StreamAssumption
<1>2. Len(msg) \in Nat
  BY <1>1
<1>3. /\ head \in Seq(Nat) /\ Len(head) = OEM4HLEN - 3
      /\ head[PRE - 1] = Len(msg) % 256 /\ head[PRE] = Len(msg) \div 256
  <2>1. \A i \in 1 .. OEM4HLEN - 3 : HeaderByte(msg, i) \in Nat
    BY <1>2, LengthBytes DEF HeaderByte
  <2>2. HeaderByte(msg, PRE - 1) = Len(msg) % 256 /\ HeaderByte(msg, PRE) = Len(msg) \div 256
    BY <1>1 DEF HeaderByte
  <2> QED
    BY <1>1, <2>1, <2>2
<1>4. tail \in Seq(Nat) /\ Len(tail) = CRCLEN /\ tail[CRCLEN] = 0
  BY <1>1
<1>5. /\ SYNC \in Seq(Nat) /\ Len(SYNC) = 3
      /\ SYNC[1] = 1 /\ SYNC[2] = 2 /\ SYNC[3] = 3
  BY DEF SYNC
<1>6. Frame(msg) = ((SYNC \o head) \o msg) \o tail
  BY DEF Frame
<1> HIDE DEF head, tail
<1> DEFINE a == SYNC \o head
           b == a \o msg
           fr == b \o tail
<1>7. /\ a \in Seq(Nat) /\ Len(a) = OEM4HLEN
      /\ a[1] = 1 /\ a[2] = 2 /\ a[3] = 3
      /\ a[2 + PRE] = Len(msg) % 256 /\ a[3 + PRE] = Len(msg) \div 256
  <2>1. /\ a \in Seq(Nat) /\ Len(a) = Len(SYNC) + Len(head)
        /\ \A i \in 1..Len(SYNC) : a[i] = SYNC[i]
        /\ \A i \in 1..Len(head) : a[Len(SYNC) + i] = head[i]
    BY <1>3, <1>5, Joined
  <2>2. 1 \in 1..Len(SYNC) /\ 2 \in 1..Len(SYNC) /\ 3 \in 1..Len(SYNC)
        /\ Len(SYNC) + Len(head) = OEM4HLEN /\ PRE \in 1..Len(head) /\ PRE - 1 \in 1..Len(head)
        /\ Len(SYNC) + PRE = 3 + PRE /\ Len(SYNC) + (PRE - 1) = 2 + PRE
    BY <1>1, <1>3, <1>5
  <2>3. a[1] = 1 /\ a[2] = 2 /\ a[3] = 3
    BY <1>5, <2>1, <2>2
  <2>4. a[2 + PRE] = Len(msg) % 256 /\ a[3 + PRE] = Len(msg) \div 256
    BY <1>3, <2>1, <2>2
  <2> QED
    BY <2>1, <2>2, <2>3, <2>4
<1> HIDE DEF a
<1>8. /\ b \in Seq(Nat) /\ Len(b) = OEM4HLEN + Len(msg)
      /\ \A i \in 1 .. OEM4HLEN : b[i] = a[i]
  <2>1. /\ b \in Seq(Nat) /\ Len(b) = Len(a) + Len(msg)
        /\ \A i \in 1..Len(a) : b[i] = a[i]
    BY <1>1, <1>7, Joined
  <2> QED
    BY <1>7, <2>1
<1> HIDE DEF b
<1>9. /\ fr \in Seq(Nat) /\ Len(fr) = OEM4HLEN + Len(msg) + CRCLEN
      /\ \A i \in 1 .. OEM4HLEN : fr[i] = b[i]
      /\ fr[Len(fr)] = tail[CRCLEN]
  <2>1. /\ fr \in Seq(Nat) /\ Len(fr) = Len(b) + Len(tail)
        /\ \A i \in 1..Len(b) : fr[i] = b[i]
        /\ \A i \in 1..Len(tail) : fr[Len(b) + i] = tail[i]
    BY <1>4, <1>8, Joined
  <2>2. /\ Len(tail) \in 1..Len(tail) /\ Len(b) + Len(tail) = OEM4HLEN + Len(msg) + CRCLEN
        /\ \A i \in 1 .. OEM4HLEN : i \in 1..Len(b)
    BY <1>1, <1>2, <1>4, <1>8
  <2> QED
    BY <1>4, <2>1, <2>2
<1> HIDE DEF fr
<1>10. 1 \in 1 .. OEM4HLEN /\ 2 \in 1 .. OEM4HLEN /\ 3 \in 1 .. OEM4HLEN
       /\ 2 + PRE \in 1 .. OEM4HLEN /\ 3 + PRE \in 1 .. OEM4HLEN /\ (2 + PRE) + 1 = 3 + PRE
  BY <1>1
<1>11. fr[1] = 1 /\ fr[2] = 2 /\ fr[3] = 3 /\ LengthIs(fr, 2 + PRE, Len(msg))
  <2>0. \A i \in 1 .. OEM4HLEN : fr[i] = a[i]
    BY <1>8, <1>9
  <2>1. fr[1] = 1 /\ fr[2] = 2 /\ fr[3] = 3
    BY <1>7, <1>10, <2>0
  <2>2. fr[2 + PRE] = a[2 + PRE] /\ fr[3 + PRE] = a[3 + PRE]
    BY <1>10, <2>0
  <2>3. fr[2 + PRE] = Len(msg) % 256 /\ fr[(2 + PRE) + 1] = Len(msg) \div 256
    BY <1>7, <1>10, <2>2
  <2> QED
    BY <1>2, <2>1, <2>3, LengthBytes DEF LengthIs
<1>12. Frame(msg) = fr
  BY <1>6 DEF a, b, fr
<1>13. SyncAt(fr, 1)
  BY <1>11 DEF SyncAt
<1> QED
  BY <1>2, <1>4, <1>9, <1>11, <1>12, <1>13


(* Frames lie side by side and are long enough for a header and a checksum. *)
LEMMA Layout ==
  ASSUME IInv, Unfinished = {}, SideBySide, LengthFields
  PROVE  /\ DOMAIN frames = 1..Len(frames) /\ Len(frames) \in Nat /\ Len(out) \in Nat
         /\ \A f \in DOMAIN frames :
              /\ frames[f].first \in Nat /\ frames[f].last \in Nat /\ frames[f].first >= 1
              /\ frames[f].first + 3 + PRE <= frames[f].last
              /\ frames[f].last <= Len(out)
         /\ \A f, g \in DOMAIN frames :
              \/ f = g
              \/ frames[f].last < frames[g].first
              \/ frames[g].last < frames[f].first
         /\ \A f \in DOMAIN frames :
              \/ frames[f].first = 1
              \/ \E g \in DOMAIN frames : frames[f].first = frames[g].last + 1
<1>1. DOMAIN frames = 1..Len(frames) /\ Len(frames) \in Nat /\ Len(out) \in Nat
  BY FrameFields DEF IInv, TypeOK
<1>2. ASSUME NEW f \in DOMAIN frames
      PROVE  /\ frames[f].first \in Nat /\ frames[f].last \in Nat /\ frames[f].first >= 1
             /\ frames[f].first + 3 + PRE <= frames[f].last
             /\ frames[f].last <= Len(out)
  <2>1. frames[f] \in Interval /\ frames[f].first \in Nat /\ frames[f].last \in Nat
    BY FrameFields DEF IInv
  <2>2. frames[f].first >= 1
    <3>1. \A r \in Interval : r.first \in Nat \ {0}
      BY DEF Interval
    <3> QED
      BY <2>1, <3>1
  <2>3. PICK n \in Nat : frames[f].last = frames[f].first + OEM4HLEN + n + CRCLEN - 1
    BY DEF LengthFields
  <2>4. frames[f].first + 3 + PRE <= frames[f].last
    BY <2>1, <2>3, StreamAssumption
  <2>5. frames[f].last <= Len(out)
    <3>1. frames[f].last # 0
      BY DEF Unfinished
    <3> QED
      BY <3>1 DEF IInv, FramesInOrder
  <2> QED
    BY <2>1, <2>2, <2>4, <2>5
<1>3. ASSUME NEW f \in DOMAIN frames, NEW g \in DOMAIN frames, f # g
      PROVE  frames[f].last < frames[g].first \/ frames[g].last < frames[f].first
  <2>1. frames[f].last # 0 /\ frames[g].last # 0
    BY DEF Unfinished
  <2>2. f < g \/ g < f
    BY <1>1, <1>3
  <2> QED
    BY <2>1, <2>2 DEF IInv, FramesInOrder
<1>4. ASSUME NEW f \in DOMAIN frames, frames[f].first # 1
      PROVE  \E g \in DOMAIN frames : frames[f].first = frames[g].last + 1
  <2>1. f # 1 /\ frames[f].first = frames[f - 1].last + 1
    BY <1>4 DEF SideBySide
  <2>2. f - 1 \in DOMAIN frames
    BY <1>1, <2>1
  <2> QED
    BY <2>1, <2>2
<1> QED
  BY <1>1, <1>2, <1>3, <1>4

-----------------------------------------------------------------------------
(* A frame put behind the last one keeps the stream regular: it holds one  *)
(* synchronisation code, its own, and the byte in front of it is the last  *)
(* of a checksum and part of none.                                         *)
LEMMA SendFrameRegular ==
  ASSUME RegularStream, IInv, Unfinished = {}, StreamRegular,
         NEW msg \in Messages, SendFrame(msg)
  PROVE  StreamRegular'
<1> DEFINE fr == Frame(msg)
           new == [first |-> Len(out) + 1, last |-> Len(out')]
           L == Len(out)
           k == Len(frames)
<1>1. /\ fr \in Seq(Nat) /\ Len(msg) \in Nat
      /\ Len(fr) = OEM4HLEN + Len(msg) + CRCLEN
      /\ SyncAt(fr, 1) /\ LengthIs(fr, 2 + PRE, Len(msg)) /\ fr[Len(fr)] = 0
  BY FrameParts
<1>2. /\ PRE \in Nat /\ PRE >= 1 /\ CRCLEN \in Nat /\ CRCLEN >= 1
      /\ OEM4HLEN \in Nat /\ OEM4HLEN >= 3 + PRE
  BY StreamAssumption
<1>3. /\ \A p \in 2 .. Len(fr) - 2 : ~ SyncAt(fr, p)
      /\ OEM4HLEN + Len(msg) + CRCLEN <= MAXRAWLEN
      /\ OEM4HLEN + Len(msg) + CRCLEN <= MAXSCAN + 2
  BY DEF RegularStream, SyncFree, FramesFit
<1>4. SideBySide /\ LengthFields /\ SyncCodes
  BY DEF StreamRegular
<1>5. /\ DOMAIN frames = 1..k /\ k \in Nat /\ L \in Nat
      /\ \A f \in DOMAIN frames :
           /\ frames[f].first \in Nat /\ frames[f].last \in Nat /\ frames[f].first >= 1
           /\ frames[f].first + 3 + PRE <= frames[f].last
           /\ frames[f].last <= L
  BY <1>4, Layout
<1>6. /\ out \in Seq(Nat) /\ out' = out \o fr
      /\ frames \in Seq(Interval) /\ frames' = Append(frames, new)
  BY DEF IInv, TypeOK, SendFrame, Put
<1>7. /\ out' \in Seq(Nat) /\ Len(out') = L + Len(fr)
      /\ \A i \in 1..L : out'[i] = out[i]
      /\ \A i \in 1..Len(fr) : out'[L + i] = fr[i]
  BY <1>1, <1>6, Joined
<1>8. new \in Interval /\ new.first = L + 1 /\ new.last = Len(out')
  BY <1>5, <1>7 DEF Interval
<1> HIDE DEF fr, new
<1>9. /\ Len(frames') = k + 1 /\ DOMAIN frames' = 1 .. k + 1
      /\ \A f \in DOMAIN frames : frames'[f] = frames[f]
      /\ frames'[k + 1] = new
  BY <1>6, <1>8
<1> HIDE DEF L, k
<1>10. \A f \in DOMAIN frames' : f \in DOMAIN frames \/ f = k + 1
  BY <1>5, <1>9
<1>11. SideBySide'
  <2>1. ASSUME NEW f \in DOMAIN frames'
        PROVE  frames'[f].first = IF f = 1 THEN 1 ELSE frames'[f - 1].last + 1
    <3>1. CASE f \in DOMAIN frames
      <4>1. frames[f].first = IF f = 1 THEN 1 ELSE frames[f - 1].last + 1
        BY <1>4, <3>1 DEF SideBySide
      <4>2. f # 1 => f - 1 \in DOMAIN frames
        BY <1>5, <3>1
      <4> QED
        BY <1>9, <3>1, <4>1, <4>2
    <3>2. CASE f = k + 1 /\ k = 0
      <4>1. L = 0
        BY <1>4, <1>6, <3>2 DEF SideBySide, L, k
      <4> QED
        BY <1>8, <1>9, <3>2, <4>1
    <3>3. CASE f = k + 1 /\ k # 0
      <4>1. L = frames[k].last /\ k \in DOMAIN frames
        BY <1>4, <1>5, <1>6, <3>3 DEF SideBySide, L, k
      <4>2. f # 1 /\ f - 1 = k
        BY <1>5, <3>3
      <4> QED
        BY <1>8, <1>9, <3>3, <4>1, <4>2
    <3> QED
      BY <1>10, <3>1, <3>2, <3>3
  <2>2. Len(out') = IF frames' = << >> THEN 0 ELSE frames'[Len(frames')].last
    BY <1>6, <1>8, <1>9
  <2> QED
    BY <2>1, <2>2 DEF SideBySide
<1>12. LengthFields'
  <2> SUFFICES ASSUME NEW f \in DOMAIN frames'
               PROVE  \E n \in Nat :
                        /\ LengthIs(out', frames'[f].first + 1 + PRE, n)
                        /\ frames'[f].last = frames'[f].first + OEM4HLEN + n + CRCLEN - 1
                        /\ OEM4HLEN + n + CRCLEN <= MAXRAWLEN
                        /\ OEM4HLEN + n + CRCLEN <= MAXSCAN + 2
    BY DEF LengthFields
  <2>1. CASE f \in DOMAIN frames
    <3>1. frames[f].first + 1 + PRE \in 1..L /\ (frames[f].first + 1 + PRE) + 1 \in 1..L
      <4>1. /\ frames[f].first \in Nat /\ frames[f].last \in Nat /\ frames[f].first >= 1
            /\ frames[f].first + 3 + PRE <= frames[f].last /\ frames[f].last <= L
            /\ L \in Nat /\ PRE \in Nat
        BY <1>2, <1>5, <2>1
      <4> QED
        BY <4>1
    <3>2. \A n \in Nat : LengthIs(out, frames[f].first + 1 + PRE, n) =>
                          LengthIs(out', frames[f].first + 1 + PRE, n)
      BY <1>7, <3>1 DEF LengthIs
    <3>3. \E n \in Nat :
             /\ LengthIs(out, frames[f].first + 1 + PRE, n)
             /\ frames[f].last = frames[f].first + OEM4HLEN + n + CRCLEN - 1
             /\ OEM4HLEN + n + CRCLEN <= MAXRAWLEN
             /\ OEM4HLEN + n + CRCLEN <= MAXSCAN + 2
      BY <1>4, <2>1 DEF LengthFields
    <3> QED
      BY <1>9, <2>1, <3>2, <3>3
  <2>2. CASE f = k + 1
    <3>1. frames'[f].first = L + 1 /\ frames'[f].last = L + Len(fr)
      BY <1>7, <1>8, <1>9, <2>2
    <3>2. /\ 2 + PRE \in 1..Len(fr) /\ (L + 1) + 1 + PRE = L + (2 + PRE)
          /\ (2 + PRE) + 1 \in 1..Len(fr) /\ ((L + 1) + 1 + PRE) + 1 = L + ((2 + PRE) + 1)
      <4>1. /\ Len(fr) = OEM4HLEN + Len(msg) + CRCLEN /\ Len(msg) \in Nat /\ CRCLEN \in Nat
            /\ OEM4HLEN \in Nat /\ OEM4HLEN >= 3 + PRE /\ PRE \in Nat /\ L \in Nat
        BY <1>1, <1>2, <1>5
      <4> QED
        BY <4>1
    <3>3. LengthIs(out', (L + 1) + 1 + PRE, Len(msg))
      <4>1. /\ out'[L + (2 + PRE)] = fr[2 + PRE]
            /\ out'[L + ((2 + PRE) + 1)] = fr[(2 + PRE) + 1]
        BY <1>7, <3>2
      <4>2. LengthIs(fr, 2 + PRE, Len(msg))
        BY <1>1
      <4> QED
        BY <3>2, <4>1, <4>2 DEF LengthIs
    <3>4. L + Len(fr) = (L + 1) + OEM4HLEN + Len(msg) + CRCLEN - 1
      BY <1>1, <1>2, <1>5
    <3> QED
      BY <1>1, <1>3, <3>1, <3>3, <3>4
  <2> QED
    BY <1>10, <2>1, <2>2
<1>13. out' # << >> => out'[Len(out')] = 0
  <2>1. Len(fr) \in 1..Len(fr)
    BY <1>1, <1>2
  <2> QED
    BY <1>1, <1>7, <2>1
<1>14. ASSUME NEW p \in 1 .. Len(out') - 2
       PROVE  SyncAt(out', p) <=> \E f \in DOMAIN frames' : frames'[f].first = p
  <2>0. p \in Nat /\ p >= 1 /\ p + 2 <= L + Len(fr) /\ Len(fr) \in Nat /\ Len(fr) >= 5
    <3>1. Len(fr) \in Nat /\ Len(fr) >= 5
      BY <1>1, <1>2
    <3>2. p \in 1 .. (L + Len(fr)) - 2
      BY <1>7
    <3> QED
      BY <1>5, <3>1, <3>2
  <2>1. (\E f \in DOMAIN frames' : frames'[f].first = p)
          <=> (p = L + 1 \/ \E f \in DOMAIN frames : frames[f].first = p)
    <3>1. \A f \in DOMAIN frames : f \in DOMAIN frames'
      BY <1>5, <1>9
    <3>2. k + 1 \in DOMAIN frames'
      BY <1>5, <1>9
    <3> QED
      BY <1>8, <1>9, <1>10, <3>1, <3>2
  <2>2. CASE p + 2 <= L
    <3>1. p \in 1..L /\ p + 1 \in 1..L /\ p + 2 \in 1..L /\ p # L + 1
      BY <1>5, <2>0, <2>2
    <3>2. SyncAt(out', p) <=> SyncAt(out, p)
      BY <1>7, <3>1 DEF SyncAt
    <3>3. p \in 1 .. Len(out) - 2
      BY <1>5, <2>0, <2>2 DEF L
    <3>4. SyncAt(out, p) <=> \E f \in DOMAIN frames : frames[f].first = p
      BY <1>4, <3>3 DEF SyncCodes
    <3> QED
      BY <2>1, <3>1, <3>2, <3>4
  <2>3. CASE p + 2 > L /\ p <= L
    <3>1. ~ SyncAt(out', p)
      <4>1. L \in 1..L
        BY <1>5, <2>0, <2>3
      <4>2. out[L] = 0
        BY <1>4, <1>6, <4>1 DEF SyncCodes, L
      <4>3. out'[L] = 0
        BY <1>7, <4>1, <4>2
      <4>4. p = L \/ p + 1 = L
        BY <1>5, <2>0, <2>3
      <4> QED
        BY <4>3, <4>4 DEF SyncAt
    <3>2. ~ \E f \in DOMAIN frames : frames[f].first = p
      BY <1>2, <1>5, <2>0, <2>3
    <3>3. p # L + 1
      BY <1>5, <2>0, <2>3
    <3> QED
      BY <2>1, <3>1, <3>2, <3>3
  <2>4. CASE p = L + 1
    <3>1. /\ 1 \in 1..Len(fr) /\ 2 \in 1..Len(fr) /\ 3 \in 1..Len(fr)
          /\ p = L + 1 /\ p + 1 = L + 2 /\ p + 2 = L + 3
      BY <1>5, <2>0, <2>4
    <3>2. out'[p] = fr[1] /\ out'[p + 1] = fr[2] /\ out'[p + 2] = fr[3]
      BY <1>7, <3>1
    <3>3. fr[1] = 1 /\ fr[2] = 2 /\ fr[3] = 3
      BY <1>1 DEF SyncAt
    <3> QED
      BY <2>1, <2>4, <3>2, <3>3 DEF SyncAt
  <2>5. CASE p > L + 1
    <3>1. PICK q \in 2 .. Len(fr) - 2 : p = L + q
      <4>1. p - L \in 2 .. Len(fr) - 2 /\ p = L + (p - L)
        BY <1>5, <2>0, <2>5
      <4> QED
        BY <4>1
    <3>2. /\ q \in 1..Len(fr) /\ q + 1 \in 1..Len(fr) /\ q + 2 \in 1..Len(fr)
          /\ p + 1 = L + (q + 1) /\ p + 2 = L + (q + 2)
      BY <1>5, <2>0, <3>1
    <3>3. out'[p] = fr[q] /\ out'[p + 1] = fr[q + 1] /\ out'[p + 2] = fr[q + 2]
      BY <1>7, <3>1, <3>2
    <3>4. ~ SyncAt(fr, q)
      BY <1>3
    <3>5. ~ SyncAt(out', p)
      BY <3>3, <3>4 DEF SyncAt
    <3>6. ~ \E f \in DOMAIN frames : frames[f].first = p
      <4>1. ASSUME NEW f \in DOMAIN frames
            PROVE  frames[f].first <= L
        <5>1. /\ frames[f].first \in Nat /\ frames[f].last \in Nat /\ PRE \in Nat /\ L \in Nat
              /\ frames[f].first + 3 + PRE <= frames[f].last /\ frames[f].last <= L
          BY <1>2, <1>5
        <5> QED
          BY <5>1
      <4> QED
        BY <1>5, <2>0, <2>5, <4>1
    <3>7. p # L + 1
      BY <1>5, <2>0, <2>5
    <3> QED
      BY <2>1, <3>5, <3>6, <3>7
  <2> QED
    BY <1>5, <2>0, <2>2, <2>3, <2>4, <2>5
<1>15. SyncCodes'
  BY <1>13, <1>14 DEF SyncCodes
<1> QED
  BY <1>11, <1>12, <1>15 DEF StreamRegular

-----------------------------------------------------------------------------
(* What the decoder puts behind the last frame is no concern of a reader   *)
(* that is still in front of it.                                           *)
LEMMA SendFrameInStep ==
  ASSUME IInv, Unfinished = {}, StreamRegular, ReaderInStep,
         NEW msg \in Messages, SendFrame(msg)
  PROVE  ReaderInStep'
<1> DEFINE new == [first |-> Len(out) + 1, last |-> Len(out')]
           k == Len(frames)
<1>1. Frame(msg) \in Seq(Nat) /\ Len(Frame(msg)) > 0 /\ Len(Frame(msg)) \in Nat
  BY FrameTyped
<1>2. /\ out' \in Seq(Nat) /\ Len(out') = Len(out) + Len(Frame(msg))
      /\ UNCHANGED << open, rd, pc, begin, need, short, handed, torn >>
  BY <1>1, PutGrows DEF IInv, SendFrame
<1>3. /\ rd \in Nat /\ begin \in Nat /\ begin <= rd /\ rd <= Len(out) /\ Len(out) \in Nat
  BY Counters DEF IInv
<1>4. frames' = Append(frames, new) /\ frames \in Seq(Interval)
  BY DEF SendFrame, IInv, TypeOK
<1>5. new \in Interval /\ new.first = Len(out) + 1 /\ new.last = Len(out')
      /\ new.first \in Nat /\ new.last \in Nat /\ new.first > rd /\ new.last > begin
  BY <1>1, <1>2, <1>3 DEF Interval
<1> HIDE DEF new
<1>6. /\ DOMAIN frames = 1..k /\ k \in Nat /\ DOMAIN frames' = 1 .. k + 1
      /\ \A f \in DOMAIN frames : frames'[f] = frames[f]
      /\ frames'[k + 1] = new
  BY <1>4, <1>5
<1> HIDE DEF k
<1>7. /\ \A f \in DOMAIN frames' : f \in DOMAIN frames \/ f = k + 1
      /\ \A f \in DOMAIN frames : f \in DOMAIN frames'
  BY <1>6
<1>8. Handed' = Handed
  BY <1>2 DEF Handed
<1>9. Accounted'
  <2> SUFFICES ASSUME NEW f \in DOMAIN frames', frames'[f].last <= begin
               PROVE  f \in Handed \cup torn
    BY <1>2, <1>8 DEF Accounted
  <2>1. f # k + 1
    BY <1>3, <1>5, <1>6
  <2> QED
    BY <1>6, <1>7, <2>1 DEF ReaderInStep, Accounted
<1>10. Scanning'
  <2>1. ASSUME NotPast PROVE NotPast'
    <3> SUFFICES ASSUME NEW f \in DOMAIN frames', frames'[f].first > begin
                 PROVE  rd <= frames'[f].first + 1
      BY <1>2 DEF NotPast
    <3>1. CASE f \in DOMAIN frames
      BY <1>6, <2>1, <3>1 DEF NotPast
    <3>2. CASE f = k + 1
      BY <1>3, <1>5, <1>6, <3>2
    <3> QED
      BY <1>7, <3>1, <3>2
  <2>2. ASSUME InTorn PROVE InTorn'
    <3> SUFFICES ASSUME NEW f \in DOMAIN frames', frames'[f].first <= begin,
                        begin < frames'[f].last
                 PROVE  f \in torn /\ frames'[f].first + 3 <= begin
      BY <1>2 DEF InTorn
    <3>1. f # k + 1
      BY <1>3, <1>5, <1>6
    <3> QED
      BY <1>6, <1>7, <2>2, <3>1 DEF InTorn
  <2> QED
    BY <1>2, <2>1, <2>2 DEF ReaderInStep, Scanning
<1>11. InHeader' /\ InBody' /\ NotShort'
  BY <1>2, <1>6, <1>7 DEF ReaderInStep, InHeader, InBody, NotShort
<1> QED
  BY <1>9, <1>10, <1>11 DEF ReaderInStep

(* A call that ends leaves the next one in step, if what lies behind it is *)
(* accounted for and it ends in no frame but one that was cut.             *)
LEMMA ReturnInStep ==
  ASSUME UNCHANGED << frames >>, Return, NEW at \in Nat, rd' = at,
         \A f \in DOMAIN frames : frames[f].first \in Nat,
         \A f \in DOMAIN frames : frames[f].last <= at => f \in Handed' \cup torn',
         \A f \in DOMAIN frames :
           (frames[f].first <= at /\ at < frames[f].last) =>
             f \in torn' /\ frames[f].first + 3 <= at
  PROVE  ReaderInStep'
<1>1. begin' = at /\ pc' = "idle" /\ ~ short'
  BY DEF Return
<1>2. Accounted' /\ InTorn'
  BY <1>1 DEF Accounted, InTorn
<1>3. NotPast'
  BY <1>1 DEF NotPast
<1>4. Scanning' /\ InHeader' /\ InBody' /\ NotShort'
  BY <1>1, <1>2, <1>3 DEF Scanning, InHeader, InBody, NotShort
<1> QED
  BY <1>2, <1>4 DEF ReaderInStep

LEMMA CallInStep ==
  ASSUME LossInv, Unfinished = {}, Call
  PROVE  ReaderInStep'
<1>1. /\ pc = "idle" /\ pc' = "sync"
      /\ UNCHANGED << frames, rd, begin, need, short, handed, torn >>
  BY DEF Call, feed
<1>2. ReaderInStep /\ NotPast /\ InTorn
  BY <1>1 DEF LossInv, InStep, ReaderInStep, Scanning
<1>3. Handed' = Handed
  BY <1>1 DEF Handed
<1>4. Accounted'
  BY <1>1, <1>2, <1>3 DEF ReaderInStep, Accounted
<1>5. NotPast' /\ InTorn'
  BY <1>1, <1>2 DEF NotPast, InTorn
<1>6. Scanning' /\ InHeader' /\ InBody' /\ NotShort'
  BY <1>1, <1>2, <1>5 DEF ReaderInStep, Scanning, InHeader, InBody, NotShort
<1> QED
  BY <1>4, <1>6 DEF ReaderInStep

(* The FIFO hangs up only at the end of a frame, unless one was torn; a    *)
(* call in the middle of a frame does not see it.                          *)
LEMMA HungUpInStep ==
  ASSUME LossInv, Unfinished = {}, HungUp
  PROVE  ReaderInStep'
<1>1. /\ pc \in {"sync", "header", "body"} /\ Waiting = 0 /\ ~ open /\ Return
      /\ rd' = rd /\ UNCHANGED << frames, handed, torn >>
  BY DEF HungUp, AtEnd, feed
<1>2. IInv /\ StreamRegular /\ ReaderInStep /\ SideBySide /\ LengthFields
  BY DEF LossInv, InStep, StreamRegular
<1>3. /\ rd \in Nat /\ vis \in Nat /\ begin \in Nat /\ begin <= rd /\ need \in Nat
      /\ Waiting = vis - rd /\ Len(out) \in Nat
  BY <1>2, Counters DEF IInv, Waiting
<1>4. rd = Len(out)
  BY <1>1, <1>3 DEF LossInv, HeldBack
<1>5. /\ PRE \in Nat
      /\ \A f \in DOMAIN frames :
           /\ frames[f].first \in Nat /\ frames[f].last \in Nat
           /\ frames[f].first + 3 + PRE <= frames[f].last
           /\ frames[f].last <= Len(out)
  BY <1>2, Layout, StreamAssumption
<1>6. pc = "sync"
  <2>1. CASE pc = "header"
    <3>1. PICK f \in DOMAIN frames : frames[f].first = begin + 1 /\ rd = begin + 3
      BY <1>2, <2>1 DEF ReaderInStep, InHeader
    <3>2. /\ frames[f].first \in Nat /\ frames[f].last \in Nat /\ PRE \in Nat
          /\ frames[f].first + 3 + PRE <= frames[f].last /\ frames[f].last <= Len(out)
      BY <1>5
    <3> QED
      BY <1>3, <1>4, <3>1, <3>2
  <2>2. CASE pc = "body"
    <3>1. PICK f \in DOMAIN frames :
            /\ need >= 1 /\ (short => rd + need < frames[f].last)
            /\ (~ short => rd + need = frames[f].last)
      BY <1>2, <2>2 DEF ReaderInStep, InBody
    <3>2. rd + need <= frames[f].last
      BY <1>3, <1>5, <3>1
    <3> QED
      BY <1>3, <1>4, <1>5, <3>1, <3>2
  <2> QED
    BY <1>1, <2>1, <2>2
<1>7. NotPast /\ InTorn /\ Accounted
  BY <1>2, <1>6 DEF ReaderInStep, Scanning
<1>8. ASSUME NEW f \in DOMAIN frames
      PROVE  f \in Handed \cup torn
  <2>1. frames[f].first <= begin
    BY <1>3, <1>4, <1>5, <1>7 DEF NotPast
  <2>2. CASE frames[f].last <= begin
    BY <1>7, <2>2 DEF Accounted
  <2>3. CASE begin < frames[f].last
    BY <1>7, <2>1, <2>3 DEF InTorn
  <2> QED
    BY <1>3, <1>5, <2>2, <2>3
<1>9. Handed' = Handed
  BY <1>1 DEF Handed
<1>10. \A f \in DOMAIN frames : ~ (rd < frames[f].last)
  BY <1>3, <1>4, <1>5
<1> QED
  BY <1>1, <1>3, <1>5, <1>8, <1>9, <1>10, ReturnInStep

(* A scan stops at the next synchronisation code.  It never gives up       *)
(* within one: the frame it began in ends too early for that.              *)
LEMMA ReadSyncInStep ==
  ASSUME RegularStream, LossInv, Unfinished = {}, ReadSync
  PROVE  ReaderInStep'
<1>1. /\ pc = "sync" /\ Waiting > 0 /\ rd' = rd + 1
      /\ UNCHANGED << out, frames, handed, torn >>
  BY DEF ReadSync, feed
<1>2. IInv /\ StreamRegular /\ ReaderInStep /\ SideBySide /\ LengthFields /\ SyncCodes
  BY DEF LossInv, InStep, StreamRegular
<1>3. /\ rd \in Nat /\ vis \in Nat /\ begin \in Nat /\ begin <= rd
      /\ rd + 1 <= Len(out) /\ Len(out) \in Nat /\ out \in Seq(Nat) /\ rd + 1 \in Nat
  BY <1>1, <1>2, Counters DEF IInv, TypeOK, Waiting
<1>4. /\ \A f \in DOMAIN frames :
           /\ frames[f].first \in Nat /\ frames[f].last \in Nat /\ frames[f].first >= 1
           /\ frames[f].first + 4 <= frames[f].last /\ frames[f].last <= Len(out)
      /\ \A f, g \in DOMAIN frames :
              \/ f = g
              \/ frames[f].last < frames[g].first
              \/ frames[g].last < frames[f].first
      /\ \A f \in DOMAIN frames :
              \/ frames[f].first = 1
              \/ \E g \in DOMAIN frames : frames[f].first = frames[g].last + 1
  <2>1. \A f \in DOMAIN frames :
          /\ frames[f].first \in Nat /\ frames[f].last \in Nat /\ frames[f].first >= 1
          /\ frames[f].first + 3 + PRE <= frames[f].last /\ frames[f].last <= Len(out)
    BY <1>2, Layout
  <2>2. PRE \in Nat /\ PRE >= 1
    BY StreamAssumption
  <2>3. \A f \in DOMAIN frames : frames[f].first + 4 <= frames[f].last
    BY <2>1, <2>2
  <2> QED
    BY <1>2, <2>1, <2>3, Layout
<1>5. NotPast /\ InTorn /\ Accounted /\ ~ short
  BY <1>1, <1>2 DEF ReaderInStep, Scanning, NotShort
<1>6. Handed' = Handed
  BY <1>1 DEF Handed
<1>7. sync_oem4 => \E f \in DOMAIN frames : frames[f].first = rd - 1 /\ begin <= rd - 2
  <2> SUFFICES ASSUME sync_oem4
               PROVE  \E f \in DOMAIN frames : frames[f].first = rd - 1 /\ begin <= rd - 2
    OBVIOUS
  <2>1. /\ rd - 1 \in Nat /\ 1 <= rd - 1 /\ (rd - 1) + 2 = rd + 1
        /\ rd - 1 \in 1 .. Len(out) - 2 /\ begin <= rd - 2
    BY <1>3 DEF sync_oem4
  <2>2. SyncAt(out, rd - 1)
    BY <1>3, <2>1, SyncWindow DEF sync_oem4
  <2> QED
    BY <1>2, <2>1, <2>2 DEF SyncCodes
<1>8. ASSUME ~ sync_oem4, NEW f \in DOMAIN frames, frames[f].first > begin
      PROVE  rd + 1 <= frames[f].first + 1
  <2>1. rd <= frames[f].first + 1
    BY <1>5, <1>8 DEF NotPast
  <2> SUFFICES ASSUME rd = frames[f].first + 1 PROVE FALSE
    BY <1>3, <1>4, <2>1
  <2>2. /\ frames[f].first = rd - 1 /\ rd - 1 \in Nat /\ 1 <= rd - 1 /\ (rd - 1) + 2 = rd + 1
        /\ rd - 1 \in 1 .. Len(out) - 2 /\ rd + 1 - begin >= 3
    <3>1. frames[f].first \in Nat /\ frames[f].first >= 1
      BY <1>4
    <3>2. rd - 1 = frames[f].first /\ rd >= begin + 2
      BY <1>3, <1>8, <3>1
    <3>3. rd + 1 - begin >= 3
      BY <1>3, <3>2
    <3>4. rd - 1 \in Nat /\ 1 <= rd - 1 /\ (rd - 1) + 2 = rd + 1
      BY <1>3, <3>1, <3>2
    <3>5. rd - 1 \in 1 .. Len(out) - 2
      BY <1>3, <3>4
    <3> QED
      BY <3>2, <3>3, <3>4, <3>5
  <2>3. SyncAt(out, rd - 1)
    BY <1>2, <2>2 DEF SyncCodes
  <2>4. SubSeq(out, rd - 1, rd + 1) = SYNC
    BY <1>3, <2>2, <2>3, SyncWindow
  <2> QED
    BY <1>8, <2>2, <2>4 DEF sync_oem4
<1>9. CASE sync_oem4 /\ pc' = "header" /\ begin' = rd' - 3 /\ UNCHANGED << need, short >>
  <2>1. PICK f \in DOMAIN frames : frames[f].first = rd - 1 /\ begin <= rd - 2
    BY <1>7, <1>9
  <2>2. begin' = rd - 2 /\ rd - 2 \in Nat
    BY <1>1, <1>3, <1>4, <1>9, <2>1
  <2>3. ASSUME NEW g \in DOMAIN frames, frames[g].last <= rd - 2
        PROVE  g \in Handed \cup torn
    <3>1. frames[g].first <= begin
      <4>1. frames[g].first \in Nat /\ frames[g].first + 4 <= frames[g].last
            /\ frames[g].last \in Nat
        BY <1>4
      <4> SUFFICES ASSUME frames[g].first > begin PROVE FALSE
        BY <1>3, <4>1
      <4>2. rd <= frames[g].first + 1
        BY <1>5 DEF NotPast
      <4> QED
        BY <1>3, <2>3, <4>1, <4>2
    <3>2. CASE frames[g].last <= begin
      BY <1>5, <3>2 DEF Accounted
    <3>3. CASE begin < frames[g].last
      BY <1>5, <3>1, <3>3 DEF InTorn
    <3> QED
      BY <1>3, <1>4, <3>2, <3>3
  <2>4. Accounted'
    BY <1>1, <1>6, <2>2, <2>3 DEF Accounted
  <2>5. InHeader'
    <3>1. frames[f].first = (rd - 2) + 1 /\ rd + 1 = (rd - 2) + 3
      BY <1>3, <2>1
    <3>2. frames'[f].first = begin' + 1 /\ rd' = begin' + 3
      BY <1>1, <2>2, <3>1
    <3> QED
      BY <1>1, <3>2 DEF InHeader
  <2>6. Scanning' /\ InBody' /\ NotShort'
    BY <1>5, <1>9 DEF Scanning, InBody, NotShort
  <2> QED
    BY <2>4, <2>5, <2>6 DEF ReaderInStep
<1>10. CASE ~ sync_oem4 /\ UNCHANGED << pc, begin, need, short >>
  <2>1. NotPast'
    BY <1>1, <1>8, <1>10 DEF NotPast
  <2>2. InTorn' /\ Accounted'
    BY <1>1, <1>5, <1>6, <1>10 DEF InTorn, Accounted
  <2>3. Scanning' /\ InHeader' /\ InBody' /\ NotShort'
    BY <1>1, <1>5, <1>10, <2>1, <2>2 DEF Scanning, InHeader, InBody, NotShort
  <2> QED
    BY <2>2, <2>3 DEF ReaderInStep
<1>11. CASE ~ sync_oem4 /\ rd' - begin > MAXSCAN /\ Return
  <2>1. rd + 1 > begin + MAXSCAN /\ MAXSCAN \in Nat
    <3>1. (rd + 1) - begin > MAXSCAN
      BY <1>1, <1>11, Zenon
    <3> QED
      BY <1>3, <3>1, StreamAssumption
  <2>2. ASSUME NEW f \in DOMAIN frames, frames[f].first <= rd + 1
        PROVE  frames[f].first <= begin
    <3> SUFFICES ASSUME frames[f].first > begin PROVE FALSE
      BY <1>3, <1>4
    <3>1. rd + 1 <= frames[f].first + 1
      BY <1>8, <1>11
    <3>2. frames[f].last - frames[f].first + 1 <= MAXSCAN + 2
      <4>1. PICK n \in Nat :
              /\ frames[f].last = frames[f].first + OEM4HLEN + n + CRCLEN - 1
              /\ OEM4HLEN + n + CRCLEN <= MAXSCAN + 2
        BY <1>2 DEF LengthFields
      <4> QED
        BY <1>4, <2>1, <4>1, StreamAssumption
    <3>3. CASE frames[f].first = 1
      BY <1>3, <1>4, <2>1, <3>1, <3>2, <3>3
    <3>4. CASE \E g \in DOMAIN frames : frames[f].first = frames[g].last + 1
      <4>1. PICK g \in DOMAIN frames : frames[f].first = frames[g].last + 1
        BY <3>4
      <4>2. frames[g].first <= begin
        <5> SUFFICES ASSUME frames[g].first > begin PROVE FALSE
          BY <1>3, <1>4
        <5>1. rd + 1 <= frames[g].first + 1
          BY <1>8, <1>11
        <5> QED
          BY <1>3, <1>4, <2>2, <4>1, <5>1
      <4>3. CASE begin < frames[g].last
        <5>1. frames[g].first + 3 <= begin
          BY <1>5, <4>2, <4>3 DEF InTorn
        <5>2. PICK n \in Nat :
                /\ frames[g].last = frames[g].first + OEM4HLEN + n + CRCLEN - 1
                /\ OEM4HLEN + n + CRCLEN <= MAXSCAN + 2
          BY <1>2 DEF LengthFields
        <5>3. /\ frames[g].first \in Nat /\ frames[g].last \in Nat /\ frames[f].first \in Nat
              /\ OEM4HLEN \in Nat /\ CRCLEN \in Nat
          BY <1>4, StreamAssumption
        <5>4. frames[g].last <= frames[g].first + MAXSCAN + 1
          BY <2>1, <5>2, <5>3
        <5>5. rd <= frames[g].last + 1
          BY <1>3, <3>1, <4>1, <5>3
        <5>6. rd + 1 <= begin + MAXSCAN
          BY <1>3, <2>1, <5>1, <5>3, <5>4, <5>5
        <5> QED
          BY <1>3, <2>1, <5>6
      <4>4. CASE frames[g].last <= begin
        <5>1. /\ frames[f].first \in Nat /\ frames[f].last \in Nat /\ frames[g].last \in Nat
              /\ frames[f].first + 4 <= frames[f].last
          BY <1>4
        <5>2. MAXSCAN >= 3
          BY <2>1, <3>2, <5>1
        <5>3. rd <= begin + 1
          BY <1>3, <3>1, <4>1, <4>4, <5>1
        <5> QED
          BY <1>3, <2>1, <5>2, <5>3
      <4> QED
        BY <1>3, <1>4, <4>3, <4>4
    <3> QED
      BY <1>4, <3>3, <3>4
  <2>3. ASSUME NEW f \in DOMAIN frames, frames[f].last <= rd + 1
        PROVE  f \in Handed \cup torn
    <3>1. frames[f].first <= begin
      BY <1>3, <1>4, <2>2, <2>3
    <3>2. CASE frames[f].last <= begin
      BY <1>5, <3>2 DEF Accounted
    <3>3. CASE begin < frames[f].last
      BY <1>5, <3>1, <3>3 DEF InTorn
    <3> QED
      BY <1>3, <1>4, <3>2, <3>3
  <2>4. ASSUME NEW f \in DOMAIN frames, frames[f].first <= rd + 1, rd + 1 < frames[f].last
        PROVE  f \in torn /\ frames[f].first + 3 <= rd + 1
    <3>1. frames[f].first <= begin /\ begin < frames[f].last
      BY <1>3, <1>4, <2>2, <2>4
    <3>2. f \in torn /\ frames[f].first + 3 <= begin
      BY <1>5, <3>1 DEF InTorn
    <3> QED
      BY <1>3, <1>4, <3>2
  <2> QED
    BY <1>1, <1>3, <1>4, <1>6, <1>11, <2>3, <2>4, ReturnInStep
<1> QED
  BY <1>9, <1>10, <1>11 DEF ReadSync

(* A header that was read whole tells where its frame ends.  One that was  *)
(* not counts as one of a message no longer than it is, and begins later:  *)
(* the read that follows does not reach the end of the frame.              *)
LEMMA ReadHeaderInStep ==
  ASSUME LossInv, Unfinished = {}, ReadHeader
  PROVE  ReaderInStep'
<1> DEFINE got == Min2(PRE, Waiting)
           len == OEM4HLEN + LengthAt(rd + PRE - 1, got)
           skip == 3 + PRE - CRCLEN
<1>1. /\ pc = "header" /\ Waiting > 0 /\ rd' = rd + got
      /\ UNCHANGED << out, frames, handed >>
      /\ torn' = IF got < PRE THEN torn \cup Cut(rd') ELSE torn
      /\ \/ len > MAXRAWLEN - CRCLEN
         \/ pc' = "body" /\ need' = len - skip /\ short' = (got # PRE) /\ UNCHANGED begin
  BY DEF ReadHeader, Header, feed
<1>2. IInv /\ StreamRegular /\ ReaderInStep /\ SideBySide /\ LengthFields
  BY DEF LossInv, InStep, StreamRegular
<1>3. rd \in Nat /\ vis \in Nat /\ begin \in Nat /\ Waiting \in Nat
  BY <1>2, Counters DEF IInv
<1>4. /\ PRE \in Nat /\ PRE >= 2 /\ CRCLEN \in Nat /\ CRCLEN >= 1
      /\ OEM4HLEN \in Nat /\ OEM4HLEN >= 3 + PRE /\ MAXRAWLEN \in Nat
  BY StreamAssumption
<1>5. got \in Nat /\ 1 <= got /\ got <= PRE
  BY <1>1, <1>3, <1>4 DEF Min2
<1>6. PICK f \in DOMAIN frames : frames[f].first = begin + 1 /\ rd = begin + 3
  BY <1>1, <1>2 DEF ReaderInStep, InHeader
<1>7. PICK n \in Nat : /\ LengthIs(out, frames[f].first + 1 + PRE, n)
                       /\ frames[f].last = frames[f].first + OEM4HLEN + n + CRCLEN - 1
                       /\ OEM4HLEN + n + CRCLEN <= MAXRAWLEN
  BY <1>2 DEF LengthFields
<1>8. frames[f].last = begin + OEM4HLEN + n + CRCLEN /\ frames[f].last \in Nat
      /\ frames[f].first \in Nat
  BY <1>3, <1>4, <1>6, <1>7
<1>9. LengthIs(out, rd + PRE - 1, n)
  <2>1. frames[f].first + 1 + PRE = rd + PRE - 1
    BY <1>3, <1>4, <1>6
  <2> QED
    BY <1>7, <2>1
<1>10. \E k \in 0..n : len = OEM4HLEN + k /\ (got = PRE => k = n)
  <2> DEFINE k == LengthAt(rd + PRE - 1, got)
  <2> HIDE DEF got
  <2>1. k \in 0..n /\ (got = PRE => k = n)
    BY <1>4, <1>5, <1>9 DEF LengthAt, LengthIs
  <2> HIDE DEF k
  <2>2. len = OEM4HLEN + k
    BY DEF k
  <2> QED
    BY <2>1, <2>2
<1> HIDE DEF got, len, skip
<1>11. len \in Nat /\ len <= OEM4HLEN + n /\ len >= OEM4HLEN
  BY <1>4, <1>10
<1>12. ~ (len > MAXRAWLEN - CRCLEN)
  BY <1>4, <1>7, <1>11
<1>13. pc' = "body" /\ need' = len - skip /\ short' = (got # PRE) /\ begin' = begin
  BY <1>1, <1>12
<1>14. len - skip \in Nat /\ len - skip >= 1 /\ len - skip = (len + CRCLEN) - (3 + PRE)
  BY <1>4, <1>11 DEF skip
<1>15. rd + got >= begin + 4 /\ rd + got \in Nat
  BY <1>3, <1>5, <1>6
<1>16. Handed' = Handed
  BY <1>1 DEF Handed
<1>17. torn \subseteq torn'
  BY <1>1
<1>18. Accounted'
  BY <1>1, <1>2, <1>13, <1>16, <1>17 DEF ReaderInStep, Accounted
<1>19. InBody'
  <2>1. CASE got = PRE
    <3>1. ~ short'
      BY <1>13, <2>1
    <3>2. (rd + got) + (len - skip) = frames[f].last
      BY <1>3, <1>4, <1>6, <1>8, <1>10, <1>14, <2>1
    <3>3. frames'[f].first = begin' + 1 /\ rd' >= begin' + 4 /\ need' >= 1
          /\ rd' + need' = frames'[f].last /\ f \in DOMAIN frames'
      BY <1>1, <1>6, <1>13, <1>14, <1>15, <3>2
    <3> QED
      BY <3>1, <3>3 DEF InBody
  <2>2. CASE got # PRE
    <3>1. short'
      BY <1>13, <2>2
    <3>2. got < PRE
      BY <1>4, <1>5, <2>2
    <3>3. (rd + got) + (len - skip) < frames[f].last
      BY <1>3, <1>4, <1>5, <1>6, <1>8, <1>10, <1>14, <3>2
    <3>4. f \in Cut(rd + got)
      BY <1>3, <1>6, <1>8, <1>14, <1>15, <3>3 DEF Cut
    <3>5. f \in torn'
      BY <1>1, <3>2, <3>4
    <3>6. frames'[f].first = begin' + 1 /\ rd' >= begin' + 4 /\ need' >= 1
          /\ rd' + need' < frames'[f].last /\ f \in DOMAIN frames'
      BY <1>1, <1>6, <1>13, <1>14, <1>15, <3>3
    <3> QED
      BY <3>1, <3>5, <3>6 DEF InBody
  <2> QED
    BY <2>1, <2>2
<1>20. Scanning' /\ InHeader' /\ NotShort'
  BY <1>13 DEF Scanning, InHeader, NotShort
<1> QED
  BY <1>18, <1>19, <1>20 DEF ReaderInStep

(* The last read of a call ends with the frame, which is then handed over, *)
(* or within a frame that it or the read before it cut.                    *)
LEMMA ReadBodyInStep ==
  ASSUME LossInv, Unfinished = {}, ReadBody
  PROVE  ReaderInStep'
<1> DEFINE got == Min2(need, Waiting)
           good == crc_ok(rd + got, short \/ got < need)
           new == CHOOSE f \in good : TRUE
<1>1. /\ pc = "body" /\ Waiting > 0 /\ rd' = rd + got /\ Return
      /\ UNCHANGED << out, frames >>
      /\ torn' = IF got < need THEN torn \cup Cut(rd') ELSE torn
      /\ handed' = IF good = {} THEN handed ELSE Append(handed, new)
  BY DEF ReadBody, feed
<1>2. IInv /\ StreamRegular /\ ReaderInStep /\ SideBySide /\ LengthFields
  BY DEF LossInv, InStep, StreamRegular
<1>3. rd \in Nat /\ vis \in Nat /\ begin \in Nat /\ need \in Nat /\ Waiting \in Nat
  BY <1>2, Counters DEF IInv
<1>4. /\ \A f \in DOMAIN frames :
           /\ frames[f].first \in Nat /\ frames[f].last \in Nat
           /\ frames[f].first + 3 <= frames[f].last
      /\ \A f, g \in DOMAIN frames :
              \/ f = g
              \/ frames[f].last < frames[g].first
              \/ frames[g].last < frames[f].first
      /\ DOMAIN frames = 1..Len(frames) /\ Len(frames) \in Nat
  <2>1. PRE \in Nat
    BY StreamAssumption
  <2>2. \A f \in DOMAIN frames :
           /\ frames[f].first \in Nat /\ frames[f].last \in Nat
           /\ frames[f].first + 3 + PRE <= frames[f].last
    BY <1>2, Layout
  <2>3. \A f \in DOMAIN frames : frames[f].first + 3 <= frames[f].last
    BY <2>1, <2>2
  <2> QED
    BY <1>2, <2>2, <2>3, Layout
<1>5. PICK f \in DOMAIN frames :
        /\ frames[f].first = begin + 1 /\ rd >= begin + 4 /\ need >= 1
        /\ short => f \in torn /\ rd + need < frames[f].last
        /\ ~ short => rd + need = frames[f].last
  BY <1>1, <1>2 DEF ReaderInStep, InBody
<1>6. got \in Nat /\ 1 <= got /\ got <= need
  BY <1>1, <1>3, <1>5 DEF Min2
<1>7. frames[f].first \in Nat /\ frames[f].last \in Nat
      /\ frames[f].first + 3 <= frames[f].last
  BY <1>4
<1>8. good = Whole(rd + got, short \/ got < need)
  BY DEF crc_ok
<1> HIDE DEF got, good, new
<1>9. rd + got \in Nat /\ rd + got > begin + 4 /\ rd + got <= frames[f].last
  <2>1. rd + need <= frames[f].last
    BY <1>3, <1>5, <1>7
  <2> QED
    BY <1>3, <1>5, <1>6, <1>7, <2>1
<1>10. handed \in Seq(Nat) /\ Handed \subseteq Handed'
  <2>1. handed \in Seq(Nat)
    BY <1>2 DEF IInv, TypeOK
  <2>2. CASE good = {}
    BY <1>1, <2>1, <2>2 DEF Handed
  <2>3. CASE good # {}
    <3>1. new \in DOMAIN frames
      BY <1>8, <2>3 DEF Whole, new
    <3>2. new \in Nat /\ handed' = Append(handed, new)
      BY <1>1, <1>4, <2>3, <3>1
    <3>3. /\ Len(handed') = Len(handed) + 1
          /\ \A i \in 1..Len(handed) : handed'[i] = handed[i]
      BY <2>1, <3>2
    <3>4. DOMAIN handed = 1..Len(handed) /\ Len(handed) \in Nat
          /\ DOMAIN handed' = 1 .. Len(handed) + 1
      BY <2>1, <3>2
    <3>5. \A i \in DOMAIN handed : i \in DOMAIN handed' /\ handed'[i] = handed[i]
      BY <3>3, <3>4
    <3> QED
      BY <2>1, <3>5 DEF Handed
  <2> QED
    BY <2>2, <2>3
<1>11. torn \subseteq torn'
  BY <1>1
(* The frames before this one lie behind begin. *)
<1>12. ASSUME NEW g \in DOMAIN frames, frames[g].last <= rd + got, g # f
       PROVE  g \in Handed' \cup torn'
  <2>1. frames[g].first \in Nat /\ frames[g].last \in Nat
        /\ frames[g].first + 3 <= frames[g].last
    BY <1>4
  <2>2. frames[g].last < frames[f].first
    <3>1. ~ (frames[f].last < frames[g].first)
      BY <1>7, <1>9, <1>12, <2>1
    <3> QED
      BY <1>4, <1>12, <3>1
  <2>3. frames[g].last <= begin
    BY <1>3, <1>5, <2>1, <2>2
  <2> QED
    BY <1>2, <1>10, <1>11, <2>3 DEF ReaderInStep, Accounted
<1>13. ASSUME NEW g \in DOMAIN frames, frames[g].first <= rd + got, rd + got < frames[g].last
       PROVE  g = f
  <2>1. frames[g].first \in Nat /\ frames[g].last \in Nat
    BY <1>4
  <2>2. ~ (frames[f].last < frames[g].first)
    BY <1>7, <1>9, <1>13, <2>1
  <2>3. ~ (frames[g].last < frames[f].first)
    BY <1>3, <1>5, <1>9, <1>13, <2>1
  <2> QED
    BY <1>4, <2>2, <2>3
<1>14. CASE ~ short /\ got = need
  <2>1. rd + got = frames[f].last
    BY <1>5, <1>14
  <2>2. f \in good
    BY <1>3, <1>5, <1>6, <1>7, <1>8, <1>14, <2>1 DEF Whole
  <2>3. new = f
    <3>1. new \in DOMAIN frames /\ frames[new].first = begin + 1
      BY <1>8, <2>2 DEF Whole, new
    <3>2. frames[new].last \in Nat /\ frames[new].first + 3 <= frames[new].last
      BY <1>4, <3>1
    <3>3. ~ (frames[f].last < frames[new].first) /\ ~ (frames[new].last < frames[f].first)
      BY <1>3, <1>5, <1>7, <3>1, <3>2
    <3> QED
      BY <1>4, <3>1, <3>3
  <2>4. f \in Handed'
    <3>1. handed' = Append(handed, f) /\ f \in Nat
      BY <1>1, <1>4, <2>2, <2>3
    <3>2. /\ Len(handed) + 1 \in DOMAIN handed' /\ handed'[Len(handed) + 1] = f
      BY <1>10, <3>1
    <3> QED
      BY <3>2 DEF Handed
  <2>5. \A g \in DOMAIN frames : ~ (frames[g].first <= rd + got /\ rd + got < frames[g].last)
    BY <1>7, <1>13, <2>1
  <2>6. \A g \in DOMAIN frames : frames[g].last <= rd + got => g \in Handed' \cup torn'
    BY <1>12, <2>4
  <2> QED
    BY <1>1, <1>4, <1>9, <2>5, <2>6, ReturnInStep
<1>15. CASE short \/ got < need
  <2>1. rd + got < frames[f].last
    <3>1. CASE short
      BY <1>3, <1>5, <1>6, <1>7, <3>1
    <3>2. CASE ~ short
      BY <1>3, <1>5, <1>6, <1>7, <1>15, <3>2
    <3> QED
      BY <3>1, <3>2
  <2>2. f \in torn'
    <3>1. CASE short
      BY <1>5, <1>11, <3>1
    <3>2. CASE got < need
      <4>1. f \in Cut(rd + got)
        BY <1>3, <1>5, <1>9, <2>1 DEF Cut
      <4> QED
        BY <1>1, <3>2, <4>1
    <3> QED
      BY <1>15, <3>1, <3>2
  <2>3. \A g \in DOMAIN frames : frames[g].last <= rd + got => g \in Handed' \cup torn'
    BY <1>12, <2>2
  <2>4. frames[f].first + 3 <= rd + got
    BY <1>3, <1>5, <1>9
  <2>5. \A g \in DOMAIN frames :
          (frames[g].first <= rd + got /\ rd + got < frames[g].last) =>
            g \in torn' /\ frames[g].first + 3 <= rd + got
    BY <1>13, <2>2, <2>4
  <2> QED
    BY <1>1, <1>4, <1>9, <2>3, <2>5, ReturnInStep
<1> QED
  <2>1. got = need \/ got < need
    BY <1>3, <1>6
  <2> QED
    BY <1>14, <1>15, <2>1

-----------------------------------------------------------------------------
LEMMA InitLossInv == Init => LossInv
<1> SUFFICES ASSUME Init PROVE LossInv
  OBVIOUS
<1>1. IInv /\ HeldBack
  BY InitIInv DEF Init, HeldBack
<1>2. frames = << >> /\ out = << >> /\ Len(out) = 0 /\ DOMAIN frames = {}
  BY DEF Init
<1>3. 1 .. Len(out) - 2 = {}
  BY <1>2
<1>4. StreamRegular
  BY <1>2, <1>3 DEF StreamRegular, SideBySide, LengthFields, SyncCodes
<1>5. pc = "idle" /\ begin = rd /\ ~ short
  BY DEF Init
<1>6. ReaderInStep
  BY <1>2, <1>5 DEF ReaderInStep, Accounted, Scanning, NotPast, InTorn, InHeader, InBody,
                    NotShort
<1> QED
  BY <1>1, <1>4, <1>6 DEF LossInv, InStep

(* Steps of the reader leave the stream as it is. *)
LEMMA ReaderLeavesStream ==
  ASSUME LossInv, UNCHANGED feed, Unfinished = {} => ReaderInStep'
  PROVE  HeldBack' /\ InStep'
<1>1. UNCHANGED << out, vis, frames, open >>
  BY DEF feed
<1>2. HeldBack'
  BY <1>1 DEF LossInv, HeldBack
<1>3. Unfinished' = Unfinished
  BY <1>1 DEF Unfinished
<1>4. StreamRegular => StreamRegular'
  BY <1>1 DEF StreamRegular, SideBySide, LengthFields, SyncCodes
<1> QED
  BY <1>2, <1>3, <1>4 DEF LossInv, InStep

(* Steps that leave the frames and the reader as they are. *)
LEMMA OthersLeaveStep ==
  ASSUME LossInv, UNCHANGED << out, frames, reader >>
  PROVE  InStep'
<1>1. UNCHANGED << rd, pc, begin, need, short, handed, torn >>
  BY DEF reader
<1>2. Unfinished' = Unfinished /\ Handed' = Handed
  BY <1>1 DEF Unfinished, Handed
<1>3. StreamRegular => StreamRegular'
  BY DEF StreamRegular, SideBySide, LengthFields, SyncCodes
<1>4. Accounted => Accounted'
  BY <1>1, <1>2 DEF Accounted
<1>5. Scanning => Scanning'
  BY <1>1 DEF Scanning, NotPast, InTorn
<1>6. (InHeader => InHeader') /\ (InBody => InBody') /\ (NotShort => NotShort')
  BY <1>1 DEF InHeader, InBody, NotShort
<1> QED
  BY <1>2, <1>3, <1>4, <1>5, <1>6 DEF LossInv, InStep, ReaderInStep

(* A decoder that dies between two frames changes nothing but that.        *)
LEMMA DieInStep ==
  ASSUME LossInv, Die
  PROVE  HeldBack' /\ InStep'
<1>1. /\ open' = FALSE /\ out' = SubSeq(out, 1, vis) /\ UNCHANGED << vis, reader >>
      /\ frames' = [f \in DOMAIN frames |->
                      IF frames[f].last > vis THEN [frames[f] EXCEPT !.last = 0]
                                              ELSE frames[f]]
  BY DEF Die
<1>2. out \in Seq(Nat) /\ Len(out) \in Nat /\ vis \in 0 .. Len(out) /\ vis \in Nat
      /\ frames \in Seq(Interval)
  BY DEF LossInv, IInv, TypeOK
<1>3. HeldBack'
  BY <1>1, <1>2 DEF HeldBack
<1>4. ASSUME Unfinished' = {} PROVE UNCHANGED << out, frames >>
  <2>1. DOMAIN frames = 1..Len(frames) /\ Len(frames) \in Nat
        /\ \A f \in DOMAIN frames : frames[f] \in Interval /\ frames[f].last \in Nat
    BY FrameFields DEF LossInv, IInv
  <2>2. ASSUME NEW f \in DOMAIN frames PROVE frames[f].last <= vis
    <3> SUFFICES ASSUME frames[f].last > vis PROVE FALSE
      BY <1>2, <2>1
    <3>1. frames'[f] = [frames[f] EXCEPT !.last = 0] /\ f \in DOMAIN frames'
      BY <1>1
    <3>2. \A r \in Interval : [r EXCEPT !.last = 0].last = 0
      BY DEF Interval
    <3>3. frames'[f].last = 0
      BY <2>1, <3>1, <3>2
    <3> QED
      BY <1>4, <3>1, <3>3 DEF Unfinished
  <2>3. frames' = [f \in DOMAIN frames |-> frames[f]]
    BY <1>1, <1>2, <2>1, <2>2
  <2>4. frames' = frames
    BY <1>2, <2>3
  <2>5. SideBySide
    <3>1. Unfinished = {}
      BY <1>4, <2>4 DEF Unfinished
    <3> QED
      BY <3>1 DEF LossInv, InStep, StreamRegular
  <2>6. Len(out) <= vis
    <3>1. CASE frames = << >>
      BY <1>2, <2>5, <3>1 DEF SideBySide
    <3>2. CASE frames # << >>
      <4>1. Len(frames) \in DOMAIN frames
        BY <1>2, <2>1, <3>2
      <4> QED
        BY <2>2, <2>5, <3>2, <4>1 DEF SideBySide
    <3> QED
      BY <3>1, <3>2
  <2>7. vis = Len(out)
    BY <1>2, <2>6
  <2>8. out' = out
    BY <1>1, <1>2, <2>7, SubSeqFull
  <2> QED
    BY <2>4, <2>8
<1>5. CASE Unfinished' = {}
  BY <1>1, <1>3, <1>4, <1>5, OthersLeaveStep
<1>6. CASE Unfinished' # {}
  BY <1>3, <1>6 DEF InStep
<1> QED
  BY <1>5, <1>6

LEMMA LossStep ==
  ASSUME RegularStream, LossInv, [Next]_vars
  PROVE  LossInv'
<1>1. IInv'
  BY StepKeeps DEF LossInv
<1> SUFFICES HeldBack' /\ InStep'
  BY <1>1 DEF LossInv
<1>2. Unfinished = {} => StreamRegular /\ ReaderInStep
  BY DEF LossInv, InStep
<1>3. ASSUME NEW msg \in Messages, SendFrame(msg) PROVE HeldBack' /\ InStep'
  <2>1. open' /\ UNCHANGED Unfinished
    BY <1>3, SendFrameKeeps DEF SendFrame, Put, LossInv
  <2>2. Unfinished = {} => StreamRegular' /\ ReaderInStep'
    BY <1>2, <1>3, SendFrameRegular, SendFrameInStep DEF LossInv
  <2> QED
    BY <2>1, <2>2 DEF HeldBack, InStep
<1>4. ASSUME NEW bytes \in Noise PROVE FALSE
  BY <1>4 DEF RegularStream, OnlyFrames
<1>5. CASE Flush
  <2>1. HeldBack'
    BY <1>5 DEF Flush, HeldBack
  <2> QED
    BY <1>5, <2>1, OthersLeaveStep DEF Flush
<1>6. CASE Die
  BY <1>6, DieInStep
<1>7. CASE Restart
  <2>1. HeldBack'
    BY <1>7 DEF Restart, HeldBack
  <2> QED
    BY <1>7, <2>1, OthersLeaveStep DEF Restart
<1>8. CASE Call
  BY <1>8, CallInStep, ReaderLeavesStream DEF Call
<1>9. CASE HungUp
  BY <1>9, HungUpInStep, ReaderLeavesStream DEF HungUp
<1>10. CASE ReadSync
  BY <1>10, ReadSyncInStep, ReaderLeavesStream DEF ReadSync
<1>11. CASE ReadHeader
  BY <1>11, ReadHeaderInStep, ReaderLeavesStream DEF ReadHeader, Header
<1>12. CASE ReadBody
  BY <1>12, ReadBodyInStep, ReaderLeavesStream DEF ReadBody
<1>13. CASE UNCHANGED vars
  <2>1. UNCHANGED << out, vis, frames, open, reader >>
    BY <1>13 DEF vars, feed
  <2>2. HeldBack'
    BY <2>1 DEF LossInv, HeldBack
  <2> QED
    BY <2>1, <2>2, OthersLeaveStep
<1> QED
  BY <1>3, <1>4, <1>5, <1>6, <1>7, <1>8, <1>9, <1>10, <1>11, <1>12, <1>13
  DEF Next, Decoder, Reader

(* After a read that came up short the reader finds the next frame: once   *)
(* it is between two calls, every frame behind it was handed to deal_pro   *)
(* or is one that a read came up short in, for a decoder that writes only  *)
(* frames, in whatever pieces, whose messages hold no synchronisation code *)
(* and fit the buffer and the scan.                                        *)
THEOREM LossStaysLocal ==
  ASSUME RegularStream
  PROVE  Spec => []LossIsLocal
<1>1. LossInv /\ [Next]_vars => LossInv'
  BY LossStep
<1>2. LossInv => LossIsLocal
  <2> SUFFICES ASSUME LossInv, pc = "idle", Unfinished = {},
                      NEW f \in DOMAIN frames, Passed(f)
               PROVE  f \in Handed \cup torn
    BY DEF LossIsLocal
  <2>1. ReaderInStep /\ begin = rd
    BY DEF LossInv, InStep, ReaderInStep, Scanning
  <2> QED
    BY <2>1 DEF ReaderInStep, Accounted, Passed
<1> QED
  BY <1>1, <1>2, InitLossInv, PTL DEF Spec

=============================================================================
