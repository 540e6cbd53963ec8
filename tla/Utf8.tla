-------------------------------- MODULE Utf8 --------------------------------
(***************************************************************************)
(* The bytes of a string (parson.c): which sequences json_value_init_string*)
(* lets in, and which the escapes \uXXXX of a text turn into, against what *)
(* Unicode calls well formed.                                              *)
(***************************************************************************)
EXTENDS Integers, Sequences, SequencesExt

ByteAt(s, i) == IF i \in DOMAIN s THEN s[i] ELSE 0     \* a string ends with a 0

IS_CONT(b) == b \div 64 = 2

num_bytes_in_utf8_sequence(c) ==
  IF c \in {192, 193} \/ c > 244 \/ IS_CONT(c) THEN 0 ELSE
  CASE c < 128         -> 1
    [] c \div 32 = 6   -> 2
    [] c \div 16 = 14  -> 3
    [] OTHER           -> 4

(* What the bits of the len bytes from i on spell. *)
CodePoint(s, i, len) ==
  LET low(k) == s[i + k] % 64 IN
  CASE len = 1 -> s[i]
    [] len = 2 -> (s[i] % 32) * 64 + low(1)
    [] len = 3 -> ((s[i] % 16) * 64 + low(1)) * 64 + low(2)
    [] OTHER   -> (((s[i] % 8) * 64 + low(1)) * 64 + low(2)) * 64 + low(3)

IsOverlong_three(cp, len) ==   \* faulty: three bytes are held to the range of one
  (cp < 128 /\ len > 1) \/ (cp < 65536 /\ len > 3)

IsOverlong(cp, len) ==
  (cp < 128 /\ len > 1) \/ (cp < 2048 /\ len > 2) \/ (cp < 65536 /\ len > 3)

(* The length of the sequence at i, 0 if it is not a good one. *)
verify_utf8_sequence(s, i) ==
  LET len == num_bytes_in_utf8_sequence(s[i])
      cp  == CodePoint(s, i, len)
  IN IF /\ len > 0
        /\ \A k \in 1 .. len - 1 : IS_CONT(ByteAt(s, i + k))
        /\ ~ IsOverlong(cp, len) /\ cp <= 1114111 /\ ~ (cp >= 55296 /\ cp <= 57343)
     THEN len ELSE 0

ValidFrom(s) ==
  LET from[i \in Nat] ==
        IF i > Len(s) THEN 1
        ELSE LET len == verify_utf8_sequence(s, i) IN IF len = 0 THEN 0 ELSE from[i + len]
  IN from

is_valid_utf8(s) == ValidFrom(s)[1] = 1

-----------------------------------------------------------------------------
(* The escapes of a text are numbers of 16 bits; NoEscape is any other     *)
(* character.                                                              *)
NoEscape == -1

IsLead(u)  == u >= 55296 /\ u <= 56319
IsTrail(u) == u >= 56320 /\ u <= 57343

(* The number of the next escape, NoEscape if there is none. *)
Unit(us, i) == IF i \in DOMAIN us THEN us[i] ELSE NoEscape

PairOf_plain(lead, trail) ==   \* faulty: nothing is added
  (lead - 55296) * 1024 + (trail - 56320)

PairOf(lead, trail) == (lead - 55296) * 1024 + (trail - 56320) + 65536

Bytes(cp) ==
  LET cont(n) == 128 + (n % 64) IN
  CASE cp < 128                  -> << cp >>
    [] cp >= 128 /\ cp < 2048     -> << 192 + cp \div 64, cont(cp) >>
    [] cp >= 2048 /\ cp < 65536   -> << 224 + cp \div 4096, cont(cp \div 64), cont(cp) >>
    [] OTHER                      ->
         << 240 + cp \div 262144, cont(cp \div 4096), cont(cp \div 64), cont(cp) >>

Malformed == << NoEscape >>

(* The bytes the escape at i puts, and how many escapes it takes; a        *)
(* trailing half alone, and a leading half without one, fail.              *)
parse_utf_16(us, i) ==
  CASE IsTrail(us[i])                               -> [bytes |-> Malformed, takes |-> 0]
    [] IsLead(us[i]) /\ ~ IsTrail(Unit(us, i + 1)) -> [bytes |-> Malformed, takes |-> 0]
    [] IsLead(us[i]) /\ IsTrail(Unit(us, i + 1))   ->
         [bytes |-> Bytes(PairOf(us[i], us[i + 1])), takes |-> 2]
    [] OTHER                                        -> [bytes |-> Bytes(us[i]), takes |-> 1]

(* The loop of process_string over escapes and other characters (here 'A').*)
Put(us, i) ==
  IF us[i] = NoEscape THEN [bytes |-> << 65 >>, takes |-> 1] ELSE parse_utf_16(us, i)

EscapedFrom(us) ==
  LET from[i \in Nat \ {0}] ==
        IF i > Len(us) THEN << >>
        ELSE IF Put(us, i).takes = 0 THEN Malformed
        ELSE LET rest == from[i + Put(us, i).takes]
             IN IF rest = Malformed THEN Malformed ELSE Put(us, i).bytes \o rest
  IN from

Escaped(us) == EscapedFrom(us)[1]

-----------------------------------------------------------------------------
(* Unicode, table 3-7: well-formed sequences by the ranges of their bytes. *)
WellFormed ==
  { << 1 .. 127 >>,
    << 194 .. 223, 128 .. 191 >>,
    << {224}, 160 .. 191, 128 .. 191 >>,
    << 225 .. 236, 128 .. 191, 128 .. 191 >>,
    << {237}, 128 .. 159, 128 .. 191 >>,
    << 238 .. 239, 128 .. 191, 128 .. 191 >>,
    << {240}, 144 .. 191, 128 .. 191, 128 .. 191 >>,
    << 241 .. 243, 128 .. 191, 128 .. 191, 128 .. 191 >>,
    << {244}, 128 .. 143, 128 .. 191, 128 .. 191 >> }

IsCharacter(s) ==
  \E w \in WellFormed : Len(w) = Len(s) /\ \A i \in DOMAIN s : s[i] \in w[i]

(* There are places to cut it at so that from each to another is a         *)
(* character.                                                              *)
IsText(s) ==
  \E cuts \in SUBSET (0 .. Len(s)) :
    /\ 0 \in cuts
    /\ \A m \in cuts :
         m = Len(s) \/ \E n \in cuts : m < n /\ IsCharacter(SubSeq(s, m + 1, n))

(* A string is let in just when its bytes are well formed: no overlong     *)
(* form, no half of a pair, nothing cut off at the end.                    *)
OnlyTextIsLetIn(s) == is_valid_utf8(s) <=> IsText(s)

IsWellPaired(us) ==
  \A i \in DOMAIN us :
    /\ IsLead(us[i]) => IsTrail(Unit(us, i + 1))
    /\ IsTrail(us[i]) => i > 1 /\ IsLead(us[i - 1])

(* The code point that an escape, or a pair of them, names. *)
Meaning(us, i) ==
  IF IsLead(us[i]) THEN 65536 + 1024 * (us[i] % 1024) + (us[i + 1] % 1024)
  ELSE IF us[i] = NoEscape THEN 65 ELSE us[i]

Takes(us, i) == IF IsLead(us[i]) THEN 2 ELSE 1

NamedFrom(us) ==
  LET from[i \in Nat \ {0}] ==
        IF i > Len(us) THEN << >> ELSE << Meaning(us, i) >> \o from[i + Takes(us, i)]
  IN from

Named(us) == NamedFrom(us)[1]

(* The code points that well-formed bytes spell. *)
SpelledFrom(s) ==
  LET from[i \in Nat \ {0}] ==
        IF i > Len(s) THEN << >>
        ELSE LET len == num_bytes_in_utf8_sequence(s[i])
             IN << CodePoint(s, i, len) >> \o from[i + (IF len = 0 THEN 1 ELSE len)]
  IN from

Spelled(s) == SpelledFrom(s)[1]

(* Escapes are refused just when a half of a pair stands alone; otherwise  *)
(* the bytes that come of them spell the code points they name, in a form  *)
(* that a string is let in with.  (An escape for 0 ends the string.)       *)
EscapesAreText(us) ==
  IF ~ IsWellPaired(us) THEN Escaped(us) = Malformed
  ELSE /\ Spelled(Escaped(us)) = Named(us)
       /\ (0 \notin ToSet(us)) => is_valid_utf8(Escaped(us))
=============================================================================
