------------------------------ MODULE UrlParser ------------------------------
(***************************************************************************)
(* The text of a query, and how values are found in it (url_parser.c),     *)
(* against what a query says.                                              *)
(*                                                                         *)
(* A text is a sequence of characters.  It matters which are '&', '=',     *)
(* '+', '%', space, and digits of the escapes of these; "x" and "y" stand  *)
(* for the other characters of names and values, "z" for what the escapes  *)
(* not listed stand for.                                                   *)
(***************************************************************************)
EXTENDS Integers, Sequences, SequencesExt

CONSTANT URL_BUF_MAX_LEN   \* size of the buffer: 4096

ASSUME UrlAssumption == URL_BUF_MAX_LEN \in Nat

NUL == "NUL"               \* the character 0, which ends a string

Digits == {"0", "2", "3", "5", "6", "B", "D"}

url_htoi(d) ==
  CASE d = << "0", "0" >> -> NUL
    [] d = << "2", "5" >> -> "%"
    [] d = << "2", "6" >> -> "&"
    [] d = << "2", "B" >> -> "+"
    [] d = << "3", "D" >> -> "="
    [] OTHER              -> "z"

hexchars(c) ==
  CHOOSE d \in Digits \X Digits : url_htoi(d) = c

-----------------------------------------------------------------------------
(* Each turn of the loop takes one character, or the three of an escape,   *)
(* and puts one.                                                           *)
IsEscape(s, i) ==
  /\ s[i] = "%" /\ i + 2 <= Len(s)
  /\ s[i + 1] \in Digits /\ s[i + 2] \in Digits

Character(c) == CASE c = "+" -> " " [] c = "&" -> NUL [] OTHER -> c

Decoded_again(s, i) ==     \* faulty: what an escape stands for is looked at as well
  Character(IF IsEscape(s, i) THEN url_htoi(<< s[i + 1], s[i + 2] >>) ELSE s[i])

Decoded(s, i) ==
  IF IsEscape(s, i) THEN url_htoi(<< s[i + 1], s[i + 2] >>) ELSE Character(s[i])

Width(s, i) == IF IsEscape(s, i) THEN 3 ELSE 1

DecodedFrom(s) ==
  LET from[i \in Nat \ {0}] ==
        IF i > Len(s) THEN << >> ELSE << Decoded(s, i) >> \o from[i + Width(s, i)]
  IN from

url_decode(s) == DecodedFrom(s)[1]

(* Letters, digits, '-', '.' and '_' are left as they are. *)
Encoded(c) ==
  CASE c = " "                    -> << "+" >>
    [] c \in {"&", "=", "%", "+"} -> << "%", hexchars(c)[1], hexchars(c)[2] >>
    [] OTHER                      -> << c >>

EncodedFrom(s) ==
  LET from[i \in Nat \ {0}] ==
        IF i > Len(s) THEN << >> ELSE Encoded(s[i]) \o from[i + 1]
  IN from

url_encode(s) == EncodedFrom(s)[1]

-----------------------------------------------------------------------------
(* What is in the buffer: the query, decoded in place and ended by a 0,    *)
(* behind that the end of the query as it was, and then zeros.             *)
url_parse(s) ==
  LET dec == url_decode(s) IN dec \o << NUL >> \o SubSeq(s, Len(dec) + 2, Len(s))

Byte(buf, p) == IF p <= Len(buf) THEN buf[p] ELSE NUL

(* The name, and then '=', stands at p. *)
NameAt(buf, p, name) ==
  /\ \A i \in DOMAIN name : Byte(buf, p + i - 1) = name[i]
  /\ Byte(buf, p + Len(name)) = "="

First(S) == CHOOSE p \in S : \A q \in S : p <= q

(* Where the value of a name begins, 0 if there is none: looked for at the *)
(* beginning of each string of the decoded query, and not behind the 0     *)
(* that ends it.                                                           *)
get_param_value(buf, name) ==
  LET found == {p \in DOMAIN buf : (p = 1 \/ buf[p - 1] = NUL) /\ NameAt(buf, p, name)}
  IN IF found = {} THEN 0 ELSE First(found) + Len(name) + 1

(* Looked for at each of the len characters from s on. *)
get_param_array(buf, s, name, len) ==
  LET found == {p \in s .. s + len - 1 : NameAt(buf, p, name)}
  IN IF found = {} THEN 0 ELSE First(found) + Len(name) + 1

(* The loops of web_pro.c: from each value found on, over the length of    *)
(* the decoded query, which is meant to be shortened and never is.         *)
Array_shortened(buf, name, len) ==     \* faulty: shortened by the whole way at each turn
  LET from[s \in Nat \ {0}] ==
        LET p == get_param_array(buf, s, name, len - 2 * (s - 1))
        IN IF p = 0 THEN << >> ELSE << p >> \o from[p]
  IN from[1]

ArrayFrom(buf, name, len) ==
  LET from[s \in Nat \ {0}] ==
        LET p == get_param_array(buf, s, name, len)
        IN IF p = 0 THEN << >> ELSE << p >> \o from[p]
  IN from

Array(buf, name, len) == ArrayFrom(buf, name, len)[1]

(* How far the loop looks. *)
Reach(buf, name, len) ==
  LET found == Array(buf, name, len) IN len + (IF found = << >> THEN 0 ELSE Last(found) - 1)

(* The string that begins at p. *)
StringsOf(buf) ==
  LET from[i \in Nat \ {0}] ==
        IF Byte(buf, i) = NUL THEN << >> ELSE << Byte(buf, i) >> \o from[i + 1]
  IN from

StringAt(buf, p) == StringsOf(buf)[p]

-----------------------------------------------------------------------------
(* What a query says: between '&'s stand a name, '=', and a value, each    *)
(* with its escapes.                                                       *)
PieceFrom(s, p) ==
  LET ends == {q \in p .. Len(s) : s[q] = "&"}
  IN SubSeq(s, p, IF ends = {} THEN Len(s) ELSE First(ends) - 1)

(* The signs of a piece, what each stands for, and whether it is an escape.*)
SignAt(piece, i) ==
  IF IsEscape(piece, i)
  THEN [char |-> url_htoi(<< piece[i + 1], piece[i + 2] >>), escape |-> TRUE]
  ELSE [char |-> IF piece[i] = "+" THEN " " ELSE piece[i], escape |-> FALSE]

SignsFrom(piece) ==
  LET from[i \in Nat \ {0}] ==
        IF i > Len(piece) THEN << >> ELSE << SignAt(piece, i) >> \o from[i + Width(piece, i)]
  IN from

Signs(piece) == SignsFrom(piece)[1]

Meant(signs) == [i \in DOMAIN signs |-> signs[i].char]

Equals(signs) == {q \in DOMAIN signs : signs[q] = [char |-> "=", escape |-> FALSE]}

IsParam(signs, name) ==
  Equals(signs) # {} /\ Meant(SubSeq(signs, 1, First(Equals(signs)) - 1)) = name

ParamValue(signs) == Meant(SubSeq(signs, First(Equals(signs)) + 1, Len(signs)))

(* The value a piece gives to a name, if it does: none or one. *)
ValueIn(signs, name) == IF IsParam(signs, name) THEN << ParamValue(signs) >> ELSE << >>

(* The values of a name in the pieces from one on. *)
ValuesFrom(s, name) ==
  LET from[p \in Nat \ {0}] ==
        IF p > Len(s) THEN << >>
        ELSE ValueIn(Signs(PieceFrom(s, p)), name) \o from[p + Len(PieceFrom(s, p)) + 1]
  IN from

ValuesOf(s, name) == ValuesFrom(s, name)[1]

(* Where the code and this part ways: an escape for the character 0 ends a *)
(* value, and what follows it is looked at as another parameter; a name    *)
(* with an escaped '=' ends there.                                         *)
Sane(s) ==
  \A p \in {p \in DOMAIN s : p = 1 \/ s[p - 1] = "&"} :
    LET signs == Signs(PieceFrom(s, p)) IN
    \A i \in DOMAIN signs :
      signs[i].escape => /\ signs[i].char # NUL
                         /\ signs[i].char = "=" => \E q \in Equals(signs) : q < i

(* get_param_value finds the value of the first parameter of that name,    *)
(* whatever escapes it holds, and none in the middle of another.  Any text *)
(* that url_encode has made a value of is found as that text.              *)
ParameterIsFound(s, name) ==
  /\ Sane(s) =>
       LET buf == url_decode(s)
           p   == get_param_value(buf, name)
       IN IF ValuesOf(s, name) = << >> THEN p = 0
          ELSE p # 0 /\ StringAt(buf, p) = ValuesOf(s, name)[1]
  /\ LET buf == url_decode(<< "&" >> \o name \o << "=" >> \o url_encode(s))
     IN StringAt(buf, get_param_value(buf, name)) = s

(* get_param_array takes a name for found in the middle of a longer name   *)
(* or of a value.  Where that does not happen, the loops over it collect   *)
(* all values of the query first, in order.  As they look past its end,    *)
(* they may collect more: from what decoding left behind it, the end of    *)
(* the query itself, and so nothing if no escape made it shorter.  In      *)
(* x=%20%20%20&sys=7 the 7 is found twice.  They stay in the buffer if it  *)
(* has room for the query and the decoded query together.                  *)
ListIsCollected(s, name) ==
  LET dec    == url_decode(s)
      buf    == url_parse(s)
      found  == Array(buf, name, Len(dec))
      values == ValuesOf(s, name)
  IN (Sane(s) /\ \A p \in DOMAIN dec : NameAt(dec, p, name) => p = 1 \/ dec[p - 1] = NUL) =>
       /\ Len(values) <= Len(found)
       /\ \A k \in DOMAIN values : StringAt(buf, found[k]) = values[k]
       /\ \A k \in DOMAIN found : found[k] <= Len(dec) + 1 <=> k <= Len(values)
       /\ Len(dec) = Len(s) => Len(found) = Len(values)
       /\ Len(s) + Len(dec) <= URL_BUF_MAX_LEN => Reach(buf, name, Len(dec)) <= URL_BUF_MAX_LEN

=============================================================================
