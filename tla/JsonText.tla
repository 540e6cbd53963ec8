------------------------------ MODULE JsonText ------------------------------
(***************************************************************************)
(* Texts and values (parson.c): the parser, the serializer, the removal of *)
(* comments, comparison and validation, against the grammar of JSON.       *)
(*                                                                         *)
(* A text is a sequence of characters.  The words true, false, null, inf   *)
(* and nan count as one, "^" stands for the control characters without an  *)
(* escape of their own, "\n" for those with one.  Escapes \uXXXX are in    *)
(* Utf8.                                                                   *)
(*                                                                         *)
(* A value is a pair of its type and its content: the characters of a      *)
(* string, the values of an array, the pairs of name and value of an       *)
(* object, and for a number its sign, and its digits before and after the  *)
(* point, without zeros in front and at the end: a decimal number and not  *)
(* the double next to it.                                                  *)
(***************************************************************************)
EXTENDS Integers, Sequences, FiniteSets, FiniteSetsExt, SequencesExt

CONSTANT MAX_NESTING      \* levels a value may lie inside of: 19

NUL == "NUL"              \* what stands at the end of a text

At(s, i) == IF i \in DOMAIN s THEN s[i] ELSE NUL

White  == {" ", "\n"}
Digits == {"0", "1", "2", "3"}
Words  == {"true", "false", "null"}
NoDigits == {"inf", "nan"}       \* what strtod takes for a number besides
Control == {"^", "\n"}

(* The first place from i on that is not white space. *)
RECURSIVE SKIP_WHITESPACES(_, _)
SKIP_WHITESPACES(s, i) == IF At(s, i) \in White THEN SKIP_WHITESPACES(s, i + 1) ELSE i

NULL   == << >>
Failed == [value |-> NULL, next |-> 0]
Parsed(v, next) == [value |-> v, next |-> next]

-----------------------------------------------------------------------------
(* Strings.  skip_quotes, from behind the opening quote.                   *)
RECURSIVE skip_quotes(_, _)
skip_quotes(s, i) ==
  CASE At(s, i) = NUL  -> i
    [] At(s, i) = "\"" -> i + 1
    [] At(s, i) = "\\" -> IF At(s, i + 1) = NUL THEN i + 1 ELSE skip_quotes(s, i + 2)
    [] OTHER           -> skip_quotes(s, i + 1)

EscapeOf(c) == CASE c \in {"\"", "\\", "/"} -> c
                 [] c = "n"                 -> "\n"
                 [] OTHER                   -> NUL          \* there is none

RECURSIVE process_string(_)
process_string(cs) ==     \* the characters, or NULL, as a sequence of none or one
  IF cs = << >> THEN << << >> >>
  ELSE LET escape == cs[1] = "\\"
           c      == IF escape THEN EscapeOf(At(cs, 2)) ELSE cs[1]
           rest   == process_string(SubSeq(cs, IF escape THEN 3 ELSE 2, Len(cs)))
       IN IF c = NUL \/ (~ escape /\ c \in Control) \/ rest = NULL THEN NULL
          ELSE << << c >> \o rest[1] >>

(* Whatever stands at i is taken for the opening quote. *)
get_quoted_string(s, i) ==
  LET end   == skip_quotes(s, i + 1)
      chars == process_string(SubSeq(s, i + 1, end - 2))
  IN IF At(s, end) = NUL \/ chars = NULL THEN Failed ELSE Parsed(chars[1], end)

-----------------------------------------------------------------------------
(* Numbers: strtod takes the longest piece it can. *)
RECURSIVE SkipDigits(_, _)
SkipDigits(s, i) == IF At(s, i) \in Digits THEN SkipDigits(s, i + 1) ELSE i

RECURSIVE Trimmed(_), Significant(_)
Trimmed(ds) == IF ds # << >> /\ Last(ds) = "0" THEN Trimmed(Front(ds)) ELSE ds

Significant(ds) == IF Len(ds) > 1 /\ ds[1] = "0" THEN Significant(Tail(ds)) ELSE ds

(* The number of those digits; there is no negative zero. *)
Number(minus, whole, fraction) ==
  LET w == IF whole = << >> THEN << "0" >> ELSE Significant(whole)
      f == Trimmed(fraction)
  IN << "number", << minus /\ ~ (w = << "0" >> /\ f = << >>), w, f >> >>

DigitOf(c) == CHOOSE n \in 0 .. 3 : ToString(n) = c

ValueOfDigits(ds) == FoldLeft(LAMBDA n, c : 10 * n + DigitOf(c), 0, ds)

Zeros(n) == [k \in 1 .. n |-> "0"]

(* That number by ten to the e. *)
Scaled(minus, whole, fraction, e) ==
  LET left   == IF e < 0 THEN - e ELSE 0
      right  == IF e > 0 THEN e ELSE 0
      digits == Zeros(left) \o whole \o fraction \o Zeros(right)
      point  == Len(whole) + right
  IN Number(minus, SubSeq(digits, 1, point), SubSeq(digits, point + 1, Len(digits)))

(* The exponent at i, of one digit at least; nothing is taken if there is none. *)
Exponent(s, i) ==
  LET first == IF At(s, i + 1) \in {"+", "-"} THEN i + 2 ELSE i + 1
      end   == SkipDigits(s, first)
      e     == ValueOfDigits(SubSeq(s, first, end - 1))
  IN IF At(s, i) # "e" \/ end = first THEN Parsed(0, i)
     ELSE Parsed(IF At(s, i + 1) = "-" THEN - e ELSE e, end)

strtod(s, i) ==
  LET first == IF At(s, i) = "-" THEN i + 1 ELSE i
      point == SkipDigits(s, first)
      end   == IF At(s, point) = "." THEN SkipDigits(s, point + 1) ELSE point
      power == Exponent(s, end)
  IN CASE At(s, first) \in NoDigits -> Parsed(Number(first > i, << s[first] >>, << >>), first + 1)
       [] \A k \in first .. end - 1 : s[k] = "." ->
            Parsed(Number(FALSE, << >>, << >>), i)           \* nothing taken
       [] OTHER ->
            Parsed(Scaled(first > i, SubSeq(s, first, point - 1), SubSeq(s, point + 1, end - 1),
                          power.value),
                   power.next)

(* A zero in front is followed by a point, not by an exponent either. *)
is_decimal(t) ==
  /\ ~ (Len(t) > 1 /\ t[1] = "0" /\ t[2] # ".")
  /\ ~ (Len(t) > 2 /\ t[1] = "-" /\ t[2] = "0" /\ t[3] # ".")

parse_number_value(s, i) ==
  LET number == strtod(s, i)
  IN IF is_decimal(SubSeq(s, i, number.next - 1)) THEN number ELSE Failed

(* parse_boolean_value and parse_null_value. *)
WordValue(w) == IF w = "null" THEN << "null", w >> ELSE << "boolean", w >>

-----------------------------------------------------------------------------
(* Containers.  `items' are those found so far; i is at the next one.      *)
Separator(s, i) == At(s, i) = ","

Closes_at_end(s, i, sign) == At(s, i) \in {sign, NUL}   \* faulty: or it is the end

Closes(s, i, sign) == At(s, i) = sign

TooDeep_late(nesting) == nesting > MAX_NESTING + 1   \* faulty

TooDeep(nesting) == nesting > MAX_NESTING

AddsTwice(items, name) == FALSE                       \* faulty: names are not compared

AddFails(items, name) == \E k \in DOMAIN items : items[k][1] = name

RECURSIVE parse_value(_, _, _), Members(_, _, _, _), Elements(_, _, _, _)

parse_value(s, from, nesting) ==
  LET i     == SKIP_WHITESPACES(s, from)
      first == SKIP_WHITESPACES(s, i + 1)
      string == get_quoted_string(s, i)
  IN IF TooDeep(nesting) THEN Failed ELSE
     CASE At(s, i) = "{" ->
            IF At(s, first) = "}" THEN Parsed(<< "object", << >> >>, first + 1)
            ELSE Members(s, first, nesting + 1, << >>)
       [] At(s, i) = "[" ->
            IF At(s, first) = "]" THEN Parsed(<< "array", << >> >>, first + 1)
            ELSE Elements(s, first, nesting + 1, << >>)
       [] At(s, i) = "\"" ->
            IF string = Failed THEN Failed ELSE Parsed(<< "string", string.value >>, string.next)
       [] At(s, i) \in Digits \cup {"-"} -> parse_number_value(s, i)
       [] At(s, i) \in Words              -> Parsed(WordValue(s[i]), i + 1)
       [] OTHER                           -> Failed

Members(s, i, nesting, items) ==
  LET name  == get_quoted_string(s, i)
      colon == SKIP_WHITESPACES(s, name.next)
      value == parse_value(s, colon + 1, nesting)
      more  == Append(items, << name.value, value.value >>)
      end   == SKIP_WHITESPACES(s, value.next)
  IN CASE \/ At(s, i) = NUL
          \/ name = Failed
          \/ At(s, colon) # ":"
          \/ value = Failed
          \/ AddFails(items, name.value)               -> Failed
       [] OTHER -> IF Separator(s, end) THEN Members(s, SKIP_WHITESPACES(s, end + 1), nesting, more)
                   ELSE IF Closes(s, end, "}") THEN Parsed(<< "object", more >>, end + 1)
                   ELSE Failed

Elements(s, i, nesting, items) ==
  LET value == parse_value(s, i, nesting)
      more  == Append(items, value.value)
      end   == SKIP_WHITESPACES(s, value.next)
  IN CASE At(s, i) = NUL \/ value = Failed -> Failed
       [] OTHER -> IF Separator(s, end) THEN Elements(s, SKIP_WHITESPACES(s, end + 1), nesting, more)
                   ELSE IF Closes(s, end, "]") THEN Parsed(<< "array", more >>, end + 1)
                   ELSE Failed

(* What follows the value is not looked at. *)
json_parse_string(s) ==
  IF At(s, SKIP_WHITESPACES(s, 1)) \in {"{", "["} THEN parse_value(s, 1, 0).value ELSE NULL

-----------------------------------------------------------------------------
(* The serializer; an indent is one space here. *)
Escaped(c) ==
  CASE c \in {"\"", "\\"} -> << "\\", c >>
    [] c = "\n"           -> << "\\", "n" >>
    [] OTHER              -> << c >>

json_serialize_string(cs) ==
  << "\"" >> \o FlattenSeq([k \in DOMAIN cs |-> Escaped(cs[k])]) \o << "\"" >>

(* %d, or %.8f, whose eight places the fractions here fit. *)
PLACES == 8

Printed(number) ==
  LET minus == number[1]  whole == number[2]  fraction == number[3]
  IN (IF minus THEN << "-" >> ELSE << >>) \o whole \o
     IF fraction = << >> THEN << >>
     ELSE << "." >> \o [k \in 1 .. PLACES |-> IF k \in DOMAIN fraction THEN fraction[k] ELSE "0"]

Layout(pretty, chars) == IF pretty THEN chars ELSE << >>
Indent(level) == [k \in 1 .. level |-> " "]

(* The items of a container, each on a line of its own if pretty. *)
Enclosed(opens, items, closes, level, pretty) ==
  << opens >> \o
  FlattenSeq([k \in DOMAIN items |->
    (IF k = 1 THEN Layout(pretty, << "\n" >>) ELSE << >>) \o Layout(pretty, Indent(level + 1))
      \o items[k] \o (IF k < Len(items) THEN << "," >> ELSE << >>) \o Layout(pretty, << "\n" >>)])
  \o (IF items = << >> THEN << >> ELSE Layout(pretty, Indent(level))) \o << closes >>

RECURSIVE json_serialize_to_buffer_r(_, _, _)
json_serialize_to_buffer_r(v, level, pretty) ==
  CASE v[1] = "array" ->
         Enclosed("[", [k \in DOMAIN v[2] |-> json_serialize_to_buffer_r(v[2][k], level + 1, pretty)],
                  "]", level, pretty)
    [] v[1] = "object" ->
         Enclosed("{", [k \in DOMAIN v[2] |->
                          json_serialize_string(v[2][k][1]) \o << ":" >> \o Layout(pretty, << " " >>)
                          \o json_serialize_to_buffer_r(v[2][k][2], level + 1, pretty)],
                  "}", level, pretty)
    [] v[1] = "string" -> json_serialize_string(v[2])
    [] v[1] = "number" -> Printed(v[2])
    [] OTHER           -> << v[2] >>

json_serialize_to_string(v)        == json_serialize_to_buffer_r(v, 0, FALSE)
json_serialize_to_string_pretty(v) == json_serialize_to_buffer_r(v, 0, TRUE)

-----------------------------------------------------------------------------
(* json_parse_string_with_comments: two passes, each of which puts white   *)
(* space for what lies between a pair of marks that is not in a string.    *)
BlockMarks == << << "/", "*" >>, << "*", "/" >> >>
LineMarks  == << << "/", "/" >>, << "\n" >> >>

StandsAt(s, i, mark) == \A k \in DOMAIN mark : At(s, i + k - 1) = mark[k]

Blank(s, from, to) == [k \in DOMAIN s |-> IF k \in from .. to THEN " " ELSE s[k]]

First(S) == CHOOSE i \in S : \A j \in S : i <= j

Opens_in_strings(s, i, inString, marks) == StandsAt(s, i, marks[1])    \* faulty

Opens(s, i, inString, marks) == ~ inString /\ StandsAt(s, i, marks[1])

RECURSIVE remove_comments(_, _, _, _, _)
remove_comments(s, i, inString, escaped, marks) ==
  LET behind == i + Len(marks[1])
      ends   == {j \in behind .. Len(s) : StandsAt(s, j, marks[2])}
      last   == First(ends) + Len(marks[2]) - 1
  IN CASE At(s, i) = NUL                 -> s
       [] At(s, i) = "\\" /\ ~ escaped -> remove_comments(s, i + 1, inString, TRUE, marks)
       [] At(s, i) = "\"" /\ ~ escaped -> remove_comments(s, i + 1, ~ inString, FALSE, marks)
       [] OTHER ->
            IF ~ Opens(s, i, inString, marks) THEN remove_comments(s, i + 1, inString, FALSE, marks)
            ELSE IF ends = {} THEN Blank(s, i, behind - 1)
            ELSE remove_comments(Blank(s, i, last), last + 1, inString, FALSE, marks)

json_parse_string_with_comments(s) ==
  json_parse_string(remove_comments(remove_comments(s, 1, FALSE, FALSE, BlockMarks),
                                    1, FALSE, FALSE, LineMarks))

-----------------------------------------------------------------------------
(* Objects: the value of a name, NULL if there is none. *)
ValueOf(items, name) ==
  LET found == {k \in DOMAIN items : items[k][1] = name}
  IN IF found = {} THEN NULL ELSE items[First(found)][2]

(* Faulty: the members are compared in their order. *)
Counterpart_in_order(a, b, k) == b[2][k][2]

(* The member of b that is compared with the k-th of a. *)
Counterpart(a, b, k) == ValueOf(b[2], a[2][k][1])

(* Ten to the eighth times a number of at most eight places. *)
Units(number) ==
  LET n == ValueOfDigits(number[2] \o [k \in 1 .. PLACES |->
                                         IF k \in DOMAIN number[3] THEN number[3][k] ELSE "0"])
  IN IF number[1] THEN - n ELSE n

IsFinite(number) == ToSet(number[2]) \subseteq Digits

EPSILON == 100            \* 0.000001

(* fabs(x - y) < EPSILON, which is false if either is infinite or no number. *)
Near(x, y) ==
  /\ IsFinite(x) /\ IsFinite(y)
  /\ LET d == Units(x) - Units(y) IN - EPSILON < d /\ d < EPSILON

RECURSIVE json_value_equals(_, _)
json_value_equals(a, b) ==
  IF a = NULL \/ b = NULL THEN a = b
  ELSE /\ a[1] = b[1]
       /\ CASE a[1] = "array"  -> /\ Len(a[2]) = Len(b[2])
                                  /\ \A k \in DOMAIN a[2] : json_value_equals(a[2][k], b[2][k])
            [] a[1] = "object" -> /\ Len(a[2]) = Len(b[2])
                                  /\ \A k \in DOMAIN a[2] :
                                       json_value_equals(a[2][k][2], Counterpart(a, b, k))
            [] a[1] = "number" -> Near(a[2], b[2])
            [] OTHER           -> a[2] = b[2]

EnoughMembers(schema, value) ==
  \A k \in DOMAIN schema[2] : ValueOf(value[2], schema[2][k][1]) # NULL

(* The values of an array are taken for good if they are NOT valid: the    *)
(* result is compared with 0, which is JSONSuccess.                        *)
RECURSIVE json_validate(_, _)
json_validate(schema, value) ==
  \/ schema[1] = "null"
  \/ /\ schema[1] = value[1]
     /\ CASE schema[1] = "array" ->
               \/ schema[2] = << >>
               \/ \A k \in DOMAIN value[2] : ~ json_validate(schema[2][1], value[2][k])
          [] schema[1] = "object" ->
               /\ EnoughMembers(schema, value)
               /\ \A k \in DOMAIN schema[2] :
                    LET found == ValueOf(value[2], schema[2][k][1])
                    IN found # NULL => json_validate(schema[2][k][2], found)
          [] OTHER -> TRUE

-----------------------------------------------------------------------------
(* How many containers the innermost value lies in. *)
RECURSIVE Height(_)
Height(v) ==
  LET inner == CASE v[1] = "array"  -> ToSet(v[2])
                 [] v[1] = "object" -> {item[2] : item \in ToSet(v[2])}
                 [] OTHER           -> {}
  IN IF inner = {} THEN 0 ELSE 1 + Max({Height(w) : w \in inner})

(* The characters of all its strings and names. *)
RECURSIVE Characters(_)
Characters(v) ==
  CASE v[1] = "string" -> ToSet(v[2])
    [] v[1] = "array"  -> UNION {Characters(w) : w \in ToSet(v[2])}
    [] v[1] = "object" -> UNION {ToSet(item[1]) \cup Characters(item[2]) : item \in ToSet(v[2])}
    [] OTHER           -> {}

IsDocument(v) == v[1] \in {"array", "object"}

(* A document is read back as the value it was written from, in both       *)
(* layouts, if it is not too deep and has no control character that is     *)
(* written as it is; if it is or has, it cannot be read at all.  Its       *)
(* numbers have no more places than are written: eight.                    *)
ReadsBack(v) ==
  \A text \in {json_serialize_to_string(v), json_serialize_to_string_pretty(v)} :
    json_parse_string(text) =
      IF IsDocument(v) /\ Height(v) <= MAX_NESTING /\ "^" \notin Characters(v) THEN v ELSE NULL

(* A document cut off anywhere, as a crash or a full disk cuts a file off, *)
(* is refused, never read as a smaller one.                                *)
CutOffIsRefused(v) ==
  IsDocument(v) => \A n \in 0 .. Len(json_serialize_to_string(v)) - 1 :
                     json_parse_string(SubSeq(json_serialize_to_string(v), 1, n)) = NULL

(* Where a text has got to after a character, and the places between its   *)
(* signs: not in a string, nor in a number.                                *)
PlaceAfter(place, c) ==
  CASE place = "escape"                -> "string"
    [] place = "string" /\ c = "\\" -> "escape"
    [] place = "string" /\ c \notin {"\\", "\""} -> "string"
    [] place = "out" /\ c = "\""    -> "string"
    [] OTHER                           -> "out"

Between(text) ==
  LET places == FoldLeft(LAMBDA ps, c : Append(ps, PlaceAfter(Last(ps), c)), << "out" >>, text)
  IN {i \in DOMAIN text : places[i + 1] = "out" /\ text[i] \notin Digits \cup {"-", "."}}

(* The first pass, which is after the other kind of comment, takes part of *)
(* a comment that runs to the end of its line for another: if it goes on   *)
(* as //*; if it has a mark of the other kind whose other half stands      *)
(* behind the line; and if it has a quote, after which what is in a string *)
(* counts as out of it, and such a mark stands anywhere behind.            *)
Misleads(c, behind) ==
  LET text  == c \o behind
      Places(mark) == {k \in DOMAIN text : StandsAt(text, k, mark)}
      opens == Places(BlockMarks[1])
      ends(k) == {j \in Places(BlockMarks[2]) : j >= k + 2}
  IN /\ StandsAt(c, 1, LineMarks[1])
     /\ \/ 2 \in opens
        \/ "\"" \in ToSet(c) /\ opens # {}
        \/ \E k \in opens \cap DOMAIN c : ends(k) # {} /\ First(ends(k)) > Len(c)

(* A comment between the signs of a document changes nothing, whatever is  *)
(* in it and in the strings of the document, but for those that mislead    *)
(* the first pass.                                                         *)
CommentsAreSkipped(v, comments) ==
  LET text == json_serialize_to_string(v) IN
  \A i \in {0} \cup Between(text), c \in comments :
    LET behind == SubSeq(text, i + 1, Len(text)) IN
    ~ Misleads(c, behind) =>
      json_parse_string_with_comments(SubSeq(text, 1, i) \o c \o behind)
        = json_parse_string(text)

(* The same but for the order of members, and for less than a millionth    *)
(* in a number; an infinite number, which a text can have, is not even the *)
(* same as itself.                                                         *)
RECURSIVE Same(_, _)
Same(a, b) ==
  /\ a[1] = b[1]
  /\ CASE a[1] = "array" -> Len(a[2]) = Len(b[2]) /\ \A k \in DOMAIN a[2] : Same(a[2][k], b[2][k])
       [] a[1] = "object" ->
            /\ {item[1] : item \in ToSet(a[2])} = {item[1] : item \in ToSet(b[2])}
            /\ \A x \in ToSet(a[2]), y \in ToSet(b[2]) : x[1] = y[1] => Same(x[2], y[2])
       [] a[1] = "number" -> Near(a[2], b[2])
       [] OTHER -> a[2] = b[2]

(* parson.h: "checking if object have identically named fields with        *)
(* matching types"; null, an empty object and an empty array allow all.    *)
RECURSIVE Matches(_, _)
Matches(schema, value) ==
  \/ schema[1] = "null"
  \/ /\ schema[1] = value[1]
     /\ schema[1] = "object" =>
          \A s \in ToSet(schema[2]) : \E x \in ToSet(value[2]) : x[1] = s[1] /\ Matches(s[2], x[2])

RECURSIVE AsksOfElements(_)
AsksOfElements(schema) ==
  CASE schema[1] = "array"  -> schema[2] # << >>
    [] schema[1] = "object" -> \E s \in ToSet(schema[2]) : AsksOfElements(s[2])
    [] OTHER                -> FALSE

(* Two values are equal if they differ in the order of members and in      *)
(* millionths at most; and a schema without elements of arrays is checked  *)
(* as documented.                                                          *)
ComparesContents(a, b) ==
  /\ json_value_equals(a, b) <=> Same(a, b)
  /\ ~ AsksOfElements(a) => (json_validate(a, b) <=> Matches(a, b))

-----------------------------------------------------------------------------
(* The grammar of JSON: the values that a text denotes, at most one.  A    *)
(* zero right before an exponent, as in 0e1, is left out: the parser       *)
(* refuses it.  The loose grammar is what the parser accepts besides: a    *)
(* name may begin with any character, digits may be missing before or      *)
(* after the point, and -inf and -nan are numbers.                         *)
Stripped(t) ==
  LET ink == {i \in DOMAIN t : t[i] \notin White}
  IN IF ink = {} THEN << >>
     ELSE SubSeq(t, First(ink), CHOOSE i \in ink : \A j \in ink : j <= i)

RECURSIVE Unescaped(_)
Unescaped(cs) ==       \* the strings that characters between quotes spell
  IF cs = << >> THEN {<< >>}
  ELSE IF cs[1] = "\\" /\ At(cs, 2) \in {"\"", "\\", "/", "n"}
    THEN {<< IF cs[2] = "n" THEN "\n" ELSE cs[2] >> \o r : r \in Unescaped(SubSeq(cs, 3, Len(cs)))}
  ELSE IF cs[1] \in {"\"", "\\"} \cup Control THEN {}
  ELSE {<< cs[1] >> \o r : r \in Unescaped(Tail(cs))}

Quoted(t, loose) ==
  IF Len(t) >= 2 /\ Last(t) = "\"" /\ (loose \/ t[1] = "\"")
  THEN Unescaped(SubSeq(t, 2, Len(t) - 1)) ELSE {}

AllDigits(t) == ToSet(t) \subseteq Digits

(* The numbers of digits, a point and digits, or of digits alone. *)
Numerals(u, minus, e, loose) ==
  LET whole(w) == AllDigits(w) /\ (w = << >> => loose) /\ (Len(w) > 1 => w[1] # "0")
  IN {Scaled(minus, SubSeq(u, 1, p - 1), SubSeq(u, p + 1, Len(u)), e) :
        p \in {q \in DOMAIN u : /\ u[q] = "." /\ whole(SubSeq(u, 1, q - 1))
                                /\ AllDigits(SubSeq(u, q + 1, Len(u)))
                                /\ IF loose THEN Len(u) > 1 ELSE q < Len(u)}}
     \cup (IF u # << >> /\ whole(u) THEN {Scaled(minus, u, << >>, e)} ELSE {})

(* The exponents that x spells. *)
Powers(x) ==
  LET signed == x # << >> /\ x[1] \in {"+", "-"}
      ds     == IF signed THEN Tail(x) ELSE x
  IN IF ds = << >> \/ ~ AllDigits(ds) THEN {}
     ELSE {IF signed /\ x[1] = "-" THEN - ValueOfDigits(ds) ELSE ValueOfDigits(ds)}

Numbers(t, loose) ==
  LET minus == t # << >> /\ t[1] = "-"
      u     == IF minus THEN Tail(t) ELSE t
  IN Numerals(u, minus, 0, loose)
     \cup UNION {UNION {Numerals(SubSeq(u, 1, k - 1), minus, e, loose) :
                          e \in Powers(SubSeq(u, k + 1, Len(u)))} :
                 k \in {j \in DOMAIN u : u[j] = "e" /\ SubSeq(u, 1, j - 1) # << "0" >>}}
     \cup {Number(TRUE, << w >>, << >>) : w \in {v \in NoDigits : loose /\ t = << "-", v >>}}

RECURSIVE Denoted(_, _), Listed(_, _), Named(_, _)

Denoted(text, loose) ==
  LET t == Stripped(text)
      inside == SubSeq(t, 2, Len(t) - 1)
      empty  == Stripped(inside) = << >>
  IN CASE t = << >> -> {}
       [] Len(t) = 1 /\ t[1] \in Words -> {WordValue(t[1])}
       [] Len(t) > 1 /\ t[1] = "[" /\ Last(t) = "]" ->
            {<< "array", items >> : items \in IF empty THEN {<< >>} ELSE Listed(inside, loose)}
       [] Len(t) > 1 /\ t[1] = "{" /\ Last(t) = "}" ->
            {<< "object", items >> : items \in IF empty THEN {<< >>} ELSE Named(inside, loose)}
       [] OTHER -> {<< "string", cs >> : cs \in Quoted(t, FALSE)} \cup Numbers(t, loose)

Listed(t, loose) ==
  {<< v >> : v \in Denoted(t, loose)} \cup
  UNION {{<< v >> \o r : v \in Denoted(SubSeq(t, 1, k - 1), loose),
                         r \in Listed(SubSeq(t, k + 1, Len(t)), loose)} :
         k \in {j \in DOMAIN t : t[j] = ","}}

Member(t, loose) ==
  UNION {{<< name, v >> : name \in Quoted(Stripped(SubSeq(t, 1, k - 1)), loose),
                          v \in Denoted(SubSeq(t, k + 1, Len(t)), loose)} :
         k \in {j \in DOMAIN t : t[j] = ":"}}

Named(t, loose) ==
  {<< m >> : m \in Member(t, loose)} \cup
  UNION {{<< m >> \o r : m \in Member(SubSeq(t, 1, k - 1), loose),
                         r \in Named(SubSeq(t, k + 1, Len(t)), loose)} :
         k \in {j \in DOMAIN t : t[j] = ","}}

RECURSIVE NamesDiffer(_)
NamesDiffer(v) ==
  CASE v[1] = "array"  -> \A w \in ToSet(v[2]) : NamesDiffer(w)
    [] v[1] = "object" -> /\ \A j, k \in DOMAIN v[2] : v[2][j][1] = v[2][k][1] => j = k
                          /\ \A item \in ToSet(v[2]) : NamesDiffer(item[2])
    [] OTHER           -> TRUE

(* Every text of the grammar whose names differ is read as the value it    *)
(* denotes; and what is read is denoted by the beginning of the text, if   *)
(* only in the loose grammar.                                              *)
ReadsTheGrammar(text) ==
  LET v == json_parse_string(text) IN
  /\ \A w \in Denoted(text, FALSE) :
       (IsDocument(w) /\ NamesDiffer(w) /\ Height(w) <= MAX_NESTING) => v = w
  /\ v # NULL => /\ NamesDiffer(v)
                 /\ \E n \in DOMAIN text : v \in Denoted(SubSeq(text, 1, n), TRUE)
=============================================================================
