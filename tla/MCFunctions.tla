----------------------------- MODULE MCFunctions -----------------------------
(***************************************************************************)
(* The functions of UrlParser, Utf8, JsonText and GpsTime on many inputs.  *)
(* A behaviour takes a subject and lets an input for it grow or change; an *)
(* invariant says that the functions of that subject do with the input     *)
(* what their reference definition says.                                   *)
(***************************************************************************)
EXTENDS Integers, Sequences, SequencesExt, Calendar, GrowingTexts

CONSTANT MAX_NESTING   \* levels a JSON value may lie inside of

VARIABLES subject, input, size, edits

Text == INSTANCE JsonText

vars == << subject, input, size, edits, today, texts >>

-----------------------------------------------------------------------------
(* JSON: strings with all that needs an escape or looks like a comment. *)
String(cs) == << "string", cs >>
One     == Text!Number(FALSE, << "1" >>, << >>)
Null    == Text!WordValue("null")
Scalars ==
  { Null, One, Text!Number(TRUE, << "0" >>, << "0", "3" >>) } \cup
  { String(cs) : cs \in { << >>, << "\"", "a" >>, << "\\" >>, << "\n" >>, << "^" >>,
                          << "/", "*", "\"" >>, << "/", "/" >>, << "*", "/" >> } }

(* Containers of one of V, or one of V and one of W. *)
Containers(V, W) ==
  { << "array", << >> >>, << "object", << >> >> } \cup
  { << "array", << v >> >> : v \in V } \cup
  { << "array", << v, w >> >> : v \in V, w \in W } \cup
  { << "object", << << n, v >> >> >> : n \in { << "a" >>, << >>, << "\"" >> }, v \in V } \cup
  { << "object", << << p[1], v >>, << p[2], w >> >> >> :
      p \in { << << "a" >>, << >> >>, << << >>, << "a" >> >> }, v \in V, w \in W }

Small == { << "array", << >> >>, << "object", << >> >>, << "array", << One >> >>,
           << "array", << String(<< >>) >> >>, << "object", << << << "a" >>, One >> >> >>,
           One, Null }
Deep  == { << "array", << << "array", << >> >> >> >>, << "array", << << "array", << One >> >> >> >>,
           << "object", << << << "a" >>, << "array", << One >> >> >> >> >> }

Documents == Scalars \cup Containers(Scalars, Scalars) \cup Containers(Small \cup Deep, {One})

(* Zero, a tenth of a millionth, a millionth and minus infinity. *)
Near0 == { Text!Number(FALSE, << "0" >>, Text!Zeros(n - 1) \o << "1" >>) : n \in {6, 7} } \cup
         { Text!Number(FALSE, << "0" >>, << >>), Text!Number(TRUE, << "inf" >>, << >>) }
Compared  == Scalars \cup Near0 \cup
             Containers(Small \cup Near0, { One, String(<< >>), << "array", << >> >> })

(* Comments with a quote, an escape, a closing sign and all the marks. *)
Comments  == { << "/", "*" >> \o c \o << "*", "/" >> :
                 c \in { << >>, << "\"" >>, << "/", "/" >>, << "}" >> } } \cup
             { << "/", "/" >> \o c \o << "\n" >> :
                 c \in { << >>, << "}" >>, << "\"" >>, << "\\", "\"" >>, << "/" >>, << "*" >>,
                        << " ", "/", "*" >>, << " ", "*", "/" >>, << "/", "*", " ", "*", "/" >> } }

JsonTokens ==
  {"{", "}", "[", "]", ":", ",", "\"", "\\", "n", "0", "1", "-", ".", "e", "inf", "true", " ", "^"}

JsonSeeds ==
  { Text!json_serialize_to_string(v) :
      v \in { << "array", << << "array", << One >> >>, String(<< >>) >> >>,
              << "object", << << << >>, One >>, << << "n" >>, One >> >> >>,
              << "object", << << << >>, << "object", << << << "\n" >>, One >> >> >> >> >> >> } }
  \cup { << "[", "1", "e", "1", "]" >>, << "[", "-", "nan", "]" >>,
         << "[", "-", "1", ".", "0", "1", "e", "+", "1", "]" >> }

(* A word is not put behind a backslash, where it would be its letters. *)
HasNoCutWord(t) == \A i \in DOMAIN t : (i < Len(t) /\ t[i] = "\\") => t[i + 1] \notin Text!Words \cup Text!NoDigits

-----------------------------------------------------------------------------
Init == subject = "none" /\ input = << >> /\ size = 0 /\ edits = 0 /\ DaysInit /\ TextInit

Take(s, inputs) ==
  /\ subject = "none" /\ subject' = s
  /\ input' \in inputs
  /\ UNCHANGED << size, edits, today, texts >>

Start ==
  \/ Take("text", {<< >>})
  \/ Take("json", {<< >>})
  \/ Take("edited", JsonSeeds)
  \/ Take("document", Documents)
  \/ Take("pair", Compared \X Compared)
  \/ Take("days", {<< >>})

JsonGrows ==
  /\ subject = "json" /\ size < MAXTOKENS
  /\ \E c \in JsonTokens : input' = Append(input, c)
  /\ HasNoCutWord(input')
  /\ size' = size + 1
  /\ UNCHANGED << subject, edits, today, texts >>

(* One character is put in, taken out, or put in place of another; two are *)
(* in a short text.                                                        *)
Edit ==
  /\ subject = "edited" /\ edits < (IF Len(input) <= 8 THEN 2 ELSE 1)
  /\ \E i \in DOMAIN input :
       \/ input' = RemoveAt(input, i)
       \/ \E c \in JsonTokens : input' \in {ReplaceAt(input, i, c), InsertAt(input, i, c)}
  /\ HasNoCutWord(input')
  /\ edits' = edits + 1
  /\ UNCHANGED << subject, size, today, texts >>

Others == UNCHANGED << subject, input, size, edits >>

TextTurn  == subject = "text" /\ TextGrows /\ Others /\ UNCHANGED today
DayPasses == subject = "days" /\ NextDay /\ Others /\ UNCHANGED texts

Next == Start \/ TextTurn \/ JsonGrows \/ Edit \/ DayPasses

Spec == Init /\ [][Next]_vars

-----------------------------------------------------------------------------
(* What is serialized is read back, or, too deep or with a control         *)
(* character, not at all.                                                  *)
ReadsBack == subject = "document" => Text!ReadsBack(input)

(* A document cut off is not read as a smaller one. *)
CutOffIsRefused == subject = "document" => Text!CutOffIsRefused(input)

(* remove_comments takes away a comment and nothing else, if its first  *)
(* pass is not misled.                                                  *)
CommentsAreSkipped == subject = "document" => Text!CommentsAreSkipped(input, Comments)

(* json_value_equals compares contents, whatever the order of members,  *)
(* and numbers to a millionth; json_validate does as documented, but    *)
(* for elements of arrays.                                              *)
ComparesContents == subject = "pair" => Text!ComparesContents(input[1], input[2])

(* The parser reads the grammar of JSON, and little more. *)
ReadsTheGrammar == subject \in {"json", "edited"} => Text!ReadsTheGrammar(input)
=============================================================================
