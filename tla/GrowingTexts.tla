---------------------------- MODULE GrowingTexts ----------------------------
(***************************************************************************)
(* Queries, strings and escapes that grow, piece by piece, and what        *)
(* url_parser.c and parson.c make of each of them.                         *)
(***************************************************************************)
EXTENDS UrlParser, Utf8

CONSTANT MAXTOKENS          \* bound on the pieces of a text

VARIABLES kind, text, tokens

texts == << kind, text, tokens >>

-----------------------------------------------------------------------------
(* Queries: characters and escapes, with a parameter in front, of escapes  *)
(* or not, or without.                                                     *)
QueryTokens ==
  { << "x" >>, << "y" >>, << "=" >>, << "&" >>, << "%" >>, << "2" >>, << "+" >>, << " " >>,
    << "%", "2", "6" >>, << "%", "3", "D" >>, << "%", "0", "0" >>, << "%", "2", "B" >> }

QuerySeeds ==
  { << >>, << "x", "=", "y", "&" >>, << "x", "=", "%", "2", "6", "%", "2", "6", "&" >> }
QueryNames == { << "x" >>, << "y", "x" >> }

(* Both sides of each boundary between forms. *)
ByteTokens ==
  {65, 127, 128, 143, 144, 159, 160, 191, 193, 194, 223, 224, 237, 239, 240, 244, 245}
UnitTokens ==
  {-1, 0, 65, 127, 128, 2047, 2048, 55295, 55296, 56319, 56320, 57343, 57344, 65535}

-----------------------------------------------------------------------------
TextInit == kind = "none" /\ text = << >> /\ tokens = 0

Begin(k, seeds) ==
  /\ kind = "none" /\ kind' = k
  /\ text' \in seeds
  /\ UNCHANGED tokens

GrowBy(k, pieces) ==
  /\ kind = k /\ tokens < MAXTOKENS
  /\ \E piece \in pieces : text' = text \o piece
  /\ tokens' = tokens + 1
  /\ UNCHANGED kind

TextBegins ==
  \/ Begin("query", QuerySeeds)
  \/ Begin("bytes", {<< >>})
  \/ Begin("units", {<< >>})

QueryGrows == GrowBy("query", QueryTokens)
BytesGrow  == GrowBy("bytes", {<< b >> : b \in ByteTokens})
UnitsGrow  == GrowBy("units", {<< u >> : u \in UnitTokens})

TextGrows == TextBegins \/ QueryGrows \/ BytesGrow \/ UnitsGrow

TextSpec == TextInit /\ [][TextGrows]_texts

-----------------------------------------------------------------------------
(* The value found for a name is that of its first parameter, whatever     *)
(* escapes are in it (url_decode, get_param_value).                        *)
FindsTheParameter ==
  kind = "query" => \A name \in QueryNames : ParameterIsFound(text, name)

(* The loops over get_param_array, whose length is never shortened, find   *)
(* all values in order, then what decoding left behind the query, and stay *)
(* in the buffer.                                                          *)
CollectsTheList ==
  kind = "query" => \A name \in QueryNames : ListIsCollected(text, name)

(* is_valid_utf8 accepts what Unicode calls well formed. *)
LetsInWellFormed == kind = "bytes" => OnlyTextIsLetIn(text)

(* parse_utf_16 turns escapes into the code points they name. *)
EscapesBecomeText == kind = "units" => EscapesAreText(text)
=============================================================================
