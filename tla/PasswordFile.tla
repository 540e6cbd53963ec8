----------------------------- MODULE PasswordFile ----------------------------
(***************************************************************************)
(* The file of the account and the password: setpassword writes it,        *)
(* getpassword reads it back (web_pro.c), both with parson.                *)
(*                                                                         *)
(* The file is cut to nothing when it is opened and gets its text when it  *)
(* is closed.  The daemon may be stopped in between, the file may refuse   *)
(* to be opened, the text may find no room on the disk.                    *)
(*                                                                         *)
(* A text is plain, or it holds a control character, which parson prints   *)
(* as it is and refuses to read, or it is not UTF-8, which parson refuses  *)
(* as a string.  Quotes and backslashes are plain: JsonText shows that     *)
(* they come back.                                                         *)
(***************************************************************************)
EXTENDS Naturals

CONSTANTS
  Plain, Control, NotUtf8,    \* texts of the three kinds
  NoText                      \* no text, no file, nothing to write, no answer

VARIABLES
  file,       \* what is in the file
  saving,     \* setpassword's text, between fopen and fclose
  answer,     \* of the last getpassword
  newest,     \* history: the last text for which the file was opened
  disturbed   \* history: since then the daemon was stopped or the disk full

fileVars == << file, saving, answer, newest, disturbed >>

Texts == Plain \cup Control \cup NotUtf8

(* An object of at most two strings. *)
Strings == Plain \cup Control \cup {NoText}
Object  == [account : Strings, password : Strings]

(* Part of a text, or nothing: parson reads no value from it. *)
Broken == [account |-> "cut off"]

ASSUME TextAssumption ==
  /\ Plain \cap Control = {} /\ Plain \cap NotUtf8 = {} /\ Control \cap NotUtf8 = {}
  /\ NoText \notin Texts \cup Object \cup {Broken}

(* json_object_set_string of what is not UTF-8 adds nothing, and nobody    *)
(* looks at what it returns.                                               *)
json_object_set_string(text) == IF text \in NotUtf8 THEN NoText ELSE text

json_parse_file(f) ==
  IF f \in Object /\ f.account \notin Control /\ f.password \notin Control THEN f ELSE NoText

-----------------------------------------------------------------------------
(* The file that comes with the receiver, if any. *)
FileInit ==
  /\ file \in Object \cup {NoText} /\ newest = file
  /\ saving = NoText /\ answer = NoText /\ disturbed = FALSE

Opened(account, password) ==
  LET jv == [account  |-> json_object_set_string(account),
             password |-> json_object_set_string(password)]
  IN /\ saving' = jv /\ newest' = jv /\ disturbed' = FALSE
     /\ UNCHANGED answer

setpassword_keeps_old(account, password) ==     \* faulty: the file is not cut
  /\ saving = NoText
  /\ UNCHANGED file
  /\ Opened(account, password)

setpassword(account, password) ==
  /\ saving = NoText
  /\ file' = Broken
  /\ Opened(account, password)

(* A file that cannot be opened stays as it is, which                      *)
(* json_serialize_to_file reports as a success.                            *)
OpenFails ==
  /\ saving = NoText
  /\ UNCHANGED << file, saving, answer, newest, disturbed >>

Closed_early ==     \* faulty: the text is still in the buffer
  /\ saving # NoText
  /\ saving' = NoText
  /\ UNCHANGED << file, answer, newest, disturbed >>

Closed ==
  /\ saving # NoText
  /\ file' = saving /\ saving' = NoText
  /\ UNCHANGED << answer, newest, disturbed >>

DiskFull ==
  /\ saving # NoText
  /\ saving' = NoText /\ disturbed' = TRUE
  /\ UNCHANGED << file, answer, newest >>

(* The daemon ends, and is started again. *)
FileStops ==
  /\ saving' = NoText
  /\ disturbed' = (disturbed \/ saving # NoText)
  /\ UNCHANGED << file, answer, newest >>

(* Without a value there is no text and no answer. *)
getpassword ==
  /\ saving = NoText
  /\ answer' = json_parse_file(file)
  /\ UNCHANGED << file, saving, newest, disturbed >>

-----------------------------------------------------------------------------
FileTypeOK ==
  /\ file \in Object \cup {NoText, Broken} /\ saving \in Object \cup {NoText}
  /\ answer \in Object \cup {NoText} /\ newest \in Object \cup {NoText}
  /\ disturbed \in BOOLEAN

(* Undisturbed, a password that was set is kept, also over any number of   *)
(* stops later: the file reads as what was written, unless that held a     *)
(* control character, after which nothing can be read.                     *)
PasswordKept ==
  (newest # NoText /\ saving = NoText /\ ~ disturbed) =>
    \/ json_parse_file(file) = newest
    \/ newest.account \in Control \/ newest.password \in Control
=============================================================================
