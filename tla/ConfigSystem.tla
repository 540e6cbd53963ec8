---------------------------- MODULE ConfigSystem -----------------------------
(***************************************************************************)
(* The configuration page as a whole: ConfigCommands, whose requests write *)
(* commands to the decoder, and PasswordFile, which one of them writes and *)
(* a guide page reads.  Callbacks do not overlap: a request is served to   *)
(* its end before the next begins.  The daemon may be stopped in the       *)
(* middle of any, and is started again.                                    *)
(***************************************************************************)
EXTENDS ConfigCommands, PasswordFile

SystemVars == << vars, fileVars >>

SystemInit == Init /\ FileInit

Both(r) == Has(r.params, "account") /\ Has(r.params, "password")

Text(r, name) == get_param_value(r.params, name)

ASSUME PasswordContract ==
  \A r \in Requests : (r.config = "setpassword" /\ Both(r)) =>
    Text(r, "account") \in Texts /\ Text(r, "password") \in Texts

(* setpassword does nothing unless it is given both. *)
Serve(r) ==
  /\ web_pro(r)
  /\ IF r.config = "setpassword" /\ Both(r)
       THEN \/ setpassword(Text(r, "account"), Text(r, "password"))
            \/ OpenFails
       ELSE UNCHANGED fileVars

Finish == saving = NoText /\ Return

ReadPassword ==
  /\ outcome # "writing"
  /\ getpassword
  /\ UNCHANGED vars

DaemonStops ==
  /\ FileStops
  /\ todo' = << >> /\ outcome' = (IF outcome = "writing" THEN "failed" ELSE outcome)
  /\ UNCHANGED << request, sent, decoder >>

SystemNext ==
  \/ \E r \in Requests : Serve(r)
  \/ /\ Commands \/ DecoderDies \/ DecoderStarts \/ Finish
     /\ UNCHANGED fileVars
  \/ /\ Closed \/ DiskFull
     /\ UNCHANGED vars
  \/ ReadPassword
  \/ DaemonStops

SystemSpec == SystemInit /\ [][SystemNext]_SystemVars

-----------------------------------------------------------------------------
(* An account is answered with the password that was set with it, and both *)
(* are the newest the file was opened for: whatever stops and full disks   *)
(* there were, nobody is shown an older password as the one in force, nor  *)
(* half of a new one.                                                      *)
AnswerIsNewest == [][ (ReadPassword /\ answer' # NoText) => answer' = newest ]_SystemVars
=============================================================================
