--------------------------- MODULE MCChatConsole ---------------------------
(* Instances of ChatConsole for TLC. *)
EXTENDS ChatConsole

MCTwoMails == {<<"send_report_email", "send_report_email">>}
MCOneMail == {<<"send_report_email">>}
=============================================================================
