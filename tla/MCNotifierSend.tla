--------------------------- MODULE MCNotifierSend ---------------------------
(* Small instances of NotifierSend for TLC. *)
EXTENDS NotifierSend

CONSTANTS a, b, t

TwoWhatsApp == {a, b}
OneTelegram == {t}
SecondJob == {b}
=============================================================================
