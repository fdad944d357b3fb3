------------------------------- MODULE MonitorMC ------------------------------
(* Instance of Monitor for TLC, scaled down: binary digits, addresses of two   *)
(* of them and bytes of one, so that four bytes are the memory, two are a row, *)
(* and an instruction is two bytes.  "Q" is any character that means nothing.  *)
EXTENDS Monitor, TLC

MCChars == {"0", "1", ".", ":", "R", " ", "Q"}

MCDigits == ("0" :> 0) @@ ("1" :> 1)

MCExit == <<"Q", "Q">>

MCPs == <<"Q">>
===============================================================================
