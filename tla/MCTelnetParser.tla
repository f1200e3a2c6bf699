--------------------------- MODULE MCTelnetParser ---------------------------
(* TelnetParser with an array of three suboption bytes, and subnegotiations *)
(* that are empty, that just fit, that overrun the array, and that hold a   *)
(* 255 before what would be read as text, or as a command.                  *)
EXTENDS TelnetParser

MCPayload == { <<>>, <<"LF", "NUL">>, <<"CR", "LF", "LF", "SE">>,
               <<"IAC", "LF">>, <<"IAC", "WILL", "NUL">> }
=============================================================================
