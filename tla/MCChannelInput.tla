--------------------------- MODULE MCChannelInput ---------------------------
(* An instance of ChannelInput for TLC.  Of the lines one just fits into   *)
(* the buffer and one is too long.                                         *)
EXTENDS ChannelInput

MCSymbols == {"SYNC", "SPAWN", "1", "x", ",", "%", "NL", "0", "2", "5", "A", "C"}
MCHex == <<"2", "C">> :> "," @@ <<"2", "5">> :> "%" @@ <<"0", "A">> :> "NL"
MCCommands == {
    << <<"SYNC">> >>,
    << <<"SPAWN">>, <<>>, <<"%">> >>,
    << <<"SPAWN">>, <<"1">>, <<"x", "x", "NL">> >>,
    << <<"SPAWN">>, <<"1">>, <<",">> >> }
=============================================================================
