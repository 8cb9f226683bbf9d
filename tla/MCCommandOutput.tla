--------------------------- MODULE MCCommandOutput ---------------------------
(* CommandOutput with every short output and a few longer ones: markers and *)
(* characters that lie across parts, the sniffed window and the cap.        *)
EXTENDS CommandOutput

MCPrinted ==
  UNION {[1..n -> Byte \ {"m1", "0"}] : n \in 0..2}
    \cup {<<"m1", "m2", "1", "nl">>, <<"a", "m1", "m2", "1", "nl">>,
          <<"m1", "a", "a", "m2", "1", "nl">>, <<"m1", "m2", "a", "nl", "nl">>,
          <<"a", "xc3", "x8b", "xc3", "x8b">>, <<"xc3", "x8b", "a", "xc3", "x8b", "nl">>,
          <<"x1f", "a", "xc3", "x8b">>, <<"a", "a", "a", "nul">>, <<"xc3", "a", "nl">>}
MCExitDigits == {<<"0">>, <<"1", "0">>}
=============================================================================
