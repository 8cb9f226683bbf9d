------------------------------- MODULE Output -------------------------------
(***************************************************************************)
(* What becomes of a command's output: the stream that the dispatch wrapper *)
(* writes, its parts, and how the gathered parts are decoded, capped and    *)
(* classified (command_execution.py, data_handling.py).  Constant-level.    *)
(*                                                                          *)
(* A stream is a sequence of bytes: "a" a printable character, "nl" a       *)
(* newline, digits, "nul", "x1f" a control character, <<"xc3", "x8b">> one  *)
(* character of UTF-8, <<"x1f", "x8b">> the head of a gzip file, and the    *)
(* marker __RC__: cut in two.  Base64 carries whole bytes, for the chunk    *)
(* size is a multiple of four, so a part is a run of bytes.                 *)
(***************************************************************************)
EXTENDS Integers, SequencesExt

CONSTANTS
  PartBytes,   \* the bytes of one part: three quarters of output_chunk_bytes
  Cap,         \* settings.max_output_bytes, or run()'s max_bytes
  SniffBytes   \* _SNIFF_BYTES

ASSUME OutputAssumption ==
  PartBytes \in Nat \ {0} /\ Cap \in Nat /\ SniffBytes \in Nat \ {0}

Digit == {"0", "1"}
Printable == {"a", "m1", "m2", "nl"} \cup Digit
Byte == Printable \cup {"nul", "x1f", "xc3", "x8b"}
Marker == <<"m1", "m2">>
Missing == -1

Cut(s, n) == SubSeq(s, 1, IF n < Len(s) THEN n ELSE Len(s))
From(s, i) == SubSeq(s, i, Len(s))

-----------------------------------------------------------------------------
(* The host's side: { ( command ); echo "__RC__:$?"; }, encoded and split.  *)

Stream(printed, code) == printed \o Marker \o code \o <<"nl">>

NumParts(s) == (Len(s) + PartBytes - 1) \div PartBytes

Part(s, i) == Cut(From(s, (i - 1) * PartBytes + 1), PartBytes)

-----------------------------------------------------------------------------
(* _decode_payload()                                                        *)

MarkersIn(s) == {i \in 1..(Len(s) - 1) : SubSeq(s, i, i + 1) = Marker}

\* Seeded defect: find() instead of rfind().
FirstMarker(s) ==
  CHOOSE i \in MarkersIn(s) : \A j \in MarkersIn(s) : i <= j

LastMarker(s) ==
  CHOOSE i \in MarkersIn(s) : \A j \in MarkersIn(s) : j <= i

FirstLine(s) == SelectInSeq(s, LAMBDA b : b = "nl")

LineOf(s) == IF Contains(s, "nl") THEN Cut(s, FirstLine(s) - 1) ELSE s

ValueOf(digits) ==
  FoldLeft(LAMBDA n, d : 10 * n + (IF d = "1" THEN 1 ELSE 0), 0, digits)

(* int() of the digits, or no exit code.                                    *)
Number(s) == IF s # <<>> /\ ToSet(s) \subseteq Digit THEN ValueOf(s) ELSE Missing

(* A newline before the marker is taken for echo's.                         *)
Shorn(s) == IF s # <<>> /\ s[Len(s)] = "nl" THEN Cut(s, Len(s) - 1) ELSE s

\* Seeded defect: an output without the marker passes for success.
DecodedAsSuccess(s) ==
  IF MarkersIn(s) = {} THEN [body |-> s, code |-> 0]
  ELSE [body |-> Shorn(Cut(s, LastMarker(s) - 1)),
        code |-> Number(LineOf(From(s, LastMarker(s) + 2)))]

Decoded(s) ==
  IF MarkersIn(s) = {} THEN [body |-> s, code |-> Missing]
  ELSE [body |-> Shorn(Cut(s, LastMarker(s) - 1)),
        code |-> Number(LineOf(From(s, LastMarker(s) + 2)))]

-----------------------------------------------------------------------------
(* looks_binary(), decode_text(), finalize_output()                         *)

HasMagic(s) == IsPrefix(<<"x1f", "x8b">>, s)

Utf8(s) ==
  \A i \in DOMAIN s :
    /\ s[i] = "xc3" => i < Len(s) /\ s[i + 1] = "x8b"
    /\ s[i] = "x8b" => i > 1 /\ s[i - 1] = "xc3"

(* More than three in ten are control characters.                           *)
MostlyControl(s) ==
  10 * Cardinality({i \in DOMAIN s : s[i] \in {"nul", "x1f"}}) > 3 * Len(s)

LooksBinary(s) ==
  LET sample == Cut(s, SniffBytes)
  IN  \/ HasMagic(s)
      \/ Contains(sample, "nul")
      \/ ~Utf8(sample) /\ MostlyControl(sample)

(* Bytes that are no UTF-8 are read by the first of the other decoders that *)
(* takes them; Latin-1 takes all.                                           *)
DecodeText(s) == IF Utf8(s) THEN "utf-8" ELSE "other"

Finalize(s) ==
  LET kept == Cut(s, Cap)
  IN  [bytes |-> kept, truncated |-> Len(s) > Cap,
       form |-> IF LooksBinary(kept) THEN "binary" ELSE DecodeText(kept)]
=============================================================================
