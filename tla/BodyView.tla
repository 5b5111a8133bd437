------------------------------ MODULE BodyView ------------------------------
(***************************************************************************)
(* What httpmon keeps of a body, and makes of it: captureLimitFor and      *)
(* decodeBody (stream.go), decompressBody (decompress.go), grpcSummary     *)
(* (grpc.go), the cut for display (main.go) and the JSON string of a       *)
(* recording (record.go).                                                  *)
(*                                                                         *)
(* A body is a sequence of bytes: <<"x">> is a byte of text, and           *)
(* <<"gzip", <<"x">>>> what gzip made of it.  A coding adds a header and a *)
(* trailer, and takes bytes one by one, so that a prefix of the coded body *)
(* decodes to a prefix of the body: the one thing about compression that   *)
(* the program relies on.                                                  *)
(***************************************************************************)
EXTENDS Integers, SequencesExt

CONSTANTS displayMaxBody,   \* --max-body
          captureMaxBody,   \* --max-capture
          maxDecompressed   \* the cap on decoded output

ASSUME LimitsAssumption == /\ displayMaxBody \in Nat \ {0} /\ captureMaxBody \in Nat
                           /\ maxDecompressed \in Nat \ {0}
                           /\ displayMaxBody <= captureMaxBody

-----------------------------------------------------------------------------
(* Bytes, and messages *)

Space == <<"space">>
Lead  == <<"lead">>     \* the two bytes of a two-byte character
Cont  == <<"cont">>
Bad   == <<"U+FFFD">>   \* what a JSON string has in the place of a stray byte

Placeholder == <<<<"placeholder">>>>   \* "[binary data, 12+ bytes]", "[br, 12+ bytes]"
Marker      == <<"truncated">>         \* "... [truncated]"

\* A gRPC message: a flag, a length, and so many bytes.  Two bytes stand for the five
\* of the flag and the length.
Frame(n) == <<<<"flag">>, <<"length", n>>>> \o [i \in 1 .. n |-> <<"payload">>]

Codings == {"gzip", "deflate", "br", "zstd"}

Header  == <<"head">>
Trailer == <<"tail">>

EncodeLayer(layer, data) ==
  LET whole == <<Header>> \o data \o <<Trailer>>
  IN [i \in 1 .. Len(data) + 2 |-> <<layer, whole[i]>>]

\* A body, and what the codings make of it one after the other.
Encoded(layers, body) ==
  LET Upon[k \in 0 .. Len(layers)] ==
        IF k = 0 THEN body ELSE EncodeLayer(layers[k], Upon[k - 1])
  IN Upon

\* A message has a type, its Content-Encoding, a body, the number of bytes of its
\* encoded body that came before its stream ended or was cut, and whether its reader
\* met the end: EOF, or the length declared.  One that stops short of that may have read
\* every byte all the same.
Wire(m) == Encoded(m.layers, m.body)[Len(m.layers)]

\* Where a body is cut into messages of gRPC, the last of which may be cut itself.
IsFramed(s) ==
  \E starts \in SUBSET (1 .. Len(s) + 1) :
    /\ 1 \in starts
    /\ \A k \in starts : k < Len(s) =>
         /\ Len(s[k + 1]) = 2 /\ s[k + 1][2] \in Nat
         /\ k + s[k + 1][2] + 1 <= Len(s) => k + s[k + 1][2] + 2 \in starts

\* The header and the trailer of a coding are no bytes of a body.
IsMessage(m) == /\ m.type \in {"text", "binary", "grpc"}
                /\ m.layers \in Seq(STRING)
                /\ m.body \in Seq(ToSet(m.body))
                /\ {Header, Trailer} \cap ToSet(m.body) = {}
                /\ m.arrived \in 0 .. Len(Wire(m))
                /\ m.ended \in BOOLEAN /\ (m.ended => m.arrived = Len(Wire(m)))
                /\ m.type = "grpc" => IsFramed(m.body)

Upto(s, k) == SubSeq(s, 1, Min({k, Len(s)}))

\* A byte that is no part of a character.
Stray(s, i) == \/ s[i] = Lead /\ (i = Len(s) \/ s[i + 1] # Cont)
               \/ s[i] = Cont /\ (i = 1 \/ s[i - 1] # Lead)
               \/ Len(s[i]) > 1

ValidUTF8(s) == \A i \in DOMAIN s : ~Stray(s, i)

\* strings.TrimSpace
TrimSpace(s) == LET ink == {i \in DOMAIN s : s[i] # Space}
                IN IF ink = {} THEN <<>> ELSE SubSeq(s, Min(ink), Max(ink))

-----------------------------------------------------------------------------
(* decompressBody *)

Failed == [ok |-> FALSE, data |-> <<>>, truncated |-> FALSE]

\* Of what a decoder gives before it meets the trailer (ended) or runs out of input.
readTolerant(data, ended) ==
  IF Len(data) >= maxDecompressed
    THEN [ok |-> TRUE, data |-> Upto(data, maxDecompressed), truncated |-> TRUE]
    ELSE [ok |-> ended \/ data # <<>>, data |-> data, truncated |-> ~ended /\ data # <<>>]

decodeLayer(layer, coded) ==
  IF layer \notin Codings \/ coded = <<>> \/ coded[1] # <<layer, Header>>
    THEN Failed
    ELSE LET ended == Last(coded) = <<layer, Trailer>>
             inner == SubSeq(coded, 2, Len(coded) - (IF ended THEN 1 ELSE 0))
         IN readTolerant([i \in DOMAIN inner |-> inner[i][2]], ended)

\* From the last coding applied to the first; a layer that is not whole is the last
\* that is decoded.
Decoded(layers, coded) ==
  LET After[k \in 0 .. Len(layers)] ==
        IF k = 0 THEN [ok |-> TRUE, data |-> coded, truncated |-> FALSE]
        ELSE LET r == After[k - 1]
             IN IF r.ok /\ ~r.truncated THEN decodeLayer(layers[Len(layers) + 1 - k], r.data) ELSE r
  IN After

decompressBody(layers, coded) == Decoded(layers, coded)[Len(layers)]

-----------------------------------------------------------------------------
(* captureBody *)

captureLimitFor(m, recording) ==
  IF recording \/ m.layers # <<>> THEN captureMaxBody ELSE displayMaxBody

\* What the messages in raw from byte k on come to; the last one may be cut.
MessagesFrom(raw) ==
  LET From[k \in 1 .. Len(raw) + 1] ==
        IF k > Len(raw) THEN [msgs |-> 0, payload |-> 0, partial |-> FALSE]
        ELSE IF k = Len(raw) THEN [msgs |-> 0, payload |-> 0, partial |-> TRUE]
        ELSE LET n == raw[k + 1][2]
             IN IF n \in 0 .. Len(raw) - k - 1
                  THEN LET rest == From[k + n + 2]
                       IN [msgs |-> rest.msgs + 1, payload |-> rest.payload + n, partial |-> rest.partial]
                  ELSE [msgs |-> 1, payload |-> n, partial |-> TRUE]
  IN From

grpcMessages(raw) == MessagesFrom(raw)[1]

\* "[gRPC: 2+ messages, 40+ payload bytes]": counts, and whether there may be more.
grpcSummary(raw, incomplete) ==
  LET all == grpcMessages(raw)
  IN <<<<"gRPC", all.msgs, all.payload, incomplete \/ all.partial>>>>

NoView == [text |-> <<>>, truncated |-> FALSE]

decodeBody(m, raw, incomplete) ==
  IF raw = <<>> THEN NoView
  ELSE CASE m.type = "grpc"  -> [text |-> grpcSummary(raw, incomplete), truncated |-> incomplete]
         [] m.type = "binary"-> [text |-> Placeholder, truncated |-> FALSE]
         [] m.type = "text"  ->
              LET r == decompressBody(m.layers, raw)
              IN IF r.ok THEN [text |-> r.data, truncated |-> r.truncated \/ incomplete]
                         ELSE [text |-> Placeholder, truncated |-> FALSE]

\* The report of the sampler: a prefix, and whether it may be less than the body
\* (module BodySampler).
Sampled(m, limit) == [raw |-> Upto(Wire(m), Min({limit, m.arrived})),
                      incomplete |-> m.arrived > limit \/ ~m.ended]

captureBody(m, recording) ==
  LET sample == Sampled(m, captureLimitFor(m, recording))
  IN decodeBody(m, sample.raw, sample.incomplete)

-----------------------------------------------------------------------------
(* What is done with a view *)

\* Mutant: only the cut made here is marked.
truncateForDisplay_Unmarked(v) ==
  IF Len(v.text) <= displayMaxBody THEN v.text
  ELSE LET cuts == {k \in 0 .. displayMaxBody : k = 0 \/ v.text[k + 1] # Cont}
       IN Append(Upto(v.text, Max(cuts)), Marker)

\* Backs off to the start of a character.
truncateForDisplay(v) ==
  IF Len(v.text) <= displayMaxBody
    THEN IF v.truncated THEN Append(v.text, Marker) ELSE v.text
    ELSE LET cuts == {k \in 0 .. displayMaxBody : k = 0 \/ v.text[k + 1] # Cont}
         IN Append(Upto(v.text, Max(cuts)), Marker)

\* What json.Decoder reads where json.Encoder wrote s.
ThroughJSON(s) == [i \in DOMAIN s |-> IF Stray(s, i) THEN Bad ELSE s[i]]
=============================================================================
