------------------------------ MODULE MCReplay ------------------------------
(* Replay for TLC: every text of up to four bytes of ordinary characters,    *)
(* spaces and two-byte characters, which is above, at and below each of the  *)
(* limits; uncompressed, compressed, compressed twice, and by a coding that  *)
(* httpmon does not know; arrived whole, in part or not at all, and closed    *)
(* before its end was met; and gRPC.                                          *)
EXTENDS Replay

Texts == {s \in SeqOf({<<"x">>, Space, Lead, Cont}, 4) : ValidUTF8(s)}
Short == {<<>>, <<<<"x">>>>, <<Lead, Cont>>, <<<<"x">>, Space, <<"x">>>>}

\* gRPC bodies of up to two messages.
Framed == {Frame(i) : i \in 0 .. 2} \cup {Frame(i) \o Frame(k) : i, k \in 0 .. 1}

Arrivals(m) ==
  UNION {{[m EXCEPT !.arrived = k, !.ended = e] : e \in {FALSE, k = Len(Wire(m))}} :
         k \in {Min({i, Len(Wire(m))}) : i \in {0, 2, 99}}}

Messages(types, codings, bodies) ==
  UNION {Arrivals([type |-> t, layers |-> c, body |-> b,
                   arrived |-> 0, ended |-> FALSE]) :
         t \in types, c \in codings, b \in bodies}

Answers(status, messages) ==
  {[status |-> status, type |-> m.type, layers |-> m.layers, body |-> m.body,
    arrived |-> m.arrived, ended |-> m.ended] : m \in messages}

\* A replay does not ask how a body ended.
EndedIfWhole(messages) == {m \in messages : m.ended <=> m.arrived = Len(Wire(m))}

Text == {"text"}
Get  == [type |-> "text", layers |-> <<>>, body |-> <<>>, arrived |-> 0, ended |-> TRUE]
Empty204 == [status |-> 204, type |-> "text", layers |-> <<>>, body |-> <<>>, arrived |-> 0,
             ended |-> TRUE]

MCExchanges ==
  [request : {Get},
   response : Answers(200, Messages(Text, {<<>>, <<"gzip">>}, Texts)
                           \cup Messages(Text, {<<"gzip", "br">>, <<"zz">>}, Short)
                           \cup Messages({"binary"}, {<<>>}, Short)
                           \cup Messages({"grpc"}, {<<>>}, Framed))]
  \cup [request : Messages(Text, {<<>>, <<"gzip">>}, Texts)
                  \cup Messages({"binary"}, {<<>>}, Short)
                  \cup Messages({"grpc"}, {<<>>}, Framed),
        response : {Empty204, [Empty204 EXCEPT !.status = 200,
                              !.body = <<<<"x">>, <<"x">>, <<"x">>>>, !.arrived = 3]}]

MCResponses ==
  Answers(200, {m \in EndedIfWhole(Messages(Text, {<<>>, <<"gzip">>}, Texts)) :
                  m.arrived > 2 \/ m.body = <<>>})
    \cup Answers(200, EndedIfWhole(Messages(Text, {<<>>, <<"gzip">>, <<"gzip", "br">>, <<"zz">>}, Short)))
    \cup Answers(200, EndedIfWhole(Messages({"binary"}, {<<>>}, Short)))
    \cup {Empty204}
=============================================================================
