------------------------------- MODULE MCWire -------------------------------
(***************************************************************************)
(* An instance of Wire with MaxFrameSize = 143 and MaxUint8 = 8, so that   *)
(* an encrypted payload has at most 87 bytes and a sequence 35 fields.     *)
(* The sizes lie around every limit of the code.                           *)
(***************************************************************************)
EXTENDS Wire

Pads == {0, 1, 3, 4, MaxUint8}
Sizes == 0..8 \cup 66..90 \cup 136..145
Short == {0, 1, 2, 5}
Booleans == BOOLEAN

Empties(n) == [i \in 1..n |-> Field(i, 0)]

FieldLists ==
  {<<>>} \cup {<<Field(1, n)>> : n \in Sizes}
    \cup {<<Field(1, m), Field(t, n)>> : m \in Short \cup {38, 39, 72}, t \in {1, 2}, n \in Sizes}
    \cup {Empties(n) : n \in {3, 19, 20, 21, 34, 35, 36}}

Texts == {Text(n, u) : n \in Sizes, u \in Booleans}

Call(via, kind, message, p, pad, fields, o) ==
  [ via |-> via, kind |-> kind, message |-> message, payload |-> p, pad |-> pad,
    fields |-> fields, octets |-> o ]
Sent(via, message, pad) == Call(via, message.kind, message, None, pad, <<>>, None)
Payload(kind, p, pad) == Call("payload", kind, None, p, pad, <<>>, None)

Messages ==
  {[kind |-> "data", fields |-> f] : f \in FieldLists}
    \cup {[kind |-> "close", code |-> c, text |-> t] : c \in {0, 3, 4}, t \in Texts}
    \cup {[kind |-> "error", text |-> t] : t \in Texts}
    \cup {[kind |-> "ack", count |-> n] : n \in {0, 1, MaxUint8, MaxUint8 + 1}}
    \cup {[kind |-> "ping", response |-> b] : b \in Booleans}

Flights ==
  {[kind |-> k, pattern |-> p, noise |-> n] :
     k \in {"init", "response", "finish"}, p \in {"XX", "IK"}, n \in {0, 63, 64}}

DataCalls ==
  {Call("payload", "data", None, DataPayload(4 + n, z, Cut(f, n)), pad, f, None) :
     n \in 0..12 \cup 80..85, z \in Booleans, pad \in {0, 3}, f \in
     {<<Field(1, a), Field(2, b)>> : a \in 0..6 \cup {78}, b \in {0, 1, 4, 68}} \cup {<<>>}}

OtherCalls ==
  {Payload("data", DataPayload(n, TRUE, NoTLV), 0) : n \in 0..3}
    \cup {Payload("ack", AckPayload(n, c), 0) : n \in {0, 1, 9, 17}, c \in {0, 1, 2}}
    \cup {Payload("ping", PingPayload(n, f), 0) : n \in {8, 9, 10}, f \in 0..2}
    \cup {Payload("error", RawPayload(n, u), 0) : n \in {0, 1, 2, 87, 88}, u \in Booleans}
    \cup {Payload("close", TextPayload(2 + n, c, Cut(<<Field(t, a)>>, n), u), 0) :
             n \in {0, 3, 4, 8, 84, 85}, c \in {0, 3, 4}, t \in {1, 2},
             a \in {0, 1, 5, 81, 82}, u \in Booleans}
    \cup {Payload(k, RawPayload(4, TRUE), 0) : k \in {"ticket", "rekey", "init"}}

Headers ==
  [ version : {0, 1}, type : {"ping", "ticket", "init"}, padding : Booleans, unknown : Booleans,
    payloadLength : {9, 87, 88, 103, 104}, padLength : {0, 1, MaxUint8} ]

Ping == [kind |-> "ping", response |-> FALSE]

PeerCalls ==
  {Call("peer", "ping", Ping, None, 0, <<>>,
        [ kind |-> "OK", header |-> h, len |-> FrameSize(h) + d,
          sealed |-> IF s THEN [aad |-> <<h, h.padLength>>, text |-> PingPayload(9, 0)] ELSE None ]) :
     h \in {x \in Headers : x.payloadLength = 9}, d \in {-1, 0, 1}, s \in Booleans}
    \cup {Call("peer", "ping", Ping, None, 0, <<>>,
                [kind |-> "OK", header |-> h, len |-> FrameSize(h), sealed |-> None]) : h \in Headers}

MCCalls ==
  {Sent("send", m, pad) : m \in Messages, pad \in Pads}
    \cup {Sent("session", [kind |-> "rekey", epoch |-> e], pad) : e \in {2, 3}, pad \in Pads}
    \cup {Sent("flight", [m EXCEPT !.pattern = IF m.kind = "init" THEN @ ELSE "XX"], 0) : m \in Flights}
    \cup DataCalls \cup OtherCalls \cup PeerCalls
=============================================================================
