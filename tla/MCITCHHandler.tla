---------------------------- MODULE MCITCHHandler ----------------------------
(* Instances of ITCHHandler for TLC. *)
EXTENDS ITCHHandler

\* A message of a type and a length; every other byte tells its place.
Sent(type, length) == [k \in 1 .. length |-> IF k = 1 THEN type ELSE k]

Frame(body) == <<Len(body) \div 256, Len(body) % 256>> \o body

\* All types with the sizes their decoders accept, one of no known type, an empty one,
\* and one of a wrong size near the end.
AllMessages ==
    <<Sent(83, 12), Sent(82, 39), Sent(72, 25), Sent(89, 20), Sent(76, 26), Sent(86, 35),
      Sent(87, 12), Sent(75, 28), Sent(65, 36), Sent(70, 40), Sent(69, 31), Sent(67, 36),
      << >>, Sent(85, 35), Sent(80, 44), Sent(81, 40), Sent(66, 19), Sent(73, 50), Sent(78, 20),
      Sent(74, 35), << >>, << >>, Sent(1, 1), Sent(88, 23), Sent(68, 19), Sent(88, 24),
      Sent(1, 2)>>

WireOf(messages) == FlattenSeq([i \in DOMAIN messages |-> Frame(messages[i])])

OffsetsOf(messages) ==
    [i \in 1 .. Len(messages) + 1 |-> Len(WireOf(SubSeq(messages, 1, i - 1)))]

AllOnWire == WireOf(AllMessages)
AllOffsets == OffsetsOf(AllMessages)
=============================================================================
