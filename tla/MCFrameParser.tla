--------------------------- MODULE MCFrameParser ---------------------------
(* Instance of FrameParser for TLC: an acknowledgement, and a response of  *)
(* two payload bytes that may read like the beginning, the end or the      *)
(* whole of another frame.                                                 *)
EXTENDS FrameParser

MCCommand == {<<"A">>, <<"H", "R">>}
MCSize == [c \in MCCommand |-> IF c = <<"A">> THEN 0 ELSE 2]
Check(x, y) == IF x = y THEN "E" ELSE "S"
MCSound == {[cmd |-> <<"A">>, body |-> <<"S">>]} \cup
           {[cmd |-> <<"H", "R">>, body |-> <<x, y, Check(x, y)>>] :
                x \in {"S", "E", "H"}, y \in {"A", "E", "R"}}

\* INBOUND_COMMANDS itself meets what the proofs assume of Command, Size and
\* Limit.
Inbound == {<<<<"A">>, 0>>, <<<<"N">>, 0>>} \cup
           {<<<<"H", c>>, n>> : <<c, n>> \in
              {<<"A", 66>>, <<"C", 66>>, <<"F", 16>>, <<"L", 20>>, <<"P", 14>>,
               <<"Q", 15>>, <<"R", 6>>, <<"U", 8>>, <<"V", 11>>, <<"X", 8>>}}
ASSUME InboundIsPrefixFree ==
    \A p, q \in Inbound :
        Len(p[1]) <= Len(q[1]) /\ (\A i \in 1 .. Len(p[1]) : p[1][i] = q[1][i])
          => p = q
ASSUME InboundFits == \A p \in Inbound : Len(p[1]) + p[2] + 3 <= 128
=============================================================================
