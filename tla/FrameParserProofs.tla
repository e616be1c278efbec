------------------------- MODULE FrameParserProofs -------------------------
(***************************************************************************)
(* Proofs about FrameParser, for every table of commands none of which is  *)
(* the beginning of another, every size of their payloads, every checksum  *)
(* and every buffer limit no frame exceeds.                                *)
(***************************************************************************)
EXTENDS FrameParser, TLAPS

-----------------------------------------------------------------------------
\* Where the i-th byte of a body is in its frame.
LEMMA Offsets ==
    ASSUME NEW k \in Nat \ {0}, NEW n \in Nat, NEW i \in 1 .. n
    PROVE  /\ i + k + 1 \in 1 .. k + n + 2 /\ i + k + 1 # 1
           /\ ~(i + k + 1 <= k + 1)
           /\ i + k + 1 < k + n + 2
           /\ (i + k + 1) - k - 1 = i
OBVIOUS

\* A frame: its bytes, its length, its ends.
LEMMA FrameFacts ==
    ASSUME NEW m \in Sound
    PROVE  /\ m.cmd \in Command /\ m.cmd \in Seq(Byte) /\ Len(m.cmd) \in {1, 2}
           /\ m.body \in Seq(Byte) /\ Len(m.body) = Size[m.cmd] + 1
           /\ Size[m.cmd] \in Nat
           /\ m = [cmd |-> m.cmd, body |-> m.body]
           /\ Whole(m) \in Nat /\ Whole(m) = Len(m.cmd) + Size[m.cmd] + 3
           /\ 4 <= Whole(m) /\ Whole(m) <= Limit
           /\ FrameOf(m)[1] = S
           /\ \A i \in 1 .. Whole(m) : FrameOf(m)[i] \in Byte
<1>1. /\ m \in Message /\ Len(m.body) = Size[m.cmd] + 1
  BY SoundAssumption
<1>2. m.cmd \in Command /\ m.body \in Seq(Byte)
      /\ m = [cmd |-> m.cmd, body |-> m.body]
  BY <1>1 DEF Message
<1>3. m.cmd \in Seq(Byte) /\ Len(m.cmd) \in {1, 2} /\ Size[m.cmd] \in Nat
  BY <1>2, CommandsAssumption
<1>4. Whole(m) = Len(m.cmd) + Size[m.cmd] + 3
  BY DEF Whole, FrameLength
<1>5. Whole(m) <= Limit
  BY <1>2, LimitAssumption DEF Whole
<1>6. Whole(m) \in Nat /\ 4 <= Whole(m)
  <2>1. CASE Len(m.cmd) = 1
    BY <1>3, <1>4, <2>1
  <2>2. CASE Len(m.cmd) = 2
    BY <1>3, <1>4, <2>2
  <2> QED BY <1>3, <2>1, <2>2
<1>7. FrameOf(m)[1] = S
  BY <1>3, <1>6 DEF FrameOf, Whole
<1>8. ASSUME NEW i \in 1 .. Whole(m)
      PROVE  FrameOf(m)[i] \in Byte
  <2>1. FrameOf(m)[i] = IF i = 1 THEN S
                        ELSE IF i <= Len(m.cmd) + 1 THEN m.cmd[i - 1]
                        ELSE IF i < Whole(m) THEN m.body[i - Len(m.cmd) - 1]
                        ELSE E
    BY DEF FrameOf, Whole
  <2>2. CASE i = 1
    BY <2>1, <2>2, BytesAssumption
  <2>3. CASE i # 1 /\ i <= Len(m.cmd) + 1
    <3>1. i - 1 \in 1 .. Len(m.cmd)
      BY <2>3, <1>3
    <3> QED BY <3>1, <2>1, <2>3, <1>3
  <2>4. CASE Len(m.cmd) + 1 < i /\ i < Whole(m)
    <3>1. i - Len(m.cmd) - 1 \in 1 .. Len(m.body)
      BY <2>4, <1>1, <1>3, <1>4
    <3>2. i # 1 /\ ~(i <= Len(m.cmd) + 1)
      BY <2>4, <1>3
    <3> QED BY <3>1, <3>2, <2>1, <2>4, <1>2
  <2>5. CASE i = Whole(m)
    <3>1. i # 1 /\ ~(i <= Len(m.cmd) + 1) /\ ~(i < Whole(m))
      BY <2>5, <1>3, <1>4
    <3> QED BY <3>1, <2>1, BytesAssumption
  <2> QED BY <2>2, <2>3, <2>4, <2>5, <1>3, <1>6
<1> QED BY <1>1, <1>2, <1>3, <1>4, <1>5, <1>6, <1>7, <1>8

\* A buffer that is the beginning of a frame is no frame of another command.
LEMMA OnlyItsCommand ==
    ASSUME NEW m \in Sound, NEW b \in Seq(Byte), Len(b) <= Whole(m),
           \A i \in 1 .. Len(b) : b[i] = FrameOf(m)[i],
           NEW c \in Matches(b)
    PROVE  c = m.cmd
<1>1. /\ m.cmd \in Command /\ m.cmd \in Seq(Byte) /\ Len(m.cmd) \in {1, 2}
      /\ Size[m.cmd] \in Nat
      /\ Whole(m) = Len(m.cmd) + Size[m.cmd] + 3
  BY FrameFacts
<1>2. /\ c \in Command /\ Len(c) \in {1, 2} /\ Size[c] \in Nat
      /\ Len(b) = Len(c) + Size[c] + 3
      /\ \A i \in 1 .. Len(c) : b[i + 1] = c[i]
  BY CommandsAssumption DEF Matches, FrameLength
<1>3. Len(b) \in Nat /\ 4 <= Len(b)
  <2>1. CASE Len(c) = 1
    BY <1>2, <2>1
  <2>2. CASE Len(c) = 2
    BY <1>2, <2>2
  <2> QED BY <1>2, <2>1, <2>2
<1>4. ASSUME NEW i \in 1 .. Len(m.cmd)
      PROVE  b[i + 1] = m.cmd[i]
  <2>1. i + 1 \in 1 .. Len(b)
    BY <1>1, <1>3
  <2>2. b[i + 1] = FrameOf(m)[i + 1]
    BY <2>1
  <2>3. /\ i + 1 \in 1 .. FrameLength(m.cmd) /\ i + 1 # 1
        /\ i + 1 <= Len(m.cmd) + 1 /\ (i + 1) - 1 = i
    BY <1>1, <2>1 DEF FrameLength
  <2>4. FrameOf(m)[i + 1] = m.cmd[i]
    BY <2>3 DEF FrameOf
  <2> QED BY <2>2, <2>4
<1>5. CASE Len(c) <= Len(m.cmd)
  <2>1. \A i \in 1 .. Len(c) : c[i] = m.cmd[i]
    BY <1>1, <1>2, <1>4, <1>5
  <2> QED BY <2>1, <1>1, <1>2, <1>5, PrefixAssumption
<1>6. CASE Len(m.cmd) <= Len(c)
  <2>1. \A i \in 1 .. Len(m.cmd) : m.cmd[i] = c[i]
    BY <1>1, <1>2, <1>4, <1>6
  <2> QED BY <2>1, <1>1, <1>2, <1>6, PrefixAssumption
<1> QED BY <1>1, <1>2, <1>5, <1>6

\* Before its last byte a frame does not end, whatever E it contains.
LEMMA NoEarlyEnd ==
    ASSUME NEW m \in Sound, NEW b \in Seq(Byte), Len(b) < Whole(m),
           \A i \in 1 .. Len(b) : b[i] = FrameOf(m)[i]
    PROVE  Matches(b) = {}
<1>1. Len(b) \in Nat /\ Whole(m) \in Nat
  BY FrameFacts
<1>2. SUFFICES ASSUME NEW c \in Matches(b) PROVE FALSE
  OBVIOUS
<1>3. c = m.cmd
  BY <1>1, OnlyItsCommand
<1>4. Len(b) = FrameLength(m.cmd)
  BY <1>3 DEF Matches
<1> QED BY <1>1, <1>4 DEF Whole

\* At its last byte it does, and its contents are the message.
LEMMA WholeFrame ==
    ASSUME NEW m \in Sound, NEW b \in Seq(Byte), Len(b) = Whole(m),
           \A i \in 1 .. Len(b) : b[i] = FrameOf(m)[i]
    PROVE  /\ Matches(b) # {}
           /\ Contents(b) = m
           /\ b[Len(b)] = E
<1>1. /\ m.cmd \in Command /\ m.cmd \in Seq(Byte) /\ Len(m.cmd) \in {1, 2}
      /\ m.body \in Seq(Byte) /\ Len(m.body) = Size[m.cmd] + 1
      /\ Size[m.cmd] \in Nat
      /\ m = [cmd |-> m.cmd, body |-> m.body]
      /\ Whole(m) \in Nat /\ Whole(m) = Len(m.cmd) + Size[m.cmd] + 3
      /\ 4 <= Whole(m)
  BY FrameFacts
<1>2. ASSUME NEW i \in 1 .. Len(m.cmd)
      PROVE  b[i + 1] = m.cmd[i]
  <2>1. /\ i + 1 \in 1 .. Len(b) /\ i + 1 # 1
        /\ i + 1 <= Len(m.cmd) + 1 /\ (i + 1) - 1 = i
    <3>1. Len(m.cmd) \in Nat /\ i \in Nat /\ 1 <= i /\ i <= Len(m.cmd)
      BY <1>1
    <3>2. Len(b) \in Nat /\ i + 1 <= Len(b)
      <4>1. Len(m.cmd) + 1 <= Whole(m) /\ Whole(m) \in Nat
        BY <3>1, <1>1
      <4> QED BY <3>1, <4>1
    <3> QED BY <3>1, <3>2
  <2>2. FrameOf(m)[i + 1] = m.cmd[i]
    BY <2>1 DEF FrameOf, Whole
  <2> QED BY <2>1, <2>2
<1>3. m.cmd \in Matches(b)
  BY <1>1, <1>2 DEF Matches, Whole
<1>4. \A c \in Matches(b) : c = m.cmd
  <2>1. Len(b) <= Whole(m)
    BY <1>1
  <2> QED BY <2>1, OnlyItsCommand
<1>5. Matched(b) = m.cmd
  <2>1. \A d \in Matches(b) : Len(d) <= Len(m.cmd)
    BY <1>1, <1>4
  <2>2. \E c \in Matches(b) : \A d \in Matches(b) : Len(d) <= Len(c)
    BY <1>3, <2>1
  <2>3. Matched(b) \in Matches(b)
    BY <2>2 DEF Matched
  <2> QED BY <2>3, <1>4
<1>6. Len(b) - Len(m.cmd) - 2 = Len(m.body)
  BY <1>1
<1>7. ASSUME NEW i \in 1 .. Len(m.body)
      PROVE  b[i + Len(m.cmd) + 1] = m.body[i]
  <2> DEFINE j == i + Len(m.cmd) + 1
  <2>1. /\ j \in 1 .. Len(b) /\ j # 1 /\ ~(j <= Len(m.cmd) + 1)
        /\ j < Whole(m) /\ j - Len(m.cmd) - 1 = i
    <3>1. Len(m.cmd) \in Nat \ {0} /\ Len(m.body) \in Nat
      <4>1. Len(m.cmd) = 1 \/ Len(m.cmd) = 2
        BY <1>1
      <4>2. Len(m.cmd) \in Nat \ {0}
        BY <4>1
      <4>3. m.body \in Seq(Byte)
        BY <1>1
      <4>4. Len(m.body) \in Nat
        BY <4>3
      <4> QED BY <4>2, <4>4
    <3>2. Whole(m) = Len(m.cmd) + Len(m.body) + 2
      BY <1>1
    <3>3. Len(b) = Len(m.cmd) + Len(m.body) + 2
      BY <3>2
    <3> HIDE <1>1
    <3>4. /\ j \in 1 .. Len(m.cmd) + Len(m.body) + 2 /\ j # 1
          /\ ~(j <= Len(m.cmd) + 1)
          /\ j < Len(m.cmd) + Len(m.body) + 2
          /\ j - Len(m.cmd) - 1 = i
      BY <3>1, Offsets
    <3> HIDE DEF j
    <3> QED BY <3>2, <3>3, <3>4
  <2>2. FrameOf(m)[j] = m.body[j - Len(m.cmd) - 1]
    <3> HIDE DEF j
    <3> QED BY <2>1 DEF FrameOf, Whole
  <2> QED BY <2>1, <2>2
<1>8. [i \in 1 .. Len(b) - Len(m.cmd) - 2 |-> b[i + Len(m.cmd) + 1]] = m.body
  <2>1. m.body = [i \in 1 .. Len(m.body) |-> m.body[i]]
    BY <1>1
  <2> QED BY <2>1, <1>6, <1>7
<1>9. Contents(b) = m
  BY <1>1, <1>5, <1>8 DEF Contents
<1>10. b[Len(b)] = E
  <2>1. /\ Whole(m) \in 1 .. Len(b) /\ Whole(m) # 1
        /\ ~(Whole(m) <= Len(m.cmd) + 1) /\ ~(Whole(m) < Whole(m))
    BY <1>1
  <2>2. FrameOf(m)[Whole(m)] = E
    BY <2>1 DEF FrameOf, Whole
  <2> QED BY <2>1, <2>2
<1> QED BY <1>3, <1>9, <1>10

-----------------------------------------------------------------------------
LEMMA Nothing ==
    <<>> \in Seq(Byte) /\ Len(<<>>) <= Limit /\ <<>> \in Seq(Sound)
<1>1. Limit \in Nat
  BY LimitAssumption
<1>2. Len(<<>>) = 0
  OBVIOUS
<1>3. <<>> \in Seq(Byte)
  OBVIOUS
<1>4. <<>> \in Seq(Sound)
  OBVIOUS
<1> QED BY <1>1, <1>2, <1>3, <1>4

\* Whatever byte comes, the buffer keeps its shape and its bound.
LEMMA FeedTypeOK ==
    ASSUME TypeOK, NEW byte \in Byte, Feed(byte)
    PROVE  /\ buffer' \in Seq(Byte)
           /\ Len(buffer') <= Limit
           /\ buffer' # <<>> => buffer'[1] = S
           /\ stale' \in BOOLEAN
           /\ stale' => buffer' # <<>>
           /\ heard' \in Seq(Sound)
<1>1. Limit \in Nat \ {0} /\ S \in Byte
  BY LimitAssumption, BytesAssumption
<1>2. CASE buffer = <<>> \/ GivenUp
  <2>1. buffer' = Restarted(byte) /\ stale' = FALSE /\ heard' = heard
    BY <1>2 DEF Feed
  <2>2. heard' \in Seq(Sound)
    BY <2>1 DEF TypeOK
  <2>3. CASE byte = S
    <3>1. buffer' = <<S>>
      BY <2>1, <2>3 DEF Restarted
    <3>2. <<S>> \in Seq(Byte) /\ Len(<<S>>) = 1 /\ <<S>>[1] = S
      BY <1>1
    <3>3. 1 <= Limit
      BY <1>1
    <3> QED BY <3>1, <3>2, <3>3, <2>1, <2>2
  <2>4. CASE byte # S
    <3>1. buffer' = <<>>
      BY <2>1, <2>4 DEF Restarted
    <3> QED BY <3>1, <2>1, <2>2, Nothing
  <2> QED BY <2>3, <2>4
<1>3. CASE ~(buffer = <<>> \/ GivenUp)
  <2> DEFINE b == Append(buffer, byte)
  <2>1. /\ stale' = stale /\ ~stale
        /\ IF IsEnd(b, byte)
           THEN /\ buffer' = <<>>
                /\ heard' = IF Contents(b) \in Sound
                            THEN Append(heard, Contents(b)) ELSE heard
           ELSE buffer' = b /\ heard' = heard
    BY <1>3 DEF Feed, GivenUp
  <2>2. /\ b \in Seq(Byte) /\ Len(b) = Len(buffer) + 1 /\ b[1] = S
        /\ Len(buffer) < Limit
    BY <1>1, <1>3 DEF TypeOK, GivenUp
  <2>3. heard' \in Seq(Sound)
    <3> HIDE DEF b
    <3> QED BY <2>1 DEF TypeOK
  <2>4. buffer' = <<>> \/ buffer' = b
    BY <2>1
  <2> HIDE DEF b
  <2>5. Len(buffer) \in Nat
    BY DEF TypeOK
  <2>6. stale' = FALSE
    BY <2>1 DEF TypeOK
  <2>7. CASE buffer' = <<>>
    BY <2>3, <2>6, <2>7, Nothing
  <2>8. CASE buffer' = b
    <3>1. Len(b) <= Limit
      BY <1>1, <2>2, <2>5
    <3> QED BY <2>2, <2>3, <2>6, <2>8, <3>1
  <2> QED BY <2>4, <2>7, <2>8
<1> QED BY <1>2, <1>3

-----------------------------------------------------------------------------
\* A byte of an intact frame.
LEMMA IntactByte ==
    ASSUME IInv, Receive, intact
    PROVE  /\ sending \in Sound
           /\ pos + 1 = Whole(sending) => buffer' = <<>> /\ heard' = <<sending>>
           /\ pos + 1 < Whole(sending) =>
                 /\ heard' = <<>>
                 /\ ~stale'
                 /\ Len(buffer') = pos + 1
                 /\ \A i \in 1 .. pos + 1 : buffer'[i] = FrameOf(sending)[i]
<1>1. /\ sending \in Sound /\ pos \in Nat /\ pos < Whole(sending)
      /\ Feed(FrameOf(sending)[pos + 1])
  BY DEF IInv, TypeOK, Receive
<1> DEFINE byte == FrameOf(sending)[pos + 1]
<1>2. /\ Whole(sending) \in Nat /\ 4 <= Whole(sending)
      /\ Whole(sending) <= Limit
      /\ FrameOf(sending)[1] = S
      /\ \A i \in 1 .. Whole(sending) : FrameOf(sending)[i] \in Byte
  BY <1>1, FrameFacts
<1>3. sending # None /\ heard = <<>>
  BY <1>1, <1>2, NoneAssumption DEF IInv, IntactFrameHeard
<1>4. CASE pos = 0
  <2>1. buffer = <<>> \/ GivenUp
    BY <1>3, <1>4 DEF IInv, Collected, GivenUp
  <2>2. buffer' = <<S>> /\ stale' = FALSE /\ heard' = heard
    BY <1>1, <1>2, <1>4, <2>1 DEF Feed, Restarted
  <2>3. Len(<<S>>) = 1 /\ <<S>>[1] = S
    OBVIOUS
  <2>4. \A i \in 1 .. pos + 1 : i = 1
    BY <1>4
  <2> QED BY <1>1, <1>2, <1>3, <1>4, <2>2, <2>3, <2>4
<1>5. CASE pos # 0
  <2> DEFINE b == Append(buffer, byte)
  <2>1. /\ ~stale /\ Len(buffer) = pos
        /\ \A i \in 1 .. pos : buffer[i] = FrameOf(sending)[i]
    BY <1>1, <1>3, <1>5 DEF IInv, Collected
  <2>2. buffer \in Seq(Byte) /\ byte \in Byte
    BY <1>1, <1>2 DEF IInv, TypeOK
  <2>3. ~(buffer = <<>> \/ GivenUp)
    <3>1. buffer # <<>>
      BY <1>5, <2>1
    <3>2. ~(Len(buffer) >= Limit)
      BY <1>1, <1>2, <2>1, LimitAssumption
    <3> QED BY <3>1, <3>2, <2>1 DEF GivenUp
  <2>4. /\ stale' = stale
        /\ IF IsEnd(b, byte)
           THEN /\ buffer' = <<>>
                /\ heard' = IF Contents(b) \in Sound
                            THEN Append(heard, Contents(b)) ELSE heard
           ELSE buffer' = b /\ heard' = heard
    BY <1>1, <2>3 DEF Feed
  <2>5. /\ b \in Seq(Byte) /\ Len(b) = pos + 1
        /\ \A i \in 1 .. pos + 1 : b[i] = FrameOf(sending)[i]
    BY <1>1, <2>1, <2>2
  <2>6. CASE pos + 1 = Whole(sending)
    <3>1. Matches(b) # {} /\ Contents(b) = sending /\ b[Len(b)] = E
      <4> HIDE DEF b
      <4> QED BY <1>1, <2>5, <2>6, WholeFrame
    <3>2. b[Len(b)] = byte
      BY <1>1, <2>1, <2>2
    <3>3. IsEnd(b, byte)
      <4> HIDE DEF b, byte
      <4> QED BY <1>2, <2>5, <2>6, <3>1, <3>2 DEF IsEnd
    <3>4. heard' = Append(heard, sending) /\ buffer' = <<>>
      <4> HIDE DEF b, byte
      <4> QED BY <1>1, <2>4, <3>1, <3>3
    <3> QED BY <1>1, <1>3, <2>6, <3>4
  <2>7. CASE pos + 1 < Whole(sending)
    <3>1. Matches(b) = {}
      <4> HIDE DEF b
      <4> QED BY <1>1, <2>5, <2>7, NoEarlyEnd
    <3>2. buffer' = b /\ heard' = heard
      <4> HIDE DEF b, byte
      <4> QED BY <2>4, <3>1 DEF IsEnd
    <3> HIDE DEF b, byte
    <3> QED BY <1>1, <1>2, <1>3, <2>1, <2>4, <2>5, <2>7, <3>2
  <2> QED BY <1>1, <1>2, <2>6, <2>7
<1> QED BY <1>4, <1>5

\* Every frame that arrives whole and in time is heard, once, for every
\* table of commands and every body.
THEOREM Invariant == Spec => []IInv
<1>1. Init => IInv
  <2> SUFFICES ASSUME Init PROVE IInv
    OBVIOUS
  <2>1. TypeOK
    <3>1. buffer \in Seq(Byte) /\ Len(buffer) <= Limit /\ heard \in Seq(Sound)
      BY Nothing DEF Init
    <3> QED BY <3>1 DEF Init, TypeOK
  <2> QED BY <2>1 DEF Init, IInv, IntactFrameHeard, Collected
<1>2. IInv /\ [Next]_vars => IInv'
  <2> SUFFICES ASSUME IInv, [Next]_vars PROVE IInv'
    OBVIOUS
  <2>1. ASSUME NEW m \in Sound, Begin(m) PROVE IInv'
    <3>1. Whole(m) \in Nat /\ 4 <= Whole(m)
      BY FrameFacts
    <3>2. TypeOK'
      BY <2>1, <3>1, NoneAssumption DEF Begin, IInv, TypeOK
    <3>3. IntactFrameHeard'
      BY <2>1, <3>1 DEF Begin, IntactFrameHeard
    <3>4. Collected'
      <4>1. /\ pos' = 0 /\ buffer' = buffer /\ stale' = stale
            /\ intact' = (buffer = <<>> \/ stale)
        BY <2>1 DEF Begin
      <4>2. ~(0 < pos')
        BY <4>1
      <4>3. intact' => buffer' = <<>> \/ stale'
        BY <4>1
      <4> QED BY <4>2, <4>3 DEF Collected
    <3> QED BY <3>2, <3>3, <3>4 DEF IInv
  <2>2. CASE Receive
    <3>1. sending \in Sound /\ pos \in Nat /\ pos < Whole(sending)
      BY <2>2 DEF IInv, TypeOK, Receive
    <3>2. /\ Whole(sending) \in Nat
          /\ FrameOf(sending)[pos + 1] \in Byte
      <4>1. /\ Whole(sending) \in Nat
            /\ \A i \in 1 .. Whole(sending) : FrameOf(sending)[i] \in Byte
        BY <3>1, FrameFacts
      <4> QED BY <3>1, <4>1
    <3>3. pos' = pos + 1 /\ sending' = sending /\ intact' = intact
          /\ Feed(FrameOf(sending)[pos + 1])
      BY <2>2 DEF Receive
    <3>4. TypeOK'
      <4>1. /\ buffer' \in Seq(Byte)
            /\ Len(buffer') <= Limit
            /\ buffer' # <<>> => buffer'[1] = S
            /\ stale' \in BOOLEAN
            /\ stale' => buffer' # <<>>
            /\ heard' \in Seq(Sound)
        BY <3>2, <3>3, FeedTypeOK DEF IInv
      <4> QED BY <3>1, <3>2, <3>3, <4>1, NoneAssumption DEF IInv, TypeOK, Whole
    <3>5. IntactFrameHeard'
      BY <2>2, <3>1, <3>2, <3>3, IntactByte DEF IntactFrameHeard, Whole
    <3>6. Collected'
      <4> SUFFICES ASSUME intact' PROVE Collected'
        BY DEF Collected
      <4>1. pos' # 0 /\ pos' \in Nat
        BY <3>1, <3>3
      <4>2. Whole(sending)' = Whole(sending)
        BY <3>3 DEF Whole
      <4>3. FrameOf(sending)' = FrameOf(sending)
        BY <3>3 DEF FrameOf
      <4>4. intact
        BY <3>3
      <4>5. ASSUME pos' < Whole(sending)
            PROVE  /\ ~stale'
                   /\ Len(buffer') = pos'
                   /\ \A i \in 1 .. pos' : buffer'[i] = FrameOf(sending)[i]
        <5>1. pos + 1 < Whole(sending)
          BY <3>3, <4>5
        <5> QED BY <2>2, <3>3, <4>4, <5>1, IntactByte
      <4> QED BY <4>1, <4>2, <4>3, <4>5 DEF Collected
    <3> QED BY <3>4, <3>5, <3>6 DEF IInv
  <2>3. CASE LoseChunk
    <3>1. sending \in Sound /\ pos \in Nat
      BY <2>3 DEF IInv, TypeOK, LoseChunk
    <3>2. Whole(sending) \in Nat
      BY <3>1, FrameFacts
    <3>3. pos' \in Nat /\ pos' <= Whole(sending)
      BY <2>3, <3>1, <3>2, MtuAssumption DEF LoseChunk
    <3>4. TypeOK'
      BY <2>3, <3>1, <3>3, NoneAssumption DEF IInv, TypeOK, LoseChunk, Whole
    <3>5. IntactFrameHeard' /\ Collected'
      BY <2>3 DEF LoseChunk, IntactFrameHeard, Collected
    <3> QED BY <3>4, <3>5 DEF IInv
  <2>4. CASE Pause
    <3>1. TypeOK'
      BY <2>4 DEF IInv, TypeOK, Pause, Whole
    <3>2. IntactFrameHeard'
      BY <2>4 DEF IInv, IntactFrameHeard, Pause, Whole
    <3>3. ASSUME sending # None, intact'
          PROVE  pos = 0 \/ pos = Whole(sending)
      BY <2>4, <3>3 DEF Pause, Over
    <3>4. Collected'
      <4>1. sending' = sending /\ pos' = pos /\ stale'
        BY <2>4 DEF Pause
      <4>2. sending \in Sound \cup {None}
        BY DEF IInv, TypeOK
      <4>3. sending # None => Whole(sending) \in Nat /\ 4 <= Whole(sending)
        BY <4>2, FrameFacts
      <4> QED BY <3>3, <4>1, <4>3 DEF Collected, Whole
    <3> QED BY <3>1, <3>2, <3>4 DEF IInv
  <2>5. CASE Reset
    <3>1. TypeOK'
      <4>1. /\ buffer' \in Seq(Byte) /\ Len(buffer') <= Limit
            /\ heard' \in Seq(Sound)
        BY <2>5, Nothing DEF Reset
      <4> QED BY <2>5, <4>1 DEF Reset, TypeOK
    <3> QED BY <2>5, <3>1 DEF Reset, IInv, IntactFrameHeard, Collected
  <2>6. CASE UNCHANGED vars
    <3>1. TypeOK' /\ IntactFrameHeard'
      BY <2>6 DEF vars, IInv, TypeOK, IntactFrameHeard, Whole
    <3>2. Collected'
      BY <2>6 DEF vars, IInv, Collected, Whole, FrameOf
    <3> QED BY <3>1, <3>2 DEF IInv
  <2> QED BY <2>1, <2>2, <2>3, <2>4, <2>5, <2>6 DEF Next
<1> QED BY <1>1, <1>2, PTL DEF Spec

\* The receive buffer keeps its shape, and RX_BUFFER_LIMIT.
THEOREM TypeCorrect == Spec => []TypeOK
<1>1. IInv => TypeOK
  BY DEF IInv
<1> QED BY <1>1, Invariant, PTL

\* An intact frame is emitted, once and alone.
THEOREM FramesHeard == Spec => []IntactFrameHeard
<1>1. IInv => IntactFrameHeard
  BY DEF IInv
<1> QED BY <1>1, Invariant, PTL
=============================================================================
