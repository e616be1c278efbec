---------------------------- MODULE FrameParser ----------------------------
(***************************************************************************)
(* Reassembly of the machine's frames from its notifications.              *)
(*                                                                         *)
(* A frame is S, the command, the encrypted body (payload and checksum)    *)
(* and E.  The body may contain S and E, so the parser takes an E for the  *)
(* end of a frame only at the length the command calls for; a collection   *)
(* that got lost in the stream is given up when it is too old or too long. *)
(* Notifications are chunks of Mtu bytes; any of them may be lost or late. *)
(***************************************************************************)
EXTENDS Naturals, Sequences

CONSTANTS
    Byte,
    S, E,           \* FRAME_START, FRAME_END
    Command,        \* INBOUND_COMMANDS: sequences of one or two bytes,
    Size,           \* and the size of their payload
    Sound,          \* the messages whose checksum is right
    Limit,          \* RX_BUFFER_LIMIT
    Mtu,
    None

Message == [cmd : Command, body : Seq(Byte)]
FrameLength(c) == Len(c) + Size[c] + 3

ASSUME BytesAssumption == S \in Byte /\ E \in Byte
ASSUME CommandsAssumption ==
    /\ Command \subseteq Seq(Byte)
    /\ \A c \in Command : Len(c) \in {1, 2}
    /\ Size \in [Command -> Nat]
\* No command of one byte is the first byte of one of two.
ASSUME PrefixAssumption ==
    \A c, d \in Command :
        Len(c) <= Len(d) /\ (\A i \in 1 .. Len(c) : c[i] = d[i]) => c = d
ASSUME SoundAssumption ==
    Sound \subseteq {m \in Message : Len(m.body) = Size[m.cmd] + 1}
ASSUME LimitAssumption ==
    /\ Limit \in Nat \ {0}
    /\ \A c \in Command : FrameLength(c) <= Limit
ASSUME MtuAssumption == Mtu \in Nat \ {0}
ASSUME NoneAssumption == None \notin Sound

VARIABLES
    buffer,         \* _buffer
    stale,          \* _started_at is longer ago than the assembly timeout
    sending,        \* the message under way to us
    pos,            \* bytes of its frame that have arrived or got lost
    intact,         \* history: none lost or late, nothing left over before it
    heard           \* history: what the parser has emitted since it began

vars == <<buffer, stale, sending, pos, intact, heard>>

Init == /\ buffer = <<>>
        /\ stale = FALSE
        /\ sending = None
        /\ pos = 0
        /\ intact = FALSE
        /\ heard = <<>>

-----------------------------------------------------------------------------
\* The frame of a message, as build_frame lays it out and chunk_for_ble
\* cuts it.
FrameOf(m) ==
    [i \in 1 .. FrameLength(m.cmd) |->
        IF i = 1 THEN S
        ELSE IF i <= Len(m.cmd) + 1 THEN m.cmd[i - 1]
        ELSE IF i < FrameLength(m.cmd) THEN m.body[i - Len(m.cmd) - 1]
        ELSE E]

Whole(m) == FrameLength(m.cmd)
Over == sending # None => pos = Whole(sending)
BetweenChunks == Over \/ pos % Mtu = 0

-----------------------------------------------------------------------------
\* The parser.

\* The commands that a buffer is a frame of, by its length (mutant: by
\* their letters alone).
MatchAtAnyLength(b) ==
    {c \in Command : /\ Len(b) >= Len(c) + 3
                     /\ \A i \in 1 .. Len(c) : b[i + 1] = c[i]}
Matches(b) ==
    {c \in Command : /\ Len(b) = FrameLength(c)
                     /\ \A i \in 1 .. Len(c) : b[i + 1] = c[i]}

\* _match_command looks for a command of two bytes first.
Matched(b) ==
    CHOOSE c \in Matches(b) : \A d \in Matches(b) : Len(d) <= Len(c)

\* The body is what is left between the command and the final E.
Contents(b) ==
    LET c == Matched(b)
    IN  [cmd |-> c,
         body |-> [i \in 1 .. Len(b) - Len(c) - 2 |-> b[i + Len(c) + 1]]]

\* _start_frame.
Restarted(byte) == IF byte = S THEN <<S>> ELSE <<>>

\* A frame is given up when it is too old or longer than any frame (mutant:
\* never).
NeverGivenUp == FALSE
GivenUp == stale \/ Len(buffer) >= Limit

IsEnd(b, byte) == byte = E /\ Len(b) >= 4 /\ Matches(b) # {}

\* _feed_byte.
Feed(byte) ==
    IF buffer = <<>> \/ GivenUp
    THEN /\ buffer' = Restarted(byte)
         /\ stale' = FALSE
         /\ UNCHANGED heard
    ELSE LET b == Append(buffer, byte)
         IN  /\ stale' = stale
             /\ IF IsEnd(b, byte)
                THEN /\ buffer' = <<>>
                     /\ heard' = IF Contents(b) \in Sound
                                 THEN Append(heard, Contents(b)) ELSE heard
                ELSE /\ buffer' = b
                     /\ UNCHANGED heard

-----------------------------------------------------------------------------
\* The machine sends its next frame.
Begin(m) == /\ Over
            /\ sending' = m
            /\ pos' = 0
            /\ intact' = (buffer = <<>> \/ stale)
            /\ heard' = <<>>
            /\ UNCHANGED <<buffer, stale>>

\* One byte of a notification reaches the parser.
Receive == /\ sending # None /\ pos < Whole(sending)
           /\ Feed(FrameOf(sending)[pos + 1])
           /\ pos' = pos + 1
           /\ UNCHANGED <<sending, intact>>

\* A notification gets lost.
LoseChunk == /\ sending # None /\ pos < Whole(sending)
             /\ pos % Mtu = 0
             /\ pos' = IF pos + Mtu < Whole(sending) THEN pos + Mtu
                       ELSE Whole(sending)
             /\ intact' = FALSE
             /\ UNCHANGED <<buffer, stale, sending, heard>>

\* More than the assembly timeout goes by between two notifications.
Pause == /\ BetweenChunks
         /\ buffer # <<>>
         /\ stale' = TRUE
         /\ intact' = (intact /\ (Over \/ pos = 0))
         /\ UNCHANGED <<buffer, sending, pos, heard>>

\* The link drops: the parser is reset, and the rest of the frame is gone.
Reset == /\ buffer' = <<>>
         /\ stale' = FALSE
         /\ sending' = None
         /\ pos' = 0
         /\ intact' = FALSE
         /\ heard' = <<>>

Next == \/ \E m \in Sound : Begin(m)
        \/ Receive \/ LoseChunk \/ Pause \/ Reset

Spec == Init /\ [][Next]_vars

-----------------------------------------------------------------------------
\* Properties.

\* Type correctness.  The buffer holds nothing or something that begins with
\* S, and never more than RX_BUFFER_LIMIT bytes.
TypeOK ==
    /\ buffer \in Seq(Byte)
    /\ Len(buffer) <= Limit
    /\ buffer # <<>> => buffer[1] = S
    /\ stale \in BOOLEAN
    /\ stale => buffer # <<>>
    /\ sending \in Sound \cup {None}
    /\ pos \in Nat
    /\ sending # None => pos <= Whole(sending)
    /\ sending = None => pos = 0 /\ ~intact
    /\ intact \in BOOLEAN
    /\ heard \in Seq(Sound)

\* A frame that arrives whole and in time is emitted once, at its last byte,
\* and nothing else while it arrives: whatever S and E its body contains, and
\* whatever wreck of earlier frames the buffer held more than the assembly
\* timeout ago (FrameParser, protocol.py:325-379).
IntactFrameHeard ==
    sending # None /\ intact =>
        heard = IF pos = Whole(sending) THEN <<sending>> ELSE <<>>

\* The inductive invariant: an intact frame is in the buffer as far as it
\* has arrived.
Collected ==
    sending # None /\ intact =>
        /\ pos = 0 => buffer = <<>> \/ stale
        /\ 0 < pos /\ pos < Whole(sending) =>
              /\ ~stale
              /\ Len(buffer) = pos
              /\ \A i \in 1 .. pos : buffer[i] = FrameOf(sending)[i]

IInv == TypeOK /\ IntactFrameHeard /\ Collected
=============================================================================
