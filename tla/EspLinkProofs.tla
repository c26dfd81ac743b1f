---------------------------- MODULE EspLinkProofs ----------------------------
(***************************************************************************)
(* Types of the link to the ESP32, that it implements CommandLink, and     *)
(* that core 1 always comes back to its loop, for any set of commands and  *)
(* a ring buffer of any size.                                              *)
(*                                                                         *)
(* The ring buffer and the line are one stream of pieces, which the        *)
(* interrupt moves along without changing it, core 1 takes from at its     *)
(* head and a loss cuts a piece out of.  The invariant says what is true   *)
(* of the stream (the pieces of a whole command stay together, in order),  *)
(* of the commands with pieces in it, and of the command core 1 is at.     *)
(***************************************************************************)
EXTENDS EspLink, Integers, SequenceTheorems, TLAPS

Stream == Len(ringbuffer) + Len(line)

At(i) == IF i =< Len(ringbuffer) THEN ringbuffer[i] ELSE line[i - Len(ringbuffer)]

Piece(f, p) == [frame |-> f, part |-> p]

Whole(f) == f \in Commands /\ f \notin torn

\* The pieces of a command are in order, each once.
Ordered ==
    \A i, j \in 1..Stream :
        i < j /\ At(i).frame \in Commands /\ At(i).frame = At(j).frame => At(i).part < At(j).part

\* Those of a whole one that are left are next to one another, to the last.
Unbroken ==
    \A i \in 1..Stream : Whole(At(i).frame) =>
        /\ At(i).part < 4 => i < Stream /\ At(i + 1) = Piece(At(i).frame, At(i).part + 1)
        /\ At(i).part > 1 /\ i > 1 => At(i - 1) = Piece(At(i).frame, At(i).part - 1)

OneFrame == \A i \in 1..Len(line) : line[i].frame = line[1].frame

\* A command whose header or body is still to be read has not been handled.
Unread ==
    \A i \in 1..Stream, c \in Commands :
        /\ At(i) = Piece(c, 1) =>
              fate[c] = "sent" /\ answer[c] = "none" /\ command.id # c /\ command.payload # c
        /\ At(i) = Piece(c, 3) => fate[c] = "sent" /\ command.payload # c

Idle == pc \notin {"body", "execute", "ack"} => command = NoCommand

\* After the header of a whole command its body is next.
Reading ==
    pc = "body" =>
        /\ command.id \in Commands /\ command.payload = "ack"
        /\ answer[command.id] = "none" /\ fate[command.id] = "sent"
        /\ Whole(command.id) => Stream > 0 /\ At(1) = Piece(command.id, 3)
        /\ Stream > 0 /\ Whole(At(1).frame) /\ At(1).part = 3 => At(1).frame = command.id

\* The body of one command follows the header of another only when both are torn.
Executing ==
    pc = "execute" =>
        /\ command.id \in Commands /\ command.payload \in Commands
        /\ answer[command.id] = "none" /\ fate[command.payload] = "sent"
        /\ command.payload = command.id \/ {command.payload, command.id} \subseteq torn

Handled == {"executed", "kept", "ignored"}

Acknowledging ==
    pc = "ack" =>
        /\ command.id \in Commands
        /\ answer[command.id] = "none"
        /\ fate[command.id] \in Handled \/ command.id \in torn

Handling == Idle /\ Reading /\ Executing /\ Acknowledging

LinkInv == TypeOK /\ Ordered /\ Unbroken /\ OneFrame /\ Unread /\ Handling

-----------------------------------------------------------------------------
(* Sequences of pieces.                                                    *)

\* What is left of a sequence without its first n elements.
LEMMA DropProperties ==
    ASSUME NEW S, NEW s \in Seq(S), NEW n \in 0..Len(s)
    PROVE  LET t == SubSeq(s, n + 1, Len(s)) IN
           /\ t \in Seq(S) /\ Len(t) = Len(s) - n
           /\ \A i \in 1..(Len(s) - n) : t[i] = s[i + n]
<1>1. Len(s) \in Nat /\ \A i \in (n + 1)..Len(s) : s[i] \in S
  BY ElementOfSeq, LenProperties
<1>2. /\ SubSeq(s, n + 1, Len(s)) \in Seq(S)
      /\ Len(SubSeq(s, n + 1, Len(s)))
            = IF n + 1 =< Len(s) THEN Len(s) - (n + 1) + 1 ELSE 0
      /\ \A i \in 1..(Len(s) - (n + 1) + 1) : SubSeq(s, n + 1, Len(s))[i] = s[(n + 1) + i - 1]
  <2>1. n + 1 \in Int /\ Len(s) \in Int
    BY <1>1
  <2>2. QED
    BY <1>1, <2>1, SubSeqProperties
<1> DEFINE t == SubSeq(s, n + 1, Len(s))
<1> HIDE DEF t
<1>3. t \in Seq(S) /\ Len(t) = Len(s) - n
  BY <1>1, <1>2 DEF t
<1>4. ASSUME NEW i \in 1..(Len(s) - n)
      PROVE  t[i] = s[i + n]
  <2>1. i \in 1..(Len(s) - (n + 1) + 1) /\ (n + 1) + i - 1 = i + n
    BY <1>1
  <2>2. t[i] = s[(n + 1) + i - 1]
    BY <1>2, <2>1 DEF t
  <2>3. QED
    BY <2>1, <2>2
<1>5. QED
  BY <1>3, <1>4 DEF t

\* A frame as the ESP32 puts it on the line.
LEMMA PiecesOfType ==
    ASSUME NEW f \in Frames
    PROVE  /\ PiecesOf(f) \in Seq(Pieces)
           /\ Len(PiecesOf(f)) = HeaderSize + BodySize(f)
           /\ HeaderSize + BodySize(f) \in {2, 4}
           /\ \A i \in 1..(HeaderSize + BodySize(f)) : PiecesOf(f)[i] = Piece(f, i)
<1>1. HeaderSize + BodySize(f) \in {2, 4} /\ HeaderSize + MessageSize = 4
  BY DEF HeaderSize, BodySize, MessageSize
<1>2. \A i \in 1..(HeaderSize + BodySize(f)) : Piece(f, i) \in Pieces
  BY <1>1 DEF Piece, Pieces
<1>3. PiecesOf(f) = [i \in 1..(HeaderSize + BodySize(f)) |-> Piece(f, i)]
  BY DEF PiecesOf, Piece
<1>4. QED
  BY <1>1, <1>2, <1>3

LEMMA TailType ==
    ASSUME TypeOK, line # <<>>
    PROVE  /\ Tail(line) \in Seq(Pieces) /\ Len(Tail(line)) = Len(line) - 1
           /\ \A i \in 1..(Len(line) - 1) : Tail(line)[i] = line[i + 1]
           /\ Len(line) \in Nat \ {0} /\ line[1] \in Pieces
<1>1. line \in Seq(Pieces)
  BY DEF TypeOK
<1>2. Len(line) \in Nat \ {0}
  BY <1>1, EmptySeq
<1>3. QED
  BY <1>1, <1>2, HeadTailProperties, ElementOfSeq

-----------------------------------------------------------------------------
(* Types.                                                                  *)

HistoryType ==
    /\ fate \in [Commands -> {"unsent", "sent", "executed", "kept", "ignored"}]
    /\ answer \in [Commands -> {"none", "ack", "nack"}]
    /\ torn \subseteq Commands

LinkType ==
    /\ line \in Seq(Pieces) /\ Len(line) =< 4
    /\ ringbuffer \in Seq(Pieces) /\ Len(ringbuffer) =< BufferSize

Core1Type ==
    /\ pc \in {"loop", "body", "execute", "ack", "main", "reply", "skip", "stuck"}
    /\ command \in [id: Frames, payload: Frames]
    /\ need \in 0..(BufferSize + 1)

Types == LinkType /\ Core1Type /\ HistoryType /\ owesAck \in BOOLEAN

LEMMA TypeParts == (TypeOK <=> Types) /\ (TypeOK' <=> Types')
<1>1. HeaderSize + MessageSize = 4
  BY DEF HeaderSize, MessageSize
<1>2. QED
  BY <1>1 DEF TypeOK, Types, LinkType, Core1Type, HistoryType

\* Taking pieces, or all of them.
LEMMA TakenType ==
    ASSUME LinkType, NEW n \in 0..Len(ringbuffer), Taken(n), UNCHANGED line
    PROVE  LinkType'
<1>1. ringbuffer' = SubSeq(ringbuffer, n + 1, Len(ringbuffer))
  BY DEF Taken
<1>2. ringbuffer' \in Seq(Pieces) /\ Len(ringbuffer') = Len(ringbuffer) - n
  BY <1>1, DropProperties DEF LinkType
<1>3. Len(ringbuffer) \in Nat /\ BufferSize \in Nat
  BY LenProperties, EspLinkAssumption DEF LinkType
<1>4. QED
  BY <1>2, <1>3 DEF LinkType

LEMMA ClearedType ==
    ASSUME LinkType, ringbuffer' = <<>>, UNCHANGED line
    PROVE  LinkType'
BY EspLinkAssumption, EmptySeq DEF LinkType

LEMMA NoCommandType == NoCommand \in [id: Frames, payload: Frames]
BY DEF NoCommand, Frames

\* The ESP32 and the interrupt.
LEMMA LineTypeStep ==
    ASSUME TypeOK, (\E c \in Commands : EspSendsCommand(c)) \/ EspAcknowledges \/ OnUartRx \/ Overrun
    PROVE  TypeOK'
<1> USE TypeParts DEF Types
<1>1. ASSUME NEW c \in Commands, EspSendsCommand(c)
      PROVE  TypeOK'
  <2>1. PiecesOf(c) \in Seq(Pieces) /\ Len(PiecesOf(c)) =< 4
    BY PiecesOfType DEF Frames
  <2>2. LinkType'
    BY <1>1, <2>1 DEF EspSendsCommand, LinkType
  <2>3. HistoryType'
    BY <1>1 DEF EspSendsCommand, HistoryType
  <2>4. Core1Type' /\ owesAck' \in BOOLEAN
    BY <1>1 DEF EspSendsCommand, core1, Core1Type
  <2>5. QED
    BY <2>2, <2>3, <2>4
<1>2. CASE EspAcknowledges
  <2>1. PiecesOf("ack") \in Seq(Pieces) /\ Len(PiecesOf("ack")) =< 4
    BY PiecesOfType DEF Frames
  <2>2. LinkType'
    BY <1>2, <2>1 DEF EspAcknowledges, LinkType
  <2>3. Core1Type' /\ HistoryType' /\ owesAck' \in BOOLEAN
    BY <1>2 DEF EspAcknowledges, core1, history, Core1Type, HistoryType
  <2>4. QED
    BY <2>2, <2>3
<1>3. ASSUME Lose
      PROVE  HistoryType' /\ UNCHANGED ringbuffer
  BY <1>3 DEF Lose, HistoryType
<1>4. CASE OnUartRx
  <2>1. line' \in Seq(Pieces) /\ Len(line') =< 4
    BY <1>4, TailType DEF OnUartRx, LinkType
  <2>2. CASE Len(ringbuffer) < BufferSize
    <3>1. ringbuffer' = Append(ringbuffer, line[1]) /\ UNCHANGED history
      BY <1>4, <2>2 DEF OnUartRx, Insert
    <3>2. ringbuffer' \in Seq(Pieces) /\ Len(ringbuffer') = Len(ringbuffer) + 1
      BY <1>4, <3>1, TailType, AppendProperties DEF OnUartRx, LinkType
    <3>3. LinkType'
      BY <2>1, <2>2, <3>2, EspLinkAssumption, LenProperties DEF LinkType
    <3>4. HistoryType' /\ Core1Type' /\ owesAck' \in BOOLEAN
      BY <1>4, <3>1 DEF OnUartRx, history, core1, HistoryType, Core1Type
    <3>5. QED
      BY <3>3, <3>4
  <2>3. CASE ~(Len(ringbuffer) < BufferSize)
    <3>1. Lose
      BY <1>4, <2>3 DEF OnUartRx, Insert
    <3>2. Core1Type' /\ owesAck' \in BOOLEAN
      BY <1>4 DEF OnUartRx, core1, Core1Type
    <3>3. LinkType'
      BY <1>3, <2>1, <3>1 DEF LinkType
    <3>4. QED
      BY <1>3, <3>1, <3>2, <3>3
  <2>4. QED
    BY <2>2, <2>3
<1>5. CASE Overrun
  <2>1. line' \in Seq(Pieces) /\ Len(line') =< 4
    BY <1>5, TailType DEF Overrun, LinkType
  <2>2. Lose /\ Core1Type' /\ owesAck' \in BOOLEAN
    BY <1>5 DEF Overrun, core1, Core1Type
  <2>3. LinkType'
    BY <1>3, <2>1, <2>2 DEF LinkType
  <2>4. QED
    BY <1>3, <2>2, <2>3
<1>6. QED
  BY <1>1, <1>2, <1>4, <1>5

\* Core 1 takes the first n pieces of the ring buffer, or throws all away.
Suffix(n) ==
    /\ n \in 0..Len(ringbuffer)
    /\ \/ Taken(n)
       \/ n = 0 /\ UNCHANGED ringbuffer
       \/ n = Len(ringbuffer) /\ ringbuffer' = <<>>
    /\ UNCHANGED <<line, torn>>

Reader ==
    \/ Core1 \/ Timeout \/ RelaunchCore1

LEMMA ReaderTakes ==
    ASSUME TypeOK, Reader
    PROVE  \E n \in 0..Len(ringbuffer) : Suffix(n)
<1>1. Len(ringbuffer) \in Nat
  BY LenProperties DEF TypeOK
<1>2. 0 \in 0..Len(ringbuffer) /\ Len(ringbuffer) \in 0..Len(ringbuffer)
  BY <1>1
<1>3. Len(ringbuffer) >= 2 => 2 \in 0..Len(ringbuffer)
  BY <1>1
<1>4. Arrived(HeaderSize) \/ Arrived(MessageSize) => Len(ringbuffer) >= 2
  BY DEF Arrived, HeaderSize, MessageSize
<1>5. CASE UNCHANGED <<ringbuffer, line, torn>>
  BY <1>2, <1>5 DEF Suffix
<1>6. CASE ringbuffer' = <<>> /\ UNCHANGED <<line, torn>>
  BY <1>2, <1>6 DEF Suffix
<1>7. CASE Len(ringbuffer) >= 2 /\ Taken(2) /\ UNCHANGED <<line, torn>>
  BY <1>3, <1>7 DEF Suffix
<1>8. CASE need \in 0..Len(ringbuffer) /\ Taken(need) /\ UNCHANGED <<line, torn>>
  BY <1>8 DEF Suffix
<1>9. CASE NothingReceived \/ MessageTimeout \/ ExecuteCommand \/ SendAck \/ NextTurn
           \/ ReplyTimeout \/ RelaunchCore1
  BY <1>5, <1>9 DEF NothingReceived, MessageTimeout, ExecuteCommand, SendAck, NextTurn,
                    ReplyTimeout, RelaunchCore1, link, history
<1>10. CASE DiscardBuffer \/ HeaderTimeout \/ SendStatus
  BY <1>6, <1>10 DEF DiscardBuffer, HeaderTimeout, SendStatus, history
<1>11. CASE \/ \E c \in Commands : BeginCommand(c) \/ RefuseLength(c) \/ ReadMessage(c)
            \/ RefuseChecksum \/ (\E f \in Frames : ReadReply(f)) \/ ReadGarbledReply
  <2>1. Len(ringbuffer) >= 2 /\ Taken(2) /\ UNCHANGED <<line, torn>>
    BY <1>4, <1>11 DEF BeginCommand, RefuseLength, ReadMessage, RefuseChecksum, ReadReply,
                       ReadGarbledReply, history, HeaderSize, MessageSize
  <2>2. QED
    BY <1>7, <2>1
<1>12. CASE SkipMessage
  <2>1. need \in Nat
    BY EspLinkAssumption DEF TypeOK
  <2>2. need \in 0..Len(ringbuffer) /\ Taken(need) /\ UNCHANGED <<line, torn>>
    BY <1>1, <1>12, <2>1 DEF SkipMessage, Arrived, history
  <2>3. QED
    BY <1>8, <2>2
<1>13. QED
  BY <1>9, <1>10, <1>11, <1>12 DEF Reader, Core1, Timeout

LEMMA SuffixType ==
    ASSUME LinkType, NEW n \in 0..Len(ringbuffer), Suffix(n)
    PROVE  LinkType'
<1>1. CASE Taken(n)
  BY <1>1, TakenType DEF Suffix
<1>2. CASE UNCHANGED ringbuffer
  BY <1>2 DEF Suffix, LinkType
<1>3. CASE ringbuffer' = <<>>
  BY <1>3, ClearedType DEF Suffix
<1>4. QED
  BY <1>1, <1>2, <1>3 DEF Suffix

LEMMA ReaderTypeStep ==
    ASSUME TypeOK, Reader
    PROVE  TypeOK'
<1> USE TypeParts DEF Types
<1>1. LinkType'
  <2>1. PICK n \in 0..Len(ringbuffer) : Suffix(n)
    BY ReaderTakes
  <2>2. QED
    BY <2>1, SuffixType
<1>2. owesAck' \in BOOLEAN
  BY DEF Reader, Core1, Timeout, NothingReceived, DiscardBuffer, BeginCommand, RefuseLength,
         HeaderTimeout, ReadMessage, RefuseChecksum, MessageTimeout, ExecuteCommand, SendAck,
         NextTurn, SendStatus, ReadReply, ReadGarbledReply, SkipMessage, ReplyTimeout,
         RelaunchCore1
<1>3. Core1Type'
  <2>1. CASE NothingReceived \/ DiscardBuffer \/ HeaderTimeout \/ NextTurn \/ SendStatus
    BY <2>1 DEF NothingReceived, DiscardBuffer, HeaderTimeout, NextTurn, SendStatus, Core1Type
  <2>2. CASE ReadGarbledReply \/ SkipMessage \/ ReplyTimeout
    BY <2>2, EspLinkAssumption DEF ReadGarbledReply, SkipMessage, ReplyTimeout, Core1Type
  <2>3. CASE RefuseChecksum \/ MessageTimeout \/ SendAck \/ RelaunchCore1
    BY <2>3, NoCommandType, EspLinkAssumption
       DEF RefuseChecksum, MessageTimeout, SendAck, RelaunchCore1, Core1Type
  <2>4. CASE ExecuteCommand \/ \E c \in Commands : RefuseLength(c)
    BY <2>4 DEF ExecuteCommand, RefuseLength, Core1Type
  <2>5. ASSUME NEW c \in Commands, BeginCommand(c) \/ ReadMessage(c)
        PROVE  Core1Type'
    BY <2>5 DEF BeginCommand, ReadMessage, Core1Type, Frames
  <2>6. ASSUME NEW f \in Frames, ReadReply(f)
        PROVE  Core1Type'
    <3>1. BodySize(f) \in {0, 2}
      BY DEF BodySize, MessageSize
    <3>2. 0 \in 0..(BufferSize + 1) /\ 2 \in 0..(BufferSize + 1)
      BY EspLinkAssumption
    <3>3. QED
      BY <2>6, <3>1, <3>2 DEF ReadReply, Core1Type
  <2>7. QED
    BY <2>1, <2>2, <2>3, <2>4, <2>5, <2>6 DEF Reader, Core1, Timeout
<1>4. HistoryType'
  <2>1. CASE UNCHANGED history
    BY <2>1 DEF history, HistoryType
  <2>2. CASE ExecuteCommand
    BY <2>2 DEF ExecuteCommand, Outcomes, HistoryType
  <2>3. CASE SendAck \/ RefuseChecksum \/ MessageTimeout \/ \E c \in Commands : RefuseLength(c)
    BY <2>3 DEF SendAck, RefuseChecksum, MessageTimeout, RefuseLength, SendAnswer, HistoryType
  <2>4. QED
    BY <2>1, <2>2, <2>3
       DEF Reader, Core1, Timeout, NothingReceived, DiscardBuffer, BeginCommand, HeaderTimeout,
           ReadMessage, NextTurn, SendStatus, ReadReply, ReadGarbledReply, SkipMessage,
           ReplyTimeout, RelaunchCore1
<1>5. QED
  BY <1>1, <1>2, <1>3, <1>4

LEMMA TypeInit == Init => TypeOK
<1> SUFFICES ASSUME Init
             PROVE  TypeOK
  OBVIOUS
<1>1. <<>> \in Seq(Pieces) /\ Len(<<>>) = 0
  BY EmptySeq
<1>2. BufferSize \in Nat
  BY EspLinkAssumption
<1>3. LinkType
  BY <1>1, <1>2 DEF Init, LinkType
<1>4. Core1Type
  BY <1>2, NoCommandType DEF Init, Core1Type
<1>5. HistoryType
  BY DEF Init, HistoryType
<1>6. owesAck \in BOOLEAN
  BY Zenon DEF Init
<1>7. QED
  BY <1>3, <1>4, <1>5, <1>6, TypeParts DEF Types

LEMMA TypeStep == TypeOK /\ [Next]_vars => TypeOK'
<1> SUFFICES ASSUME TypeOK, [Next]_vars
             PROVE  TypeOK'
  OBVIOUS
<1>1. CASE Next
  BY <1>1, LineTypeStep, ReaderTypeStep DEF Next, Esp32, Reader
<1>2. CASE UNCHANGED vars
  BY <1>2 DEF vars, link, core1, history, TypeOK
<1>3. QED
  BY <1>1, <1>2

\* Whatever arrives, is lost or times out, the link keeps its types; above all, the
\* ring buffer never holds more than BufferSize.
THEOREM LinkTypes == Spec => []TypeOK
BY TypeInit, TypeStep, PTL DEF Spec

-----------------------------------------------------------------------------
(* The stream.                                                             *)

LEMMA StreamType ==
    ASSUME TypeOK
    PROVE  /\ Len(ringbuffer) \in Nat /\ Len(line) \in Nat /\ Stream \in Nat
           /\ \A i \in 1..Len(ringbuffer) : ringbuffer[i] \in Pieces
           /\ \A i \in 1..Len(line) : line[i] \in Pieces
           /\ \A i \in 1..Stream : At(i) \in Pieces
<1>1. ringbuffer \in Seq(Pieces) /\ line \in Seq(Pieces)
  BY DEF TypeOK
<1>2. /\ Len(ringbuffer) \in Nat /\ Len(line) \in Nat
      /\ \A i \in 1..Len(ringbuffer) : ringbuffer[i] \in Pieces
      /\ \A i \in 1..Len(line) : line[i] \in Pieces
  BY <1>1, LenProperties, ElementOfSeq
<1>3. QED
  BY <1>2 DEF Stream, At

LEMMA PieceType ==
    ASSUME NEW q \in Pieces
    PROVE  /\ q.frame \in Frames /\ q.part \in 1..4
           /\ q = Piece(q.frame, q.part)
BY DEF Pieces, Piece, HeaderSize, MessageSize

\* What core 1 takes, it takes from the head of the stream.
LEMMA SuffixShifts ==
    ASSUME TypeOK, NEW n \in 0..Len(ringbuffer), Suffix(n)
    PROVE  /\ Stream' = Stream - n /\ n =< Stream
           /\ \A i \in 1..Stream' : At(i)' = At(i + n)
<1> DEFINE rb == ringbuffer
           rb1 == ringbuffer'
<1>1. Len(rb) \in Nat /\ Len(line) \in Nat /\ line' = line
  BY StreamType DEF Suffix
<1>2. Len(rb1) = Len(rb) - n /\ \A i \in 1..(Len(rb) - n) : rb1[i] = rb[i + n]
  <2>1. CASE Taken(n)
    BY <2>1, DropProperties DEF Taken, TypeOK
  <2>2. CASE n = 0 /\ ringbuffer' = ringbuffer
    BY <1>1, <2>2
  <2>3. CASE n = Len(rb) /\ ringbuffer' = <<>>
    BY <1>1, <2>3
  <2>4. QED
    BY <2>1, <2>2, <2>3 DEF Suffix
<1> HIDE DEF rb, rb1
<1>3. Stream = Len(rb) + Len(line) /\ Stream' = Len(rb1) + Len(line)
  BY <1>1 DEF Stream, rb, rb1
<1>4. Stream' = Stream - n /\ n =< Stream
  BY <1>1, <1>2, <1>3 DEF rb
<1>5. ASSUME NEW i \in 1..Stream'
      PROVE  At(i)' = At(i + n)
  <2>1. At(i)' = IF i =< Len(rb1) THEN rb1[i] ELSE line[i - Len(rb1)]
    BY <1>1 DEF At, rb1
  <2>2. At(i + n) = IF i + n =< Len(rb) THEN rb[i + n] ELSE line[(i + n) - Len(rb)]
    BY DEF At, rb
  <2>3. i \in Nat \ {0} /\ n \in Nat
    BY <1>1, <1>2, <1>3
  <2>4. CASE i =< Len(rb1)
    <3>1. i + n =< Len(rb) /\ rb1[i] = rb[i + n]
      BY <1>1, <1>2, <2>3, <2>4
    <3>2. QED
      BY <2>1, <2>2, <2>4, <3>1
  <2>5. CASE ~(i =< Len(rb1))
    <3>1. ~(i + n =< Len(rb)) /\ i - Len(rb1) = (i + n) - Len(rb)
      BY <1>1, <1>2, <2>3, <2>5
    <3>2. QED
      BY <2>1, <2>2, <2>5, <3>1
  <2>6. QED
    BY <2>4, <2>5
<1>6. QED
  BY <1>4, <1>5

InOrder == Ordered /\ Unbroken /\ OneFrame

LEMMA ReaderKeepsOrder ==
    ASSUME TypeOK, InOrder, NEW n \in 0..Len(ringbuffer), Suffix(n)
    PROVE  InOrder'
<1>1. /\ Stream' = Stream - n /\ n \in Nat /\ Stream \in Nat
      /\ \A i \in 1..Stream' : At(i)' = At(i + n)
  BY SuffixShifts, StreamType
<1>2. \A i \in 1..Stream' : i + n \in 1..Stream
  BY <1>1
<1>3. line' = line /\ torn' = torn
  BY DEF Suffix
<1>4. Ordered'
  <2> SUFFICES ASSUME NEW i \in 1..Stream', NEW j \in 1..Stream', i < j,
                      At(i)'.frame \in Commands, At(i)'.frame = At(j)'.frame
               PROVE  At(i)'.part < At(j)'.part
    BY DEF Ordered
  <2>1. At(i)' = At(i + n) /\ At(j)' = At(j + n)
    BY <1>1
  <2>2. i + n \in 1..Stream /\ j + n \in 1..Stream /\ i + n < j + n
    BY <1>1, <1>2
  <2>3. QED
    BY <2>1, <2>2 DEF InOrder, Ordered
<1>5. Unbroken'
  <2> SUFFICES ASSUME NEW i \in 1..Stream', Whole(At(i).frame)'
               PROVE  /\ At(i)'.part < 4 =>
                            i < Stream' /\ At(i + 1)' = Piece(At(i)'.frame, At(i)'.part + 1)
                      /\ At(i)'.part > 1 /\ i > 1 =>
                            At(i - 1)' = Piece(At(i)'.frame, At(i)'.part - 1)
    BY DEF Unbroken
  <2>1. At(i)' = At(i + n) /\ i + n \in 1..Stream /\ Whole(At(i + n).frame)
    BY <1>1, <1>2, <1>3 DEF Whole
  <2>2. ASSUME At(i)'.part < 4
        PROVE  i < Stream' /\ At(i + 1)' = Piece(At(i)'.frame, At(i)'.part + 1)
    <3>1. /\ i + n < Stream
          /\ At((i + n) + 1) = Piece(At(i + n).frame, At(i + n).part + 1)
      BY <2>1, <2>2 DEF InOrder, Unbroken
    <3>2. i < Stream' /\ i + 1 \in 1..Stream' /\ (i + n) + 1 = (i + 1) + n
      BY <1>1, <3>1
    <3>3. At(i + 1)' = At((i + 1) + n)
      BY <1>1, <3>2
    <3>4. QED
      BY <2>1, <3>1, <3>2, <3>3
  <2>3. ASSUME At(i)'.part > 1, i > 1
        PROVE  At(i - 1)' = Piece(At(i)'.frame, At(i)'.part - 1)
    <3>1. i - 1 \in 1..Stream' /\ (i + n) - 1 = (i - 1) + n /\ i + n > 1
      BY <1>1, <2>3
    <3>2. At((i + n) - 1) = Piece(At(i + n).frame, At(i + n).part - 1)
      BY <2>1, <2>3, <3>1 DEF InOrder, Unbroken
    <3>3. At(i - 1)' = At((i - 1) + n)
      BY <1>1, <3>1
    <3>4. QED
      BY <2>1, <3>1, <3>2, <3>3
  <2>4. QED
    BY <2>2, <2>3
<1>6. OneFrame'
  BY <1>3 DEF InOrder, OneFrame
<1>7. QED
  BY <1>4, <1>5, <1>6 DEF InOrder

\* The interrupt moves a piece from the line to the ring buffer: the same stream.
LEMMA InsertKeepsStream ==
    ASSUME TypeOK, line # <<>>, line' = Tail(line), ringbuffer' = Append(ringbuffer, line[1])
    PROVE  Stream' = Stream /\ \A i \in 1..Stream : At(i)' = At(i)
<1> DEFINE a == Len(ringbuffer)
           b == Len(line)
           rb1 == ringbuffer'
           line1 == line'
<1>1. a \in Nat /\ b \in Nat \ {0}
  BY StreamType, TailType
<1>2. Len(line1) = b - 1 /\ \A i \in 1..(b - 1) : line1[i] = line[i + 1]
  BY TailType
<1>3. Len(rb1) = a + 1 /\ (\A i \in 1..a : rb1[i] = ringbuffer[i]) /\ rb1[a + 1] = line[1]
  BY TailType, AppendProperties DEF TypeOK
<1> HIDE DEF a, b, rb1, line1
<1>4. Stream' = Stream /\ Stream = a + b
  BY <1>1, <1>2, <1>3 DEF Stream, a, b, rb1, line1
<1>5. ASSUME NEW i \in 1..Stream
      PROVE  At(i)' = At(i)
  <2>1. At(i)' = IF i =< a + 1 THEN rb1[i] ELSE line1[i - (a + 1)]
    BY <1>3 DEF At, rb1, line1
  <2>2. At(i) = IF i =< a THEN ringbuffer[i] ELSE line[i - a]
    BY DEF At, a
  <2>3. CASE i =< a
    BY <1>1, <1>3, <2>1, <2>2, <2>3
  <2>4. CASE i = a + 1
    <3>1. i - a = 1 /\ ~(i =< a)
      BY <1>1, <2>4
    <3>2. QED
      BY <1>1, <1>3, <2>1, <2>2, <2>4, <3>1
  <2>5. CASE i > a + 1
    <3>1. i - (a + 1) \in 1..(b - 1) /\ (i - (a + 1)) + 1 = i - a
      BY <1>1, <1>4, <2>5
    <3>2. QED
      BY <1>1, <1>2, <2>1, <2>2, <2>5, <3>1
  <2>6. QED
    BY <1>1, <1>4, <2>3, <2>4, <2>5
<1>6. QED
  BY <1>4, <1>5

\* A piece lost on the line is cut out of the stream.
LEMMA LoseCuts ==
    ASSUME TypeOK, line # <<>>, line' = Tail(line), ringbuffer' = ringbuffer
    PROVE  /\ Stream' = Stream - 1 /\ Len(ringbuffer) < Stream
           /\ \A i \in 1..Stream' : At(i)' = IF i =< Len(ringbuffer) THEN At(i) ELSE At(i + 1)
           /\ At(Len(ringbuffer) + 1) = line[1]
<1> DEFINE a == Len(ringbuffer)
           b == Len(line)
           line1 == line'
<1>1. a \in Nat /\ b \in Nat \ {0}
  BY StreamType, TailType
<1>2. Len(line1) = b - 1 /\ \A i \in 1..(b - 1) : line1[i] = line[i + 1]
  BY TailType
<1> HIDE DEF a, b, line1
<1>3. Stream = a + b /\ Stream' = a + (b - 1)
  BY <1>1, <1>2 DEF Stream, a, b, line1
<1>4. \A i \in Int : At(i) = IF i =< a THEN ringbuffer[i] ELSE line[i - a]
  BY DEF At, a
<1>5. ASSUME NEW i \in 1..Stream'
      PROVE  At(i)' = IF i =< a THEN At(i) ELSE At(i + 1)
  <2>1. At(i)' = IF i =< a THEN ringbuffer[i] ELSE line1[i - a]
    BY DEF At, a, line1
  <2>2. CASE i =< a
    BY <1>4, <2>1, <2>2
  <2>3. CASE i > a
    <3>1. i - a \in 1..(b - 1) /\ (i - a) + 1 = (i + 1) - a /\ ~(i + 1 =< a) /\ i + 1 \in Int
      BY <1>1, <1>3, <2>3
    <3>2. At(i + 1) = line[(i + 1) - a]
      BY <1>4, <3>1
    <3>3. QED
      BY <1>1, <1>2, <2>1, <2>3, <3>1, <3>2
  <2>4. QED
    BY <1>1, <1>3, <2>2, <2>3
<1>6. At(a + 1) = line[1]
  BY <1>1, <1>4
<1>7. QED
  BY <1>1, <1>3, <1>5, <1>6 DEF a

LEMMA InsertKeepsOrder ==
    ASSUME TypeOK, InOrder, line # <<>>, line' = Tail(line), torn' = torn,
           ringbuffer' = Append(ringbuffer, line[1])
    PROVE  InOrder'
<1>1. Stream' = Stream /\ Stream \in Nat /\ \A i \in 1..Stream : At(i)' = At(i)
  BY InsertKeepsStream, StreamType
<1>2. Ordered'
  BY <1>1 DEF InOrder, Ordered
<1>3. Unbroken'
  <2> SUFFICES ASSUME NEW i \in 1..Stream, Whole(At(i).frame)
               PROVE  /\ At(i)'.part < 4 =>
                            i < Stream' /\ At(i + 1)' = Piece(At(i)'.frame, At(i)'.part + 1)
                      /\ At(i)'.part > 1 /\ i > 1 =>
                            At(i - 1)' = Piece(At(i)'.frame, At(i)'.part - 1)
    BY <1>1 DEF Unbroken, Whole
  <2>1. /\ At(i).part < 4 => i < Stream /\ At(i + 1) = Piece(At(i).frame, At(i).part + 1)
        /\ At(i).part > 1 /\ i > 1 => At(i - 1) = Piece(At(i).frame, At(i).part - 1)
    BY DEF InOrder, Unbroken
  <2>2. (i < Stream => i + 1 \in 1..Stream) /\ (i > 1 => i - 1 \in 1..Stream)
    BY <1>1
  <2>3. QED
    BY <1>1, <2>1, <2>2
<1>4. OneFrame'
  BY TailType DEF InOrder, OneFrame
<1>5. QED
  BY <1>2, <1>3, <1>4 DEF InOrder

LEMMA LoseKeepsOrder ==
    ASSUME TypeOK, InOrder, line # <<>>, line' = Tail(line), ringbuffer' = ringbuffer,
           torn' = torn \cup ({line[1].frame} \cap Commands)
    PROVE  InOrder'
<1> DEFINE a == Len(ringbuffer)
<1>1. /\ Stream' = Stream - 1 /\ a < Stream /\ a \in Nat /\ Stream \in Nat
      /\ \A i \in 1..Stream' : At(i)' = IF i =< a THEN At(i) ELSE At(i + 1)
      /\ At(a + 1) = line[1]
  BY LoseCuts, StreamType
<1>2. ASSUME NEW i \in (a + 1)..Stream
      PROVE  At(i).frame = line[1].frame
  <2>1. i - a \in 1..Len(line)
    BY <1>1, StreamType DEF Stream
  <2>2. At(i) = line[i - a]
    BY <1>1 DEF At
  <2>3. QED
    BY <2>1, <2>2 DEF InOrder, OneFrame
<1> HIDE DEF a
<1>3. Ordered'
  <2> SUFFICES ASSUME NEW i \in 1..Stream', NEW j \in 1..Stream', i < j,
                      At(i)'.frame \in Commands, At(i)'.frame = At(j)'.frame
               PROVE  At(i)'.part < At(j)'.part
    BY DEF Ordered
  <2> DEFINE k == IF i =< a THEN i ELSE i + 1
             l == IF j =< a THEN j ELSE j + 1
  <2>1. At(i)' = At(k) /\ At(j)' = At(l)
    BY <1>1
  <2>2. k \in 1..Stream /\ l \in 1..Stream /\ k < l
    BY <1>1
  <2> HIDE DEF k, l
  <2>3. QED
    BY <2>1, <2>2 DEF InOrder, Ordered
<1>4. Unbroken'
  <2> SUFFICES ASSUME NEW i \in 1..Stream', Whole(At(i).frame)'
               PROVE  /\ At(i)'.part < 4 =>
                            i < Stream' /\ At(i + 1)' = Piece(At(i)'.frame, At(i)'.part + 1)
                      /\ At(i)'.part > 1 /\ i > 1 =>
                            At(i - 1)' = Piece(At(i)'.frame, At(i)'.part - 1)
    BY DEF Unbroken
  <2>1. At(i)'.frame # line[1].frame
    BY DEF Whole
  <2>2. i =< a
    <3>1. CASE i > a
      <4>1. At(i)' = At(i + 1) /\ i + 1 \in (a + 1)..Stream
        BY <1>1, <3>1
      <4>2. QED
        BY <1>2, <2>1, <4>1
    <3>2. QED
      BY <1>1, <3>1
  <2>3. At(i)' = At(i) /\ i \in 1..Stream /\ Whole(At(i).frame)
    BY <1>1, <2>2 DEF Whole
  <2>4. ASSUME At(i).part < 4
        PROVE  i < Stream' /\ At(i + 1)' = Piece(At(i).frame, At(i).part + 1)
    <3>1. At(i + 1) = Piece(At(i).frame, At(i).part + 1)
      BY <2>3, <2>4 DEF InOrder, Unbroken
    <3>2. i # a
      BY <1>1, <2>1, <2>3, <3>1 DEF Piece
    <3>3. i + 1 =< a /\ i + 1 \in 1..Stream' /\ i < Stream'
      BY <1>1, <2>2, <3>2
    <3>4. QED
      BY <1>1, <3>1, <3>3
  <2>5. ASSUME At(i).part > 1, i > 1
        PROVE  At(i - 1)' = Piece(At(i).frame, At(i).part - 1)
    <3>1. At(i - 1) = Piece(At(i).frame, At(i).part - 1)
      BY <2>3, <2>5 DEF InOrder, Unbroken
    <3>2. i - 1 =< a /\ i - 1 \in 1..Stream'
      BY <1>1, <2>2, <2>5
    <3>3. QED
      BY <1>1, <3>1, <3>2
  <2>6. QED
    BY <2>3, <2>4, <2>5
<1>5. OneFrame'
  BY TailType DEF InOrder, OneFrame
<1>6. QED
  BY <1>3, <1>4, <1>5 DEF InOrder

\* A frame on the empty line.
LEMMA SendAppends ==
    ASSUME TypeOK, NEW f \in Frames, line = <<>>, line' = PiecesOf(f), ringbuffer' = ringbuffer
    PROVE  /\ Stream = Len(ringbuffer) /\ Stream' = Stream + (HeaderSize + BodySize(f))
           /\ \A i \in 1..Stream' : At(i)' = IF i =< Stream THEN At(i) ELSE Piece(f, i - Stream)
           /\ \A i \in 1..Len(line') : line'[i].frame = f
<1> DEFINE a == Len(ringbuffer)
           b == HeaderSize + BodySize(f)
           line1 == line'
<1>1. a \in Nat /\ b \in Nat /\ Len(line) = 0
  BY StreamType, PiecesOfType
<1>2. Len(line1) = b /\ \A i \in 1..b : line1[i] = Piece(f, i)
  BY PiecesOfType
<1>3. \A i \in 1..b : line1[i].frame = f
  BY <1>2 DEF Piece
<1> HIDE DEF a, b, line1
<1>4. Stream = a /\ Stream' = a + b
  BY <1>1, <1>2 DEF Stream, a, line1
<1>5. ASSUME NEW i \in 1..Stream'
      PROVE  At(i)' = IF i =< a THEN At(i) ELSE Piece(f, i - a)
  <2>1. At(i)' = IF i =< a THEN ringbuffer[i] ELSE line1[i - a]
    BY DEF At, a, line1
  <2>2. CASE i =< a
    BY <2>1, <2>2 DEF At, a
  <2>3. CASE i > a
    <3>1. i - a \in 1..b
      BY <1>1, <1>4, <2>3
    <3>2. QED
      BY <1>1, <1>2, <2>1, <2>3, <3>1
  <2>4. QED
    BY <1>1, <1>4, <2>2, <2>3
<1>6. QED
  BY <1>2, <1>3, <1>4, <1>5 DEF a, b, line1

LEMMA SendKeepsOrder ==
    ASSUME TypeOK, InOrder, NEW f \in Frames, line = <<>>, line' = PiecesOf(f),
           ringbuffer' = ringbuffer, torn' = torn \ {f},
           f \in Commands => \A i \in DOMAIN ringbuffer : ringbuffer[i].frame # f
    PROVE  InOrder'
<1> DEFINE a == Stream
           b == HeaderSize + BodySize(f)
<1>1. /\ a = Len(ringbuffer) /\ Stream' = a + b /\ a \in Nat
      /\ \A i \in 1..Stream' : At(i)' = IF i =< a THEN At(i) ELSE Piece(f, i - a)
      /\ \A i \in 1..Len(line') : line'[i].frame = f
  BY SendAppends, StreamType
<1>2. b \in {2, 4} /\ (f \in Commands => b = 4)
  BY PiecesOfType, EspLinkAssumption DEF HeaderSize, BodySize, MessageSize
<1>3. ASSUME NEW i \in 1..a, At(i).frame \in Commands
      PROVE  At(i).frame # f
  <2>1. i \in DOMAIN ringbuffer /\ At(i) = ringbuffer[i]
    BY <1>1, LenProperties DEF At, TypeOK
  <2>2. QED
    BY <1>3, <2>1
<1>4. \A i \in 1..Stream' : i > a => At(i)'.frame = f /\ At(i)'.part = i - a
  BY <1>1 DEF Piece
<1> HIDE DEF a, b
<1>5. Ordered'
  <2> SUFFICES ASSUME NEW i \in 1..Stream', NEW j \in 1..Stream', i < j,
                      At(i)'.frame \in Commands, At(i)'.frame = At(j)'.frame
               PROVE  At(i)'.part < At(j)'.part
    BY DEF Ordered
  <2>1. CASE j =< a
    <3>1. i \in 1..a /\ j \in 1..a /\ At(i)' = At(i) /\ At(j)' = At(j)
      BY <1>1, <1>2, <2>1
    <3>2. QED
      BY <3>1 DEF InOrder, Ordered, a
  <2>2. CASE i =< a /\ j > a
    <3>1. i \in 1..a /\ At(i)' = At(i) /\ At(j)'.frame = f
      BY <1>1, <1>4, <2>2
    <3>2. QED
      BY <1>3, <3>1
  <2>3. CASE i > a
    <3>1. At(i)'.part = i - a /\ At(j)'.part = j - a
      BY <1>1, <1>2, <1>4, <2>3
    <3>2. QED
      BY <1>1, <1>2, <3>1
  <2>4. QED
    BY <1>1, <1>2, <2>1, <2>2, <2>3
<1>6. Unbroken'
  <2> SUFFICES ASSUME NEW i \in 1..Stream', Whole(At(i).frame)'
               PROVE  /\ At(i)'.part < 4 =>
                            i < Stream' /\ At(i + 1)' = Piece(At(i)'.frame, At(i)'.part + 1)
                      /\ At(i)'.part > 1 /\ i > 1 =>
                            At(i - 1)' = Piece(At(i)'.frame, At(i)'.part - 1)
    BY DEF Unbroken
  <2>1. CASE i =< a
    <3>1. i \in 1..a /\ At(i)' = At(i)
      BY <1>1, <2>1
    <3>2. Whole(At(i).frame)
      BY <1>3, <3>1 DEF Whole
    <3>3. /\ At(i).part < 4 => i < a /\ At(i + 1) = Piece(At(i).frame, At(i).part + 1)
          /\ At(i).part > 1 /\ i > 1 => At(i - 1) = Piece(At(i).frame, At(i).part - 1)
      BY <3>1, <3>2 DEF InOrder, Unbroken, a
    <3>4. /\ i < a => i + 1 \in 1..Stream' /\ i + 1 =< a /\ i < Stream'
          /\ i > 1 => i - 1 \in 1..Stream' /\ i - 1 =< a
      BY <1>1, <1>2, <3>1
    <3>5. QED
      BY <1>1, <3>1, <3>3, <3>4
  <2>2. CASE i > a
    <3>1. At(i)'.frame = f /\ At(i)'.part = i - a /\ f \in Commands
      BY <1>4, <2>2 DEF Whole
    <3>2. ASSUME At(i)'.part < 4
          PROVE  i < Stream' /\ At(i + 1)' = Piece(f, (i - a) + 1)
      <4>1. i < Stream' /\ i + 1 \in 1..Stream' /\ i + 1 > a /\ (i + 1) - a = (i - a) + 1
        BY <1>1, <1>2, <2>2, <3>1, <3>2
      <4>2. QED
        BY <1>1, <4>1
    <3>3. ASSUME At(i)'.part > 1
          PROVE  At(i - 1)' = Piece(f, (i - a) - 1)
      <4>1. i - 1 \in 1..Stream' /\ i - 1 > a /\ (i - 1) - a = (i - a) - 1
        BY <1>1, <1>2, <2>2, <3>1, <3>3
      <4>2. QED
        BY <1>1, <4>1
    <3>4. QED
      BY <3>1, <3>2, <3>3
  <2>3. QED
    BY <1>1, <1>2, <2>1, <2>2
<1>7. OneFrame'
  <2>1. 1 \in 1..Len(line')
    BY PiecesOfType
  <2>2. QED
    BY <1>1, <2>1 DEF OneFrame
<1>8. QED
  BY <1>5, <1>6, <1>7 DEF InOrder

-----------------------------------------------------------------------------
(* The commands.                                                           *)

\* Pieces, in Unread and Reading: only the first and the third of a command count.
LEMMA PieceParts ==
    \A f, g, p, q : /\ Piece(f, p).frame = f /\ Piece(f, p).part = p
                    /\ Piece(f, p) = Piece(g, q) => f = g /\ p = q
<1> SUFFICES ASSUME NEW f, NEW g, NEW p, NEW q
             PROVE  /\ Piece(f, p).frame = f /\ Piece(f, p).part = p
                    /\ Piece(f, p) = Piece(g, q) => f = g /\ p = q
  OBVIOUS
<1>1. \A h, r : Piece(h, r).frame = h /\ Piece(h, r).part = r
  BY DEF Piece
<1>2. QED
  BY <1>1

\* The interrupt inserts.
LEMMA InsertKeepsCommands ==
    ASSUME TypeOK, Unread, Handling, line # <<>>, line' = Tail(line), UNCHANGED <<history, core1>>,
           ringbuffer' = Append(ringbuffer, line[1])
    PROVE  Unread' /\ Handling'
<1>1. Stream' = Stream /\ Stream \in Nat /\ \A i \in 1..Stream : At(i)' = At(i)
  BY InsertKeepsStream, StreamType
<1>2. Unread'
  BY <1>1 DEF Unread, history, core1
<1>3. Idle' /\ Executing' /\ Acknowledging'
  BY DEF Handling, Idle, Executing, Acknowledging, history, core1
<1>4. Reading'
  <2>1. Stream > 0 => At(1)' = At(1)
    BY <1>1
  <2>2. QED
    BY <1>1, <2>1 DEF Handling, Reading, Whole, history, core1
<1>5. QED
  BY <1>2, <1>3, <1>4 DEF Handling

\* A piece is lost.
LEMMA LoseKeepsCommands ==
    ASSUME TypeOK, InOrder, Unread, Handling, line # <<>>, line' = Tail(line),
           UNCHANGED <<ringbuffer, fate, answer, core1>>,
           torn' = torn \cup ({line[1].frame} \cap Commands)
    PROVE  Unread' /\ Handling'
<1> DEFINE a == Len(ringbuffer)
<1>1. /\ Stream' = Stream - 1 /\ a < Stream /\ a \in Nat /\ Stream \in Nat
      /\ \A i \in 1..Stream' : At(i)' = IF i =< a THEN At(i) ELSE At(i + 1)
      /\ At(a + 1) = line[1]
  BY LoseCuts, StreamType
<1>2. pc' = pc /\ command' = command /\ fate' = fate /\ answer' = answer
  BY DEF core1
<1>3. Unread'
  <2> SUFFICES ASSUME NEW i \in 1..Stream', NEW c \in Commands
               PROVE  /\ At(i)' = Piece(c, 1) =>
                             /\ fate[c] = "sent" /\ answer[c] = "none"
                             /\ command.id # c /\ command.payload # c
                      /\ At(i)' = Piece(c, 3) => fate[c] = "sent" /\ command.payload # c
    BY <1>2 DEF Unread, Piece
  <2>1. PICK k \in 1..Stream : At(i)' = At(k)
    BY <1>1
  <2>2. QED
    BY <2>1 DEF Unread
<1>4. Idle' /\ Executing' /\ Acknowledging'
  BY <1>2 DEF Handling, Idle, Executing, Acknowledging
<1>5. Reading'
  <2> SUFFICES ASSUME pc = "body"
               PROVE  /\ Whole(command.id)' => Stream' > 0 /\ At(1)' = Piece(command.id, 3)
                      /\ Stream' > 0 /\ Whole(At(1).frame)' /\ At(1)'.part = 3 =>
                            At(1)'.frame = command.id
    BY <1>2 DEF Handling, Reading, Piece
  <2>1. \A f : Whole(f)' => Whole(f) /\ f # line[1].frame
    BY DEF Whole
  <2>2. CASE a = 0
    <3>1. At(1) = line[1]
      BY <1>1, <2>2
    <3>2. ~Whole(command.id)'
      BY <1>2, <2>1, <3>1, PieceParts DEF Handling, Reading, Whole
    <3>3. Stream' > 0 => At(1)'.frame = line[1].frame
      <4> SUFFICES ASSUME Stream' > 0
                   PROVE  At(1)'.frame = line[1].frame
        OBVIOUS
      <4>1. At(1)' = At(2) /\ 2 - a = 2 /\ ~(2 =< a) /\ 2 \in 1..Len(line)
        BY <1>1, <2>2, StreamType DEF Stream
      <4>2. At(2) = line[2]
        BY <4>1 DEF At
      <4>3. QED
        BY <4>1, <4>2 DEF InOrder, OneFrame
    <3>4. QED
      BY <3>2, <3>3 DEF Whole
  <2>3. CASE a > 0
    <3>1. Stream' > 0 /\ At(1)' = At(1) /\ Stream > 0
      BY <1>1, <2>3
    <3>2. QED
      BY <1>2, <3>1, <2>1 DEF Handling, Reading, Whole
  <2>4. QED
    BY <1>1, <2>2, <2>3
<1>6. QED
  BY <1>3, <1>4, <1>5 DEF Handling

\* The ESP32 sends a frame.
LEMMA SendKeepsCommands ==
    ASSUME TypeOK, Unread, Handling, NEW f \in Frames, line = <<>>, line' = PiecesOf(f),
           UNCHANGED <<ringbuffer, core1>>, torn' = torn \ {f},
           f \in Commands => Gone(f) /\ fate'[f] = "sent" /\ answer'[f] = "none",
           \A c \in Commands \ {f} : fate'[c] = fate[c] /\ answer'[c] = answer[c]
    PROVE  Unread' /\ Handling'
<1> DEFINE a == Stream
<1>1. /\ a = Len(ringbuffer) /\ Stream' = a + (HeaderSize + BodySize(f)) /\ a \in Nat
      /\ \A i \in 1..Stream' : At(i)' = IF i =< a THEN At(i) ELSE Piece(f, i - a)
  BY SendAppends, StreamType
<1>2. HeaderSize + BodySize(f) \in {2, 4}
  BY PiecesOfType
<1>3. ASSUME NEW i \in 1..a, At(i).frame \in Commands
      PROVE  At(i).frame # f
  <2>1. i \in DOMAIN ringbuffer /\ At(i) = ringbuffer[i]
    BY <1>1, LenProperties DEF At, TypeOK
  <2>2. QED
    BY <1>3, <2>1 DEF Gone
<1>4. pc' = pc /\ command' = command
  BY DEF core1
<1> HIDE DEF a
<1>5. Unread'
  <2> SUFFICES ASSUME NEW i \in 1..Stream', NEW c \in Commands
               PROVE  /\ At(i)' = Piece(c, 1) =>
                             /\ fate'[c] = "sent" /\ answer'[c] = "none"
                             /\ command.id # c /\ command.payload # c
                      /\ At(i)' = Piece(c, 3) => fate'[c] = "sent" /\ command.payload # c
    BY <1>4 DEF Unread, Piece
  <2>1. CASE i =< a
    <3>1. i \in 1..a /\ At(i)' = At(i)
      BY <1>1, <2>1
    <3>2. At(i) \in {Piece(c, 1), Piece(c, 3)} => c # f
      BY <1>3, <3>1, PieceParts
    <3>3. QED
      BY <3>1, <3>2 DEF Unread, a
  <2>2. CASE i > a
    <3>1. At(i)' = Piece(f, i - a)
      BY <1>1, <2>2
    <3>2. At(i)' \in {Piece(c, 1), Piece(c, 3)} => c = f
      BY <3>1, PieceParts
    <3>3. QED
      BY <3>2 DEF Gone
  <2>3. QED
    BY <1>1, <1>2, <2>1, <2>2
<1>6. Idle'
  BY <1>4 DEF Handling, Idle
<1>7. command.id \in Commands => command.id # f
  BY DEF Gone
<1>8. command.payload \in Commands => command.payload # f
  BY DEF Gone
<1>9. Executing' /\ Acknowledging'
  BY <1>4, <1>7, <1>8 DEF Handling, Executing, Acknowledging
<1>10. Reading'
  <2> SUFFICES ASSUME pc = "body"
               PROVE  /\ Whole(command.id)' => Stream' > 0 /\ At(1)' = Piece(command.id, 3)
                      /\ Stream' > 0 /\ Whole(At(1).frame)' /\ At(1)'.part = 3 =>
                            At(1)'.frame = command.id
    BY <1>4, <1>7 DEF Handling, Reading, Piece
  <2>1. Whole(command.id)' => Whole(command.id)
    BY <1>4, <1>7 DEF Whole
  <2>2. CASE a = 0
    <3>1. 1 - a = 1 /\ ~(1 =< a) /\ 1 \in 1..Stream'
      BY <1>1, <1>2, <2>2
    <3>2. At(1)'.part = 1
      BY <1>1, <3>1, PieceParts
    <3>3. ~Whole(command.id)
      BY <2>2 DEF Handling, Reading, a
    <3>4. QED
      BY <2>1, <3>2, <3>3
  <2>3. CASE a > 0
    <3>1. 1 \in 1..a /\ Stream' > 0 /\ At(1)' = At(1)
      BY <1>1, <1>2, <2>3
    <3>2. Whole(At(1).frame)' => Whole(At(1).frame)
      BY <1>3, <3>1 DEF Whole
    <3>3. QED
      BY <2>1, <2>3, <3>1, <3>2 DEF Handling, Reading, a
  <2>4. QED
    BY <1>1, <2>2, <2>3
<1>11. QED
  BY <1>5, <1>6, <1>9, <1>10 DEF Handling

\* The ESP32 and the interrupt, together.
LEMMA LineStep ==
    ASSUME LinkInv, (\E c \in Commands : EspSendsCommand(c)) \/ EspAcknowledges \/ OnUartRx \/ Overrun
    PROVE  LinkInv'
<1> SUFFICES InOrder' /\ Unread' /\ Handling'
  BY LineTypeStep DEF LinkInv, InOrder
<1>1. TypeOK /\ InOrder /\ Unread /\ Handling
  BY DEF LinkInv, InOrder
<1>2. ASSUME NEW c \in Commands, EspSendsCommand(c)
      PROVE  InOrder' /\ Unread' /\ Handling'
  <2>1. c \in Frames /\ Gone(c)
    BY <1>2 DEF EspSendsCommand, Frames
  <2>2. line = <<>> /\ line' = PiecesOf(c) /\ UNCHANGED <<ringbuffer, core1>> /\ torn' = torn \ {c}
    BY <1>2 DEF EspSendsCommand
  <2>3. /\ fate'[c] = "sent" /\ answer'[c] = "none"
        /\ \A d \in Commands \ {c} : fate'[d] = fate[d] /\ answer'[d] = answer[d]
    BY <1>1, <1>2 DEF EspSendsCommand, TypeOK
  <2>4. QED
    BY <1>1, <2>1, <2>2, <2>3, SendKeepsOrder, SendKeepsCommands DEF Gone
<1>3. CASE EspAcknowledges
  <2>1. "ack" \in Frames /\ "ack" \notin Commands
    BY EspLinkAssumption DEF Frames
  <2>2. line = <<>> /\ line' = PiecesOf("ack") /\ UNCHANGED <<ringbuffer, core1, history>>
    BY <1>3 DEF EspAcknowledges
  <2>3. torn' = torn \ {"ack"}
    BY <1>1, <2>1, <2>2 DEF TypeOK, history
  <2>4. QED
    BY <1>1, <2>1, <2>2, <2>3, SendKeepsOrder, SendKeepsCommands DEF history
<1>4. ASSUME Lose, line # <<>>, line' = Tail(line), UNCHANGED core1
      PROVE  InOrder' /\ Unread' /\ Handling'
  BY <1>1, <1>4, LoseKeepsOrder, LoseKeepsCommands DEF Lose
<1>5. CASE OnUartRx
  <2>1. line # <<>> /\ line' = Tail(line) /\ UNCHANGED core1
    BY <1>5 DEF OnUartRx
  <2>2. CASE Len(ringbuffer) < BufferSize
    <3>1. ringbuffer' = Append(ringbuffer, line[1]) /\ UNCHANGED history
      BY <1>5, <2>2 DEF OnUartRx, Insert
    <3>2. torn' = torn
      BY <3>1 DEF history
    <3>3. QED
      BY <1>1, <2>1, <3>1, <3>2, InsertKeepsOrder, InsertKeepsCommands
  <2>3. CASE ~(Len(ringbuffer) < BufferSize)
    BY <1>4, <1>5, <2>1, <2>3 DEF OnUartRx, Insert
  <2>4. QED
    BY <2>2, <2>3
<1>6. CASE Overrun
  BY <1>4, <1>6 DEF Overrun
<1>7. QED
  BY <1>2, <1>3, <1>5, <1>6

\* The head of the stream is what core 1 finds in the ring buffer.
LEMMA HeadOfStream ==
    ASSUME TypeOK, Len(ringbuffer) >= 2
    PROVE  At(1) = ringbuffer[1] /\ At(2) = ringbuffer[2] /\ Stream >= 2
BY StreamType DEF At, Stream

LEMMA TakenLength ==
    ASSUME TypeOK, NEW n \in 0..Len(ringbuffer), Taken(n)
    PROVE  Len(ringbuffer') = Len(ringbuffer) - n
BY DropProperties DEF Taken, TypeOK

\* Core 1, with the pieces of the stream it takes.
LEMMA ReaderKeepsCommands ==
    ASSUME TypeOK, InOrder, Unread, Handling, Reader
    PROVE  Unread'
<1>1. PICK n \in 0..Len(ringbuffer) : Suffix(n)
  BY ReaderTakes
<1>2. /\ Stream' = Stream - n /\ n \in Nat /\ Stream \in Nat
      /\ \A i \in 1..Stream' : At(i)' = At(i + n) /\ i + n \in 1..Stream
  <2>1. n \in Nat /\ Stream \in Nat
    BY StreamType
  <2>2. QED
    BY <1>1, <2>1, SuffixShifts
<1>3. SUFFICES ASSUME NEW j \in 1..Stream', NEW c \in Commands
               PROVE  /\ At(j)' = Piece(c, 1) =>
                             /\ fate'[c] = "sent" /\ answer'[c] = "none"
                             /\ command'.id # c /\ command'.payload # c
                      /\ At(j)' = Piece(c, 3) => fate'[c] = "sent" /\ command'.payload # c
  BY DEF Unread, Piece
<1> DEFINE i == j + n
           header == At(i) = Piece(c, 1)
           body   == At(i) = Piece(c, 3)
<1>4. /\ At(j)' = At(i) /\ i \in 1..Stream
      /\ header => fate[c] = "sent" /\ answer[c] = "none" /\ command.id # c /\ command.payload # c
      /\ body   => fate[c] = "sent" /\ command.payload # c
  BY <1>2 DEF Unread
<1>5. NoCommand.id # c /\ NoCommand.payload # c /\ c # "ack"
  BY EspLinkAssumption DEF NoCommand
<1>6. ASSUME NEW d \in Commands, NEW p \in {1, 3}, ringbuffer[1] = Piece(d, p),
             Taken(2), Len(ringbuffer) >= 2
      PROVE  (header => c # d) /\ (p = 3 => (body => c # d))
  <2>1. Stream' = Stream - 2
    <3>1. Len(ringbuffer') = Len(ringbuffer) - 2 /\ line' = line /\ Len(ringbuffer) \in Nat
      <4>1. 2 \in 0..Len(ringbuffer) /\ Len(ringbuffer) \in Nat
        BY <1>6, StreamType
      <4>2. QED
        BY <1>1, <1>6, <4>1, TakenLength DEF Suffix
    <3>2. QED
      BY <3>1, StreamType DEF Stream
  <2>2. i > 1 /\ 1 \in 1..Stream
    BY <1>2, <1>4, <2>1
  <2>3. At(1) = Piece(d, p)
    BY <1>6, HeadOfStream
  <2>4. At(i).frame = d => p < At(i).part
    BY <1>4, <2>2, <2>3, PieceParts DEF InOrder, Ordered
  <2>5. (header => At(i).frame = c /\ At(i).part = 1) /\ (body => At(i).frame = c /\ At(i).part = 3)
    BY PieceParts
  <2>6. ~(p < 1) /\ ~(3 < 3)
    OBVIOUS
  <2>7. QED
    BY <2>4, <2>5, <2>6
<1>7. Arrived(HeaderSize) \/ Arrived(MessageSize) => Len(ringbuffer) >= 2
  BY DEF Arrived, HeaderSize, MessageSize
<1> DEFINE Goal == /\ header => /\ fate'[c] = "sent" /\ answer'[c] = "none"
                               /\ command'.id # c /\ command'.payload # c
                   /\ body => fate'[c] = "sent" /\ command'.payload # c
<1> SUFFICES Goal
  BY <1>4
<1> HIDE DEF i, header, body
<1>8. CASE UNCHANGED history /\ command' \in {command, NoCommand}
  BY <1>4, <1>5, <1>8 DEF history
<1>9. CASE RefuseChecksum \/ MessageTimeout \/ SendAck
  <2>1. /\ fate' = fate /\ answer' \in {[answer EXCEPT ![command.id] = a] : a \in {"ack", "nack"}}
        /\ command' = NoCommand
    BY <1>9 DEF RefuseChecksum, MessageTimeout, SendAck, SendAnswer
  <2>2. command.id # c => answer'[c] = answer[c]
    BY <2>1 DEF TypeOK
  <2>3. QED
    BY <1>4, <1>5, <2>1, <2>2
<1>10. CASE ExecuteCommand
  <2>1. command.payload # c => fate'[c] = fate[c]
    BY <1>10 DEF ExecuteCommand, TypeOK
  <2>2. QED
    BY <1>4, <1>10, <2>1 DEF ExecuteCommand
<1>11. ASSUME NEW d \in Commands, BeginCommand(d) \/ RefuseLength(d)
       PROVE  Goal
  <2>1. Len(ringbuffer) >= 2 /\ Taken(2) /\ ringbuffer[1] = Piece(d, 1)
    BY <1>7, <1>11 DEF BeginCommand, RefuseLength, Framed, Part, HeaderSize, Piece
  <2>2. header => c # d
    BY <1>6, <2>1
  <2>3. CASE BeginCommand(d)
    <3>1. command'.id = d /\ command'.payload = "ack" /\ UNCHANGED history
      BY <2>3 DEF BeginCommand
    <3>2. QED
      BY <1>4, <1>5, <2>2, <3>1 DEF history
  <2>4. CASE RefuseLength(d)
    <3>1. fate' = fate /\ command' = command /\ (c # d => answer'[c] = answer[c])
      BY <2>4 DEF RefuseLength, SendAnswer, TypeOK
    <3>2. QED
      BY <1>4, <2>2, <3>1
  <2>5. QED
    BY <1>11, <2>3, <2>4
<1>12. ASSUME NEW d \in Commands, ReadMessage(d)
       PROVE  Goal
  <2>1. Len(ringbuffer) >= 2 /\ Taken(2) /\ ringbuffer[1] = Piece(d, 3)
    BY <1>7, <1>12 DEF ReadMessage, Intact, Part, MessageSize, Piece
  <2>2. (header => c # d) /\ (body => c # d)
    BY <1>6, <2>1
  <2>3. command'.id = command.id /\ command'.payload = d /\ UNCHANGED history
    BY <1>12 DEF ReadMessage, TypeOK
  <2>4. QED
    BY <1>4, <2>2, <2>3 DEF history
<1>13. QED
  <2>1. CASE \E d \in Commands : BeginCommand(d) \/ RefuseLength(d) \/ ReadMessage(d)
    BY <1>11, <1>12, <2>1
  <2>2. CASE \/ NothingReceived \/ DiscardBuffer \/ HeaderTimeout \/ NextTurn \/ SendStatus
             \/ (\E f \in Frames : ReadReply(f)) \/ ReadGarbledReply \/ SkipMessage \/ ReplyTimeout
             \/ RelaunchCore1
    <3>1. UNCHANGED history /\ command' \in {command, NoCommand}
      BY <2>2 DEF NothingReceived, DiscardBuffer, HeaderTimeout, NextTurn, SendStatus, ReadReply,
                  ReadGarbledReply, SkipMessage, ReplyTimeout, RelaunchCore1
    <3>2. QED
      BY <1>8, <3>1
  <2>3. QED
    BY <1>9, <1>10, <2>1, <2>2 DEF Reader, Core1, Timeout

\* Core 1, with the command it is at.
LEMMA ReaderKeepsHandling ==
    ASSUME TypeOK, InOrder, Unread, Handling, Reader
    PROVE  Handling'
<1>1. Arrived(HeaderSize) \/ Arrived(MessageSize) => Len(ringbuffer) >= 2
  BY DEF Arrived, HeaderSize, MessageSize
<1>2. CASE \/ NothingReceived \/ DiscardBuffer \/ HeaderTimeout \/ NextTurn \/ SendStatus
           \/ (\E f \in Frames : ReadReply(f)) \/ ReadGarbledReply \/ SkipMessage \/ ReplyTimeout
           \/ RefuseChecksum \/ MessageTimeout \/ SendAck \/ RelaunchCore1
           \/ \E c \in Commands : RefuseLength(c)
  <2>1. pc' \notin {"body", "execute", "ack"} /\ command' = NoCommand
    BY <1>2 DEF NothingReceived, DiscardBuffer, HeaderTimeout, NextTurn, SendStatus, ReadReply,
                ReadGarbledReply, SkipMessage, ReplyTimeout, RefuseChecksum, MessageTimeout,
                SendAck, RelaunchCore1, RefuseLength, Handling, Idle
  <2>2. QED
    BY <2>1 DEF Handling, Idle, Reading, Executing, Acknowledging
<1>3. ASSUME NEW c \in Commands, BeginCommand(c)
      PROVE  Handling'
  <2>1. /\ pc' = "body" /\ command'.id = c /\ command'.payload = "ack"
        /\ fate' = fate /\ answer' = answer /\ torn' = torn /\ line' = line
        /\ Len(ringbuffer) >= 2 /\ Taken(2)
    BY <1>1, <1>3 DEF BeginCommand, HeaderSize, history
  <2>2. At(1) = Piece(c, 1) /\ At(2) = Piece(c, 2) /\ Stream \in Nat /\ Stream >= 2
    BY <1>3, <2>1, HeadOfStream, StreamType DEF BeginCommand, Framed, Part, Piece
  <2>3. fate[c] = "sent" /\ answer[c] = "none"
    BY <2>2 DEF Unread
  <2>4. /\ 2 \in 0..Len(ringbuffer) /\ Suffix(2)
    BY <2>1, StreamType DEF Suffix
  <2>5. Stream' = Stream - 2 /\ (Stream' > 0 => At(1)' = At(3))
    <3>1. /\ Stream' = Stream - 2
          /\ \A i \in 1..Stream' : At(i)' = At(i + 2)
      BY <2>4, SuffixShifts
    <3>2. Stream' > 0 => 1 \in 1..Stream' /\ 1 + 2 = 3
      BY <2>2, <3>1
    <3>3. QED
      BY <3>1, <3>2
  <2>6. Whole(c) => Stream' > 0 /\ At(1)' = Piece(c, 3)
    <3> SUFFICES ASSUME Whole(c)
                 PROVE  Stream' > 0 /\ At(1)' = Piece(c, 3)
      OBVIOUS
    <3>1. 2 \in 1..Stream /\ At(2).frame = c /\ At(2).part = 2
      BY <2>2, PieceParts
    <3>2. 2 < Stream /\ At(2 + 1) = Piece(c, 2 + 1)
      BY <3>1 DEF InOrder, Unbroken
    <3>3. Stream' > 0 /\ 2 + 1 = 3
      BY <2>2, <2>5, <3>2
    <3>4. QED
      BY <2>5, <3>2, <3>3
  <2>7. Stream' > 0 /\ Whole(At(3).frame) /\ At(3).part = 3 => At(3).frame = c
    <3> SUFFICES ASSUME Stream' > 0, Whole(At(3).frame), At(3).part = 3
                 PROVE  At(3).frame = c
      OBVIOUS
    <3>1. 3 \in 1..Stream /\ 3 - 1 = 2
      BY <2>2, <2>5
    <3>2. At(3 - 1) = Piece(At(3).frame, 3 - 1)
      BY <3>1 DEF InOrder, Unbroken
    <3>3. QED
      BY <2>2, <3>1, <3>2, PieceParts
  <2>8. Reading'
    <3>1. \A f : Whole(f)' <=> Whole(f)
      BY <2>1 DEF Whole
    <3>2. Whole(command.id)' <=> Whole(c)
      BY <2>1 DEF Whole
    <3>3. Stream' > 0 => (Whole(At(1).frame)' <=> Whole(At(3).frame))
      BY <2>1, <2>5 DEF Whole
    <3>4. QED
      BY <2>1, <2>3, <2>5, <2>6, <2>7, <3>2, <3>3 DEF Reading, Piece
  <2>9. Idle' /\ Executing' /\ Acknowledging'
    BY <2>1 DEF Idle, Executing, Acknowledging
  <2>10. QED
    BY <2>8, <2>9 DEF Handling
<1>4. ASSUME NEW c \in Commands, ReadMessage(c)
      PROVE  Handling'
  <2>1. /\ pc = "body" /\ pc' = "execute" /\ command'.id = command.id /\ command'.payload = c
        /\ fate' = fate /\ answer' = answer /\ torn' = torn /\ Len(ringbuffer) >= 2
    BY <1>1, <1>4 DEF ReadMessage, history, TypeOK
  <2>2. At(1) = Piece(c, 3) /\ 1 \in 1..Stream /\ Stream > 0
    BY <1>4, <2>1, HeadOfStream, StreamType DEF ReadMessage, Intact, Part, Piece
  <2>3. fate[c] = "sent"
    BY <2>2 DEF Unread
  <2>4. Whole(command.id) \/ Whole(c) => c = command.id
    BY <2>1, <2>2, PieceParts DEF Handling, Reading
  <2>5. Executing'
    BY <2>1, <2>3, <2>4 DEF Handling, Reading, Executing, Whole
  <2>6. Idle' /\ Reading' /\ Acknowledging'
    BY <2>1 DEF Idle, Reading, Acknowledging
  <2>7. QED
    BY <2>5, <2>6 DEF Handling
<1>5. CASE ExecuteCommand
  <2>1. /\ pc = "execute" /\ pc' = "ack" /\ command' = command /\ answer' = answer /\ torn' = torn
        /\ \E outcome \in Handled : fate' = [fate EXCEPT ![command.payload] = outcome]
    BY <1>5 DEF ExecuteCommand, Outcomes, Handled
  <2>2. /\ command.id \in Commands /\ answer[command.id] = "none"
        /\ command.payload = command.id \/ command.id \in torn
    BY <2>1 DEF Handling, Executing
  <2>3. command.payload = command.id => fate'[command.id] \in Handled
    BY <2>1, <2>2 DEF TypeOK
  <2>4. Acknowledging'
    BY <2>1, <2>2, <2>3 DEF Acknowledging
  <2>5. QED
    BY <2>1, <2>4 DEF Handling, Idle, Reading, Executing
<1>6. QED
  BY <1>2, <1>3, <1>4, <1>5 DEF Reader, Core1, Timeout

LEMMA LinkInvInit == Init => LinkInv
<1> SUFFICES ASSUME Init
             PROVE  LinkInv
  OBVIOUS
<1>1. Stream = 0 /\ Len(line) = 0
  BY DEF Init, Stream
<1>2. Ordered /\ Unbroken /\ OneFrame /\ Unread
  BY <1>1 DEF Ordered, Unbroken, OneFrame, Unread
<1>3. Handling
  BY DEF Init, Handling, Idle, Reading, Executing, Acknowledging
<1>4. QED
  BY <1>2, <1>3, TypeInit DEF LinkInv

LEMMA LinkInvStep == LinkInv /\ [Next]_vars => LinkInv'
<1> SUFFICES ASSUME LinkInv, [Next]_vars
             PROVE  LinkInv'
  OBVIOUS
<1>1. CASE Reader
  <2>1. TypeOK /\ InOrder /\ Unread /\ Handling
    BY DEF LinkInv, InOrder
  <2>2. PICK n \in 0..Len(ringbuffer) : Suffix(n)
    BY <1>1, <2>1, ReaderTakes
  <2>3. InOrder'
    BY <2>1, <2>2, ReaderKeepsOrder
  <2>4. TypeOK' /\ Unread' /\ Handling'
    BY <1>1, <2>1, ReaderTypeStep, ReaderKeepsCommands, ReaderKeepsHandling
  <2>5. QED
    BY <2>3, <2>4 DEF LinkInv, InOrder
<1>2. CASE Esp32 \/ OnUartRx \/ Overrun
  BY <1>2, LineStep DEF Esp32
<1>3. CASE UNCHANGED vars
  BY <1>3 DEF vars, link, core1, history, LinkInv, TypeOK, Ordered, Unbroken, OneFrame, Unread,
              Handling, Idle, Reading, Executing, Acknowledging, Stream, At, Whole
<1>4. QED
  BY <1>1, <1>2, <1>3 DEF Next, Reader

-----------------------------------------------------------------------------
(* The refinement.                                                         *)

LEMMA LinkStep == LinkInv /\ [Next]_vars => [Link!LNext]_(Link!lvars)
<1> SUFFICES ASSUME LinkInv, [Next]_vars
             PROVE  [Link!LNext]_(Link!lvars)
  OBVIOUS
<1>1. TypeOK /\ Unread /\ Handling
  BY DEF LinkInv
<1>2. ASSUME NEW c \in Commands, EspSendsCommand(c)
      PROVE  Link!Send(c)
  BY <1>2 DEF EspSendsCommand, Link!Send
<1>3. ASSUME Lose
      PROVE  (\E c \in Commands : Link!Tear(c)) \/ UNCHANGED Link!lvars
  <2>1. CASE line[1].frame \in Commands
    <3>1. torn' = torn \cup {line[1].frame} /\ UNCHANGED <<fate, answer>>
      BY <1>3, <2>1 DEF Lose
    <3>2. QED
      BY <2>1, <3>1 DEF Link!Tear
  <2>2. CASE line[1].frame \notin Commands
    BY <1>3, <2>2 DEF Lose, Link!lvars
  <2>3. QED
    BY <2>1, <2>2
<1>4. CASE OnUartRx \/ Overrun
  BY <1>3, <1>4 DEF OnUartRx, Overrun, Insert, history, Link!LNext, Link!lvars
<1>5. ASSUME NEW c \in Commands, RefuseLength(c)
      PROVE  Link!Nack(c)
  <2>1. Len(ringbuffer) >= 2 /\ ringbuffer[1] = Piece(c, 1)
    BY <1>5 DEF RefuseLength, Arrived, HeaderSize, Part, Piece
  <2>2. 1 \in 1..Stream /\ At(1) = Piece(c, 1)
    BY <1>1, <2>1, HeadOfStream, StreamType
  <2>3. fate[c] = "sent" /\ answer[c] = "none"
    BY <1>1, <2>2 DEF Unread
  <2>4. QED
    BY <1>5, <2>3 DEF RefuseLength, SendAnswer, Link!Nack
<1>6. CASE RefuseChecksum \/ MessageTimeout
  <2>1. pc = "body"
    BY <1>6 DEF RefuseChecksum, MessageTimeout
  <2>2. /\ command.id \in Commands /\ fate[command.id] = "sent"
        /\ answer[command.id] = "none"
    BY <1>1, <2>1 DEF Handling, Reading
  <2>3. Link!Nack(command.id)
    BY <1>6, <2>2 DEF RefuseChecksum, MessageTimeout, SendAnswer, Link!Nack
  <2>4. QED
    BY <2>2, <2>3 DEF Link!LNext
<1>7. CASE ExecuteCommand
  <2>1. /\ command.payload \in Commands /\ fate[command.payload] = "sent"
        /\ command.payload \in torn \/ answer[command.payload] = "none"
    BY <1>1, <1>7 DEF ExecuteCommand, Handling, Executing
  <2>2. PICK outcome \in Outcomes(command.payload) :
            fate' = [fate EXCEPT ![command.payload] = outcome]
    BY <1>7 DEF ExecuteCommand
  <2>3. Link!Handle(command.payload, outcome)
    BY <1>7, <2>1, <2>2 DEF ExecuteCommand, Link!Handle
  <2>4. \/ Link!Execute(command.payload)
        \/ Link!Keep(command.payload)
        \/ Link!Ignore(command.payload)
    BY <2>2, <2>3 DEF Outcomes, Link!Execute, Link!Keep, Link!Ignore
  <2>5. QED
    BY <2>1, <2>4 DEF Link!LNext
<1>8. CASE SendAck
  <2>1. /\ command.id \in Commands /\ answer[command.id] = "none"
        /\ command.id \in torn \/ fate[command.id] \in {"executed", "kept", "ignored"}
    BY <1>1, <1>8 DEF SendAck, Handling, Acknowledging, Handled
  <2>2. Link!Ack(command.id)
    BY <1>8, <2>1 DEF SendAck, SendAnswer, Link!Ack
  <2>3. QED
    BY <2>1, <2>2 DEF Link!LNext
<1>9. CASE UNCHANGED history
  BY <1>9 DEF history, Link!lvars
<1>10. CASE \/ EspAcknowledges \/ NothingReceived \/ DiscardBuffer \/ HeaderTimeout \/ NextTurn
            \/ SendStatus \/ (\E f \in Frames : ReadReply(f)) \/ ReadGarbledReply \/ SkipMessage
            \/ ReplyTimeout \/ RelaunchCore1 \/ UNCHANGED vars
            \/ \E c \in Commands : BeginCommand(c) \/ ReadMessage(c)
  <2>1. UNCHANGED history
    BY <1>10 DEF EspAcknowledges, NothingReceived, DiscardBuffer, HeaderTimeout, NextTurn,
                 SendStatus, ReadReply, ReadGarbledReply, SkipMessage, ReplyTimeout,
                 RelaunchCore1, BeginCommand, ReadMessage, vars, history
  <2>2. QED
    BY <1>9, <2>1
<1>11. QED
  BY <1>2, <1>4, <1>5, <1>6, <1>7, <1>8, <1>10 DEF Next, Esp32, Core1, Timeout, Link!LNext

\* For any commands and settings and a ring buffer of any size, whatever is lost,
\* times out or is reset: a command that was not torn on the line is handled at most
\* once for each sending, acknowledged only when handled, and never handled once
\* refused; handled is executed, but for a setting, which core 0 may not know of,
\* and a type without a case.
THEOREM LinkImplementsCommandLink == Spec => ImplementsLink
<1>1. Init => Link!LInit
  BY DEF Init, Link!LInit
<1>2. QED
  BY <1>1, LinkInvInit, LinkInvStep, LinkStep, PTL DEF Spec, ImplementsLink, Link!LSpec

-----------------------------------------------------------------------------
(* Core 1 comes back to its loop.                                          *)

\* The guards of Core1 and Timeout: core 1 stands still where it waits for pieces,
\* until its timeout, and after a panic.
Core1Can ==
    \/ pc = "loop" /\ (ringbuffer = <<>> \/ Arrived(HeaderSize))
    \/ pc = "body" /\ Arrived(MessageSize)
    \/ pc \in {"execute", "ack", "main"}
    \/ pc = "reply" /\ Arrived(HeaderSize)
    \/ pc = "skip" /\ Arrived(need)

TimeoutCan == pc # "stuck" /\ ~Core1Can

\* The fairness of FairSpec that concerns core 1, with these guards where the
\* definition of WF has ENABLED.
Core1GoesOn == []<>~Core1Can \/ []<><<Core1>>_vars
WaitsEnd    == []<>~TimeoutCan \/ []<><<Timeout>>_vars
PanicsEnd   == []<>(pc # "stuck") \/ []<><<pc = "stuck" /\ RelaunchCore1>>_vars
Progress    == Core1GoesOn /\ WaitsEnd /\ PanicsEnd

Leaves(p) == Spec /\ Progress => [](pc = p => <>(pc # p))

\* What has arrived stays while core 1 waits for more.
LEMMA ReadyStays ==
    ASSUME TypeOK, [Next]_vars, pc # "loop", pc' = pc, Core1Can
    PROVE  Core1Can'
<1>1. need' = need /\ Len(ringbuffer') >= Len(ringbuffer)
  <2>1. CASE Esp32 \/ Overrun \/ UNCHANGED vars
    BY <2>1 DEF Esp32, EspSendsCommand, EspAcknowledges, Overrun, Lose, vars, link, core1, TypeOK
  <2>2. CASE OnUartRx
    BY <2>2 DEF OnUartRx, Insert, Lose, core1, TypeOK
  <2>3. CASE Core1 \/ Timeout \/ RelaunchCore1
    BY <2>3
       DEF Core1, Timeout, RelaunchCore1, NothingReceived, DiscardBuffer, BeginCommand,
           RefuseLength, ReadMessage, RefuseChecksum, ExecuteCommand, SendAck, NextTurn,
           SendStatus, ReadReply, ReadGarbledReply, SkipMessage, HeaderTimeout,
           MessageTimeout, ReplyTimeout
  <2>4. QED
    BY <2>1, <2>2, <2>3 DEF Next
<1>2. Len(ringbuffer) \in Nat /\ Len(ringbuffer') \in Nat /\ need \in Nat
  BY TypeStep, EspLinkAssumption DEF TypeOK
<1>3. QED
  BY <1>1, <1>2 DEF Core1Can, Arrived, HeaderSize, MessageSize

\* Every step of core 1 leads somewhere else.
LEMMA StepsLeave ==
    ASSUME TypeOK, Core1 \/ Timeout \/ (pc = "stuck" /\ RelaunchCore1)
    PROVE  pc' # pc
BY DEF Core1, Timeout, RelaunchCore1, NothingReceived, DiscardBuffer, BeginCommand,
       RefuseLength, ReadMessage, RefuseChecksum, ExecuteCommand, SendAck, NextTurn,
       SendStatus, ReadReply, ReadGarbledReply, SkipMessage, HeaderTimeout,
       MessageTimeout, ReplyTimeout

\* Core 1 stands still nowhere: what it can do it can still do a step later, and where
\* it can do nothing its timeout can.
LEMMA NoStandstill ==
    ASSUME NEW p \in {"body", "execute", "ack", "main", "reply", "skip", "stuck"}
    PROVE  Leaves(p)
<1> DEFINE Here == pc = p
<1>1. TypeOK /\ [Next]_vars /\ Here /\ Here' /\ Core1Can => Core1Can'
  BY ReadyStays
<1>2. TypeOK /\ Here /\ (<<Core1>>_vars \/ <<Timeout>>_vars) => ~Here'
  BY StepsLeave
<1>3. TypeOK /\ Here /\ <<pc = "stuck" /\ RelaunchCore1>>_vars => ~Here'
  BY StepsLeave
<1>4. TimeoutCan <=> ~(pc = "stuck") /\ ~Core1Can
  BY DEF TimeoutCan
<1>5. pc = "stuck" => ~Core1Can
  BY DEF Core1Can
<1>6. Here /\ Here' /\ pc = "stuck" => (pc = "stuck")'
  OBVIOUS
<1>7. (pc # "stuck" <=> ~(pc = "stuck")) /\ (pc # p <=> ~Here)
  OBVIOUS
<1>8. QED
  BY <1>1, <1>2, <1>3, <1>4, <1>5, <1>6, <1>7, LinkTypes, PTL
     DEF Core1GoesOn, WaitsEnd, PanicsEnd, Progress, Spec, Leaves

\* Where a turn goes on, but for its end and a reset.
LEMMA WayBack ==
    ASSUME TypeOK, [Next]_vars, pc' # pc, pc' # "loop"
    PROVE  /\ pc = "body"    => pc' \in {"execute", "main"}
           /\ pc = "execute" => pc' = "ack"
           /\ pc = "ack"     => pc' = "main"
           /\ pc = "main"    => pc' = "reply"
           /\ pc = "reply"   => pc' \in {"skip", "stuck"}
           /\ pc \notin {"skip", "stuck"}
BY DEF Next, Esp32, EspSendsCommand, EspAcknowledges, OnUartRx, Overrun, core1, vars,
       Core1, Timeout, RelaunchCore1, NothingReceived, DiscardBuffer, BeginCommand,
       RefuseLength, ReadMessage, RefuseChecksum, ExecuteCommand, SendAck, NextTurn,
       SendStatus, ReadReply, ReadGarbledReply, SkipMessage, HeaderTimeout,
       MessageTimeout, ReplyTimeout

\* LoopGoesOn for any set of commands and a ring buffer of any size: whatever the ESP32
\* sends, stops sending or never acknowledges, core 1 comes back to its loop.
THEOREM LoopIsReached == Spec /\ Progress => LoopGoesOn
<1>1. TypeOK /\ [Next]_vars =>
        /\ pc = "body"    => (pc = "loop" \/ pc = "body" \/ pc = "execute" \/ pc = "main")'
        /\ pc = "execute" => (pc = "loop" \/ pc = "execute" \/ pc = "ack")'
        /\ pc = "ack"     => (pc = "loop" \/ pc = "ack" \/ pc = "main")'
        /\ pc = "main"    => (pc = "loop" \/ pc = "main" \/ pc = "reply")'
        /\ pc = "reply"   => (pc = "loop" \/ pc = "reply" \/ pc = "skip" \/ pc = "stuck")'
        /\ pc = "skip"    => (pc = "loop" \/ pc = "skip")'
        /\ pc = "stuck"   => (pc = "loop" \/ pc = "stuck")'
  BY WayBack, Zenon
<1>2. TypeOK => \/ pc = "loop" \/ pc = "body" \/ pc = "execute" \/ pc = "ack" \/ pc = "main"
                \/ pc = "reply" \/ pc = "skip" \/ pc = "stuck"
  BY DEF TypeOK
<1>3. /\ Leaves("body") /\ Leaves("execute") /\ Leaves("ack") /\ Leaves("main")
      /\ Leaves("reply") /\ Leaves("skip") /\ Leaves("stuck")
  BY NoStandstill
<1>4. /\ pc # "body" <=> ~(pc = "body")
      /\ pc # "execute" <=> ~(pc = "execute")
      /\ pc # "ack" <=> ~(pc = "ack")
      /\ pc # "main" <=> ~(pc = "main")
      /\ pc # "reply" <=> ~(pc = "reply")
      /\ pc # "skip" <=> ~(pc = "skip")
      /\ pc # "stuck" <=> ~(pc = "stuck")
  OBVIOUS
<1>5. QED
  BY <1>1, <1>2, <1>3, <1>4, LinkTypes, PTL DEF Spec, LoopGoesOn, Leaves

=============================================================================
