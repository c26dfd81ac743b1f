------------------------------- MODULE EspLink -------------------------------
(***************************************************************************)
(* The link to the ESP32: the ring buffer an interrupt fills, the part of  *)
(* core 1's loop that reads it (EspFirmware::loop and handleCommand) and   *)
(* the part that sends a status and takes what arrives next as the         *)
(* acknowledgement (sendStatus and waitForAck).                            *)
(*                                                                         *)
(* A frame is cut into pieces of equal length: 1 and 2 are its header      *)
(* (direction, id and type in 1; the length field in 2), 3 and 4 the body  *)
(* of a command (checksum, payload).  A read takes pieces, of whatever     *)
(* frames.  A wait for pieces ends when there are enough or, at any time   *)
(* before that, with its timeout: the ESP32 is as slow as it likes.        *)
(***************************************************************************)
EXTENDS Naturals, Sequences

CONSTANTS
    Commands,          \* what the ESP32 may send, by id
    SettingCommands,   \* those that set something in SettingsManager
    UnhandledCommands, \* those of a type handleCommand has no case for
    BufferSize         \* of the ring buffer, in pieces

\* Of the frames that are no commands, the acknowledgement of a status.
Frames == Commands \cup {"ack"}

ASSUME EspLinkAssumption ==
    /\ "ack" \notin Commands
    /\ SettingCommands \subseteq Commands /\ UnhandledCommands \subseteq Commands
    /\ SettingCommands \cap UnhandledCommands = {}
    /\ BufferSize \in Nat \ {0}

HeaderSize  == 2
MessageSize == 2     \* of a command

\* Pieces after the header.
BodySize(f) == IF f = "ack" THEN 0 ELSE MessageSize

Pieces == [frame: Frames, part: 1..HeaderSize + MessageSize]

NoCommand == [id |-> "ack", payload |-> "ack"]

VARIABLES
    line,        \* pieces of the frame the ESP32 is sending that have not arrived
    ringbuffer,
    pc,          \* where core 1 is
    command,     \* id of the header and payload of the body core 1 has read
    need,        \* pieces waitForAck wants to skip
    owesAck,     \* the ESP32 has a status to acknowledge
    fate,        \* of the last sending of each command
    answer,      \* to it
    torn         \* the commands part of whose last sending was lost on the line

link    == <<line, ringbuffer>>
core1   == <<pc, command, need>>
history == <<fate, answer, torn>>
vars == <<link, core1, owesAck, history>>

Init ==
    /\ line = <<>> /\ ringbuffer = <<>>
    /\ pc = "loop" /\ command = NoCommand /\ need = 0
    /\ owesAck = FALSE
    /\ fate = [c \in Commands |-> "unsent"]
    /\ answer = [c \in Commands |-> "none"]
    /\ torn = {}

-----------------------------------------------------------------------------
(* The ESP32 (external).  It sends one frame after the other.  An id is    *)
(* used again, for a retry or another command, when nothing of its last    *)
(* sending is left: ids are new each time.                                 *)

PiecesOf(f) == [i \in 1..HeaderSize + BodySize(f) |-> [frame |-> f, part |-> i]]

Gone(c) ==
    /\ \A i \in DOMAIN ringbuffer : ringbuffer[i].frame # c
    /\ command.id # c /\ command.payload # c

EspSendsCommand(c) ==
    /\ line = <<>> /\ Gone(c)
    /\ line' = PiecesOf(c)
    /\ fate' = [fate EXCEPT ![c] = "sent"]
    /\ answer' = [answer EXCEPT ![c] = "none"]
    /\ torn' = torn \ {c}
    /\ UNCHANGED <<ringbuffer, core1, owesAck>>

EspAcknowledges ==
    /\ line = <<>> /\ owesAck
    /\ line' = PiecesOf("ack")
    /\ owesAck' = FALSE
    /\ UNCHANGED <<ringbuffer, core1, history>>

-----------------------------------------------------------------------------
(* The interrupt.  The FIFO of the UART is off: what the handler does not  *)
(* take in time is lost, as is what finds the ring buffer full.            *)

Lose ==
    /\ torn' = torn \cup ({line[1].frame} \cap Commands)
    /\ UNCHANGED <<ringbuffer, fate, answer>>

\* Slip: no look at the room left.
InsertAlways == ringbuffer' = Append(ringbuffer, line[1]) /\ UNCHANGED history

Insert ==
    IF Len(ringbuffer) < BufferSize
      THEN /\ ringbuffer' = Append(ringbuffer, line[1])
           /\ UNCHANGED history
      ELSE Lose

OnUartRx ==
    /\ line # <<>>
    /\ line' = Tail(line)
    /\ Insert
    /\ UNCHANGED <<core1, owesAck>>

Overrun ==
    /\ line # <<>>
    /\ line' = Tail(line)
    /\ Lose
    /\ UNCHANGED <<core1, owesAck>>

-----------------------------------------------------------------------------
(* readFromRingBufferBlockingWithTimeout, whose result is in two steps: the *)
(* pieces are there, or the time is over.                                  *)

Arrived(n) == Len(ringbuffer) >= n
Taken(n)   == ringbuffer' = SubSeq(ringbuffer, n + 1, Len(ringbuffer))
Part(i, f, p) == ringbuffer[i] = [frame |-> f, part |-> p]

\* Pieces 1 and 2 of one frame.
Framed(f) == Part(1, f, 1) /\ Part(2, f, 2)

SendAnswer(c, a) == answer' = [answer EXCEPT ![c] = a]

-----------------------------------------------------------------------------
(* EspFirmware::loop and handleCommand.                                    *)

NothingReceived ==
    /\ pc = "loop" /\ ringbuffer = <<>>
    /\ pc' = "main"
    /\ UNCHANGED <<link, command, need, owesAck, history>>

\* A frame in the wrong direction or of another type: everything is thrown away.
DiscardBuffer ==
    /\ pc = "loop" /\ Arrived(HeaderSize)
    /\ \A c \in Commands : ~Part(1, c, 1)
    /\ ringbuffer' = <<>>
    /\ pc' = "main"
    /\ UNCHANGED <<line, command, need, owesAck, history>>

\* The length field is read where it should be.
BeginCommand(c) ==
    /\ pc = "loop" /\ Arrived(HeaderSize)
    /\ Framed(c)
    /\ Taken(HeaderSize)
    /\ command' = [id |-> c, payload |-> "ack"]
    /\ pc' = "body"
    /\ UNCHANGED <<line, need, owesAck, history>>

RefuseLength(c) ==
    /\ pc = "loop" /\ Arrived(HeaderSize)
    /\ Part(1, c, 1) /\ ~Framed(c)
    /\ Taken(HeaderSize)
    /\ SendAnswer(c, "nack")
    /\ pc' = "main"
    /\ UNCHANGED <<line, command, need, owesAck, fate, torn>>

\* Slip: what has arrived of a header is kept for the next turn.
HeaderTimeoutKeeps ==
    /\ pc = "loop" /\ ringbuffer # <<>> /\ ~Arrived(HeaderSize)
    /\ pc' = "main"
    /\ UNCHANGED <<link, command, need, owesAck, history>>

HeaderTimeout ==
    /\ pc = "loop" /\ ringbuffer # <<>> /\ ~Arrived(HeaderSize)
    /\ ringbuffer' = <<>>
    /\ pc' = "main"
    /\ UNCHANGED <<line, command, need, owesAck, history>>

\* The checksum is right for a whole body, whatever header it follows.
Intact(c) == Part(1, c, 3) /\ Part(2, c, 4)

ReadMessage(c) ==
    /\ pc = "body" /\ Arrived(MessageSize)
    /\ Intact(c)
    /\ Taken(MessageSize)
    /\ command' = [command EXCEPT !.payload = c]
    /\ pc' = "execute"
    /\ UNCHANGED <<line, need, owesAck, history>>

RefuseChecksum ==
    /\ pc = "body" /\ Arrived(MessageSize)
    /\ \A c \in Commands : ~Intact(c)
    /\ Taken(MessageSize)
    /\ SendAnswer(command.id, "nack")
    /\ command' = NoCommand
    /\ pc' = "main"
    /\ UNCHANGED <<line, need, owesAck, fate, torn>>

MessageTimeout ==
    /\ pc = "body" /\ ~Arrived(MessageSize)
    /\ SendAnswer(command.id, "nack")
    /\ command' = NoCommand
    /\ pc' = "main"
    /\ UNCHANGED <<link, need, owesAck, fate, torn>>

\* What becomes of a command.  The types without a case are ignored
\* (ESP_SYSTEM_COMMAND_CANCEL_ROUTINE is one).  A setting is set, but core 0 is
\* told with tryAdd, whose result SettingsManager::sendMessage ignores: the setting
\* may be kept here only.  The other commands wait for room in the queue or need
\* none, so they are executed.
Outcomes(c) ==
    {outcome \in {"executed", "kept", "ignored"} :
        /\ outcome = "kept" => c \in SettingCommands
        /\ outcome = "ignored" <=> c \in UnhandledCommands}

\* Slip: tryAdd for addBlocking, a full queue drops a hard bail or a flow mode.
ExecuteOrDrop ==
    /\ pc = "execute"
    /\ \E outcome \in Outcomes(command.payload) \cup {"ignored"} :
          fate' = [fate EXCEPT ![command.payload] = outcome]
    /\ pc' = "ack"
    /\ UNCHANGED <<link, command, need, owesAck, answer, torn>>

ExecuteCommand ==
    /\ pc = "execute"
    /\ \E outcome \in Outcomes(command.payload) :
          fate' = [fate EXCEPT ![command.payload] = outcome]
    /\ pc' = "ack"
    /\ UNCHANGED <<link, command, need, owesAck, answer, torn>>

SendAck ==
    /\ pc = "ack"
    /\ SendAnswer(command.id, "ack")
    /\ command' = NoCommand
    /\ pc' = "main"
    /\ UNCHANGED <<link, need, owesAck, fate, torn>>

-----------------------------------------------------------------------------
(* The rest of a turn of main1: the automations, and a status when 250 ms  *)
(* have passed.  Nobody uses what waitForAck returns.                      *)

NextTurn ==
    /\ pc = "main"
    /\ pc' = "loop"
    /\ UNCHANGED <<link, command, need, owesAck, history>>

SendStatus ==
    /\ pc = "main"
    /\ ringbuffer' = <<>>
    /\ owesAck' = TRUE
    /\ pc' = "reply"
    /\ UNCHANGED <<line, command, need, history>>

\* An acknowledgement, or the header of something that has a body.
ReadReply(f) ==
    /\ pc = "reply" /\ Arrived(HeaderSize)
    /\ Framed(f)
    /\ Taken(HeaderSize)
    /\ need' = BodySize(f)
    /\ pc' = IF BodySize(f) = 0 THEN "loop" ELSE "skip"
    /\ UNCHANGED <<line, command, owesAck, history>>

\* No header at all: the length is anything, also more than the ring buffer
\* holds or malloc has (which stops core 1).
ReadGarbledReply ==
    /\ pc = "reply" /\ Arrived(HeaderSize)
    /\ \A f \in Frames : ~Framed(f)
    /\ Taken(HeaderSize)
    /\ \/ need' = 0 /\ pc' = "loop"
       \/ need' \in {1, BufferSize + 1} /\ pc' = "skip"
       \/ need' = 0 /\ pc' = "stuck"
    /\ UNCHANGED <<line, command, owesAck, history>>

SkipMessage ==
    /\ pc = "skip" /\ Arrived(need)
    /\ Taken(need)
    /\ need' = 0
    /\ pc' = "loop"
    /\ UNCHANGED <<line, command, owesAck, history>>

\* Slip: only the header is waited for with a timeout.
ReplyTimeoutHeaderOnly ==
    /\ pc = "reply" /\ ~Arrived(HeaderSize)
    /\ need' = 0
    /\ pc' = "loop"
    /\ UNCHANGED <<link, command, owesAck, history>>

\* What has arrived stays for the loop.
ReplyTimeout ==
    /\ \/ pc = "reply" /\ ~Arrived(HeaderSize)
       \/ pc = "skip" /\ ~Arrived(need)
    /\ need' = 0
    /\ pc' = "loop"
    /\ UNCHANGED <<link, command, owesAck, history>>

-----------------------------------------------------------------------------
\* Core 0 resets core 1, wherever it is; the ring buffer is static and stays.
RelaunchCore1 ==
    /\ pc' = "loop" /\ command' = NoCommand /\ need' = 0
    /\ UNCHANGED <<link, owesAck, history>>

Esp32 == (\E c \in Commands : EspSendsCommand(c)) \/ EspAcknowledges

Timeout == HeaderTimeout \/ MessageTimeout \/ ReplyTimeout

Core1 ==
    \/ NothingReceived \/ DiscardBuffer
    \/ \E c \in Commands : BeginCommand(c) \/ RefuseLength(c) \/ ReadMessage(c)
    \/ RefuseChecksum \/ ExecuteCommand \/ SendAck
    \/ NextTurn \/ SendStatus
    \/ (\E f \in Frames : ReadReply(f)) \/ ReadGarbledReply \/ SkipMessage

Next == Esp32 \/ OnUartRx \/ Overrun \/ Core1 \/ Timeout \/ RelaunchCore1

Spec == Init /\ [][Next]_vars

\* Core 1 goes on or its timeouts end the waiting, what is sent arrives, and
\* main0 resets a core 1 that stands still (its statuses fill the queue).
FairSpec ==
    /\ Spec
    /\ WF_vars(Core1) /\ WF_vars(Timeout) /\ WF_vars(OnUartRx)
    /\ WF_vars(pc = "stuck" /\ RelaunchCore1)

-----------------------------------------------------------------------------
(* Properties.                                                             *)

\* Types; the ring buffer keeps its size.
TypeOK ==
    /\ line \in Seq(Pieces) /\ Len(line) =< HeaderSize + MessageSize
    /\ ringbuffer \in Seq(Pieces) /\ Len(ringbuffer) =< BufferSize
    /\ pc \in {"loop", "body", "execute", "ack", "main", "reply", "skip", "stuck"}
    /\ command \in [id: Frames, payload: Frames]
    /\ need \in 0..BufferSize + 1
    /\ owesAck \in BOOLEAN
    /\ fate \in [Commands -> {"unsent", "sent", "executed", "kept", "ignored"}]
    /\ answer \in [Commands -> {"none", "ack", "nack"}]
    /\ torn \subseteq Commands

\* A command that was not torn on the line is handled at most once for each
\* sending, acknowledged only when handled, and never handled once refused;
\* whatever status exchanges, timeouts and resets of core 1 do to it.  Handled is
\* executed, but for a setting, of which core 0 may not have been told, and for a
\* type without a case.
Link == INSTANCE CommandLink
ImplementsLink == Link!LSpec

\* Liveness: whatever the ESP32 sends, stops sending or never acknowledges, core 1
\* comes back to its loop.
LoopGoesOn == []<>(pc = "loop")

\* Liveness: after any loss of framing, once the ESP32 pauses, core 1 is back in
\* its loop with nothing in the ring buffer, so that it reads the next frame from
\* its beginning; whether or not a status is sent.
LinkRecovers == <>[](line = <<>>) => []<>(ringbuffer = <<>> /\ pc = "loop")

=============================================================================
