----------------------------- MODULE RlpxStream -----------------------------
(***************************************************************************)
(* One direction of a connection: sendMsg and the receiving functions of   *)
(* net/node.go over Connection.Write and Read (net/rlpx/transport.go) over *)
(* the frames of p2p/rlpx.go.  A message is a header of 12 bytes and a     *)
(* payload; each is one Write: a frame that announces the size, then the   *)
(* data in packets.  Writer and reader interleave frame by frame; frames   *)
(* may be damaged or lost, the source of a payload may be short and both   *)
(* ends have deadlines.                                                    *)
(*                                                                         *)
(* Bytes are abstracted to where they come from: a frame names the         *)
(* message, the part and the offset of its first byte, a buffer is the     *)
(* first len bytes of one part, or not clean.                              *)
(***************************************************************************)
EXTENDS Naturals, Sequences

CONSTANTS
    MsgTypes,      \* message types
    Lens,          \* payload lengths
    HeaderSize,    \* bytes of a message header (12)
    SizeBytes,     \* bytes of an encoded size (8)
    PacketSize,    \* rlpxMsgDataPacketSize (16777210)
    CodeSize,      \* bytes of an encoded message code (2)
    MaxFrame,      \* maxUint24
    Word,          \* 2^64
    MaxMsgs,       \* messages sent over the connection
    MaxFaults

ASSUME StreamAssumption ==
    /\ HeaderSize \in 1..(Word - 1)
    /\ Lens \subseteq 0..(Word - 1)
    /\ SizeBytes \in Nat \ {0} /\ PacketSize \in Nat \ {0} /\ CodeSize \in Nat
    /\ MaxFrame \in Nat /\ Word \in Nat
    /\ CodeSize + PacketSize <= MaxFrame
    /\ CodeSize + SizeBytes <= MaxFrame
    /\ MaxMsgs \in Nat /\ MaxFaults \in Nat

VARIABLES
    sent,     \* the messages sendMsg was called with
    whole,    \* how many of them were written to the end
    w,        \* the writer: next step, part, bytes written and left
    wire,     \* the frames on their way
    r,        \* the reader: next step, part, bytes left, buffer, header
    got,      \* the messages the receiving function returned
    faults

vars == <<sent, whole, w, wire, r, got, faults>>

Parts == {"header", "payload"}
Message == [id : 1..MaxMsgs, typ : MsgTypes, len : Lens]
Length(i, part) == IF part = "header" THEN HeaderSize ELSE sent[i].len

Init ==
    /\ sent = << >> /\ whole = 0
    /\ w = [pc |-> "idle", part |-> "header", cur |-> 0, remaining |-> 0]
    /\ wire = << >>
    /\ r = [pc |-> "size", part |-> "header", cur |-> 0, remaining |-> 0, clean |-> TRUE,
            id |-> 0, typ |-> "", len |-> 0]
    /\ got = << >>
    /\ faults = 0

writer == <<sent, whole, w>>
reader == <<r, got>>

-----------------------------------------------------------------------------
(***************************************************************************)
(* The writer.                                                             *)
(***************************************************************************)
\* Node.sendMsg
sendMsg(typ, n) ==
    /\ w.pc = "idle"
    /\ Len(sent) < MaxMsgs
    /\ sent' = Append(sent, [id |-> Len(sent) + 1, typ |-> typ, len |-> n])
    /\ w' = [pc |-> "size", part |-> "header", cur |-> 0, remaining |-> 0]
    /\ UNCHANGED <<whole, wire, reader, faults>>

\* rlpxFrameRW.WriteMsg refuses a frame that is longer than its length field can say.
FrameFits(size) == CodeSize + size <= MaxFrame

\* The frame it writes: header, content and MACs, in three writes to the connection.
Frame(code, size, val, ok) ==
    [code |-> code, id |-> Len(sent), part |-> w.part, from |-> w.cur, size |-> size,
     val |-> val, ok |-> ok]

\* The end of a Write: the header's is followed by the payload's, which ends sendMsg.
NextPart ==
    IF w.part = "header"
    THEN /\ w' = [pc |-> "size", part |-> "payload", cur |-> 0, remaining |-> 0]
         /\ UNCHANGED whole
    ELSE /\ w' = [w EXCEPT !.pc = "idle", !.remaining = 0]
         /\ whole' = Len(sent)

WriteFailed == w' = [w EXCEPT !.pc = "failed"]

\* Connection.writeSize; nothing follows for an empty payload.
writeSize ==
    /\ w.pc = "size"
    /\ IF FrameFits(SizeBytes)
       THEN LET n == Length(Len(sent), w.part)
            IN  /\ wire' = Append(wire, Frame("size", SizeBytes, n, TRUE))
                /\ IF n = 0 THEN NextPart
                   ELSE w' = [w EXCEPT !.pc = "data", !.cur = 0, !.remaining = n] /\ UNCHANGED whole
       ELSE WriteFailed /\ UNCHANGED <<wire, whole>>
    /\ UNCHANGED <<sent, reader, faults>>

\* Mutant of PacketLen: the message code is forgotten.
PacketLenMax(left) == IF left > MaxFrame THEN MaxFrame ELSE left

\* Mutant of PacketLen: every packet is full.
PacketLenFull(left) == PacketSize

PacketLen(left) == IF left > PacketSize THEN PacketSize ELSE left

\* remaining -= n, which is unsigned in both loops.
Left(remaining, n) == IF n <= remaining THEN remaining - n ELSE remaining + Word - n

\* One round of the loop of Connection.writeData.
writeData ==
    /\ w.pc = "data"
    /\ LET n == PacketLen(w.remaining)
           left == Left(w.remaining, n)
       IN  IF FrameFits(n)
           THEN /\ wire' = Append(wire, Frame("data", n, 0, TRUE))
                /\ IF left = 0 THEN NextPart
                   ELSE /\ w' = [w EXCEPT !.cur = @ + n, !.remaining = left]
                        /\ UNCHANGED whole
           ELSE WriteFailed /\ UNCHANGED <<wire, whole>>
    /\ UNCHANGED <<sent, reader, faults>>

Fault == faults < MaxFaults /\ faults' = faults + 1

\* io.CopyN: the file that is sent has become shorter than its size was.
ShortSource ==
    /\ Fault
    /\ w.pc = "data" /\ w.part = "payload"
    /\ WriteFailed
    /\ UNCHANGED <<sent, whole, wire, reader>>

\* The write deadline passes within a frame: a part of it is on its way.
WriteTimeout ==
    /\ Fault
    /\ w.pc \in {"size", "data"}
    /\ WriteFailed
    /\ wire' = Append(wire, Frame(w.pc, PacketLen(w.remaining), 0, FALSE))
    /\ UNCHANGED <<sent, whole, reader>>

-----------------------------------------------------------------------------
(***************************************************************************)
(* The reader.                                                             *)
(***************************************************************************)
\* Mutant of Intact: the MACs are not compared.
IntactAny(f) == TRUE

\* rlpxFrameRW.ReadMsg: the frame is complete, and both MACs agree.
Intact(f) == f.ok

\* Mutant of StartData: a Read waits for data even if none was announced.
StartDataAlways(n) == TRUE

\* The loop of readData runs while bytes are left.
StartData(n) == n > 0

ReadFailed == r' = [r EXCEPT !.pc = "failed"] /\ UNCHANGED got

\* The end of a Read of n bytes, which are those of message id if the buffer is clean:
\* recvMsgHeader decodes a header, recvMsgPayload compares the length and ends.
ReadDone(n, id, clean) ==
    IF r.part = "header"
    THEN IF n = HeaderSize
         THEN /\ \E typ \in MsgTypes, len \in Lens :
                    /\ clean => typ = sent[id].typ /\ len = sent[id].len
                    /\ r' = [pc |-> "size", part |-> "payload", cur |-> 0, remaining |-> 0,
                             clean |-> clean, id |-> id, typ |-> typ, len |-> len]
              /\ UNCHANGED got
         ELSE ReadFailed
    ELSE IF n = r.len
         THEN /\ got' = Append(got, [id |-> IF clean THEN id ELSE 0, typ |-> r.typ, len |-> n])
              /\ r' = [r EXCEPT !.pc = "size", !.part = "header", !.cur = 0, !.remaining = 0]
         ELSE ReadFailed

\* Connection.readSize.  The bytes of an intact size frame are its announced size.
readSize ==
    /\ r.pc = "size" /\ wire # << >>
    /\ LET f == Head(wire)
       IN  IF Intact(f) /\ f.code = "size" /\ f.size = SizeBytes
           THEN LET clean == r.clean /\ f.ok /\ f.part = r.part /\ (r.part = "payload" => f.id = r.id)
                IN  IF StartData(f.val)
                    THEN /\ r' = [r EXCEPT !.pc = "data", !.cur = 0, !.remaining = f.val,
                                           !.clean = clean, !.id = f.id]
                         /\ UNCHANGED got
                    ELSE ReadDone(f.val, f.id, clean)
           ELSE ReadFailed
    /\ wire' = Tail(wire)
    /\ UNCHANGED <<writer, faults>>

\* One round of the loop of Connection.readData.
readData ==
    /\ r.pc = "data" /\ wire # << >>
    /\ LET f     == Head(wire)
           left  == Left(r.remaining, f.size)
           clean == r.clean /\ f.ok /\ f.id = r.id /\ f.part = r.part /\ f.from = r.cur
       IN  CASE ~Intact(f) \/ f.code # "data" -> ReadFailed
             [] Intact(f) /\ f.code = "data" /\ f.size = 0 -> UNCHANGED reader
             [] Intact(f) /\ f.code = "data" /\ f.size # 0 ->
                    IF left > 0
                    THEN /\ r' = [r EXCEPT !.cur = @ + f.size, !.remaining = left, !.clean = clean]
                         /\ UNCHANGED got
                    ELSE ReadDone(r.cur + f.size, r.id, clean)
    /\ wire' = Tail(wire)
    /\ UNCHANGED <<writer, faults>>

\* The read deadline passes before a frame has come: the writer's program is slow ..
ReadTimeout ==
    /\ Fault
    /\ r.pc # "failed" /\ wire = << >>
    /\ ReadFailed
    /\ UNCHANGED <<writer, wire>>

\* .. or its end has failed, and none will come.
ReadDeadline ==
    /\ r.pc # "failed" /\ wire = << >> /\ w.pc = "failed"
    /\ ReadFailed
    /\ UNCHANGED <<writer, wire, faults>>

\* The network damages a frame on its way.
Damage ==
    /\ Fault
    /\ \E i \in DOMAIN wire : wire' = [wire EXCEPT ![i].ok = FALSE]
    /\ UNCHANGED <<writer, reader>>

\* The connection breaks: what is on its way is lost from some frame on.
Break ==
    /\ Fault
    /\ WriteFailed
    /\ \E k \in 0..Len(wire) : wire' = SubSeq(wire, 1, k)
    /\ UNCHANGED <<sent, whole, reader>>

Read == readSize \/ readData

\* The steps of the writer's end and of the reader's end.
Writes ==
    \/ \E typ \in MsgTypes, n \in Lens : sendMsg(typ, n)
    \/ writeSize \/ writeData \/ ShortSource \/ WriteTimeout \/ Break
Reads == Read \/ ReadTimeout \/ ReadDeadline

Next == Writes \/ Reads \/ Damage

Spec == Init /\ [][Next]_vars

-----------------------------------------------------------------------------
WriterType == [pc : {"idle", "size", "data", "failed"}, part : Parts,
               cur : Nat, remaining : 0..(Word - 1)]
ReaderType == [pc : {"size", "data", "failed"}, part : Parts, cur : Nat, remaining : 0..(Word - 1),
               clean : BOOLEAN, id : Nat, typ : MsgTypes \cup {""}, len : Nat]
FrameType == [code : {"size", "data"}, id : Nat, part : Parts, from : Nat, size : Nat, val : Nat,
              ok : BOOLEAN]

\* Types of the variables.
TypeOK ==
    /\ sent \in Seq(Message) /\ whole \in Nat
    /\ w \in WriterType
    /\ wire \in Seq(FrameType)
    /\ r \in ReaderType
    /\ got \in Seq([id : Nat, typ : MsgTypes \cup {""}, len : Nat])
    /\ faults \in 0..MaxFaults

\* The count of the bytes that are left of a message never wraps around when the peer
\* is this writer, whatever is damaged or lost on the way: readData ends with the last
\* byte that was announced.  (Packets of another writer that overrun the announced
\* size are not checked for, and not modelled.)
NoWrap == r.pc = "data" => r.remaining + r.cur = Length(r.id, r.part)

\* A Read or a Write fails only if something went wrong below it: every frame the
\* writer makes fits the length field, every announced size is the one the reader
\* expects, and no frame is taken for one of another kind.
NoSpuriousFailure == (w.pc = "failed" \/ r.pc = "failed") => faults > 0

\* The messages that were written to the end, and the channel they are sent over.
Whole == SubSeq(sent, 1, whole)
Channel == INSTANCE MsgChannel WITH sent <- Whole

\* The stream implements the channel net/node.go relies on: what a receiving
\* function returns is the next message some sendMsg wrote to the end, with all of
\* its bytes and no others, however the message was cut into packets and wherever
\* the connection failed.
IsChannel == Channel!Spec
=============================================================================
